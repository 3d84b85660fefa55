---------------------------- MODULE CommonLemmas ----------------------------
(***************************************************************************)
(* Facts on naturals and on sequences that the proofs of several modules   *)
(* use, and what queue_network_input adds to the blocks received of a      *)
(* stream and stream_data_callback takes from them, for every list of      *)
(* blocks and every frame.                                                 *)
(***************************************************************************)
EXTENDS StreamBlocks, WellFoundedInduction, TLAPS

\* The time the provers are given for a step.
USE SMTT(20), ZenonT(30)

(***************************************************************************)
(* What a sequence is, and what joining and cutting one give.              *)
(***************************************************************************)
LEMMA LengthOfSeq ==
  ASSUME NEW S, NEW seq \in Seq(S)
  PROVE  Len(seq) \in Nat /\ seq \in [1..Len(seq) -> S] /\ DOMAIN seq = 1..Len(seq)
OBVIOUS

LEMMA NthOfSeq ==
  ASSUME NEW S, NEW seq \in Seq(S), NEW n \in 1..Len(seq)
  PROVE  seq[n] \in S
OBVIOUS

LEMMA JoinedSeqs ==
  ASSUME NEW S, NEW s1 \in Seq(S), NEW s2 \in Seq(S)
  PROVE  /\ s1 \o s2 \in Seq(S)
         /\ Len(s1 \o s2) = Len(s1) + Len(s2)
         /\ \A i \in 1..Len(s1) + Len(s2) :
              (s1 \o s2)[i] = IF i <= Len(s1) THEN s1[i] ELSE s2[i - Len(s1)]
OBVIOUS

LEMMA CutSeq ==
  ASSUME NEW S, NEW s, NEW m \in Int, NEW n \in Int, \A i \in m..n : s[i] \in S
  PROVE  /\ SubSeq(s, m, n) \in Seq(S)
         /\ Len(SubSeq(s, m, n)) = IF m <= n THEN n - m + 1 ELSE 0
         /\ \A i \in 1..n - m + 1 : SubSeq(s, m, n)[i] = s[m + i - 1]
OBVIOUS

(***************************************************************************)
(* Every non-empty set of naturals has a least element, which Min picks:    *)
(* where the loops of the code stop.                                       *)
(***************************************************************************)
LEMMA MinOfPositions ==
  ASSUME NEW S \in SUBSET Nat, S # {}
  PROVE  Min(S) \in S /\ \A y \in S : Min(S) <= y
<1> DEFINE Lt == {p \in Nat \X Nat : p[1] < p[2]}
<1>1. OpToRel(<, Nat) = Lt
  BY DEF OpToRel
<1>2. \E x \in S : \A y \in S : <<y, x>> \notin Lt
  BY <1>1, WFMin, NatLessThanWellFounded, Zenon
<1>3. \A x, y \in S : <<y, x>> \notin Lt => x =< y
  OBVIOUS
<1>4. \E x \in S : \A y \in S : x =< y
  BY Zenon, <1>2, <1>3
<1> QED BY Zenon, <1>4 DEF Min

(***************************************************************************)
(* The MIN of the code.                                                    *)
(***************************************************************************)
LEMMA MinOfTwo ==
  ASSUME NEW a \in Int, NEW b \in Int
  PROVE  /\ Min({a, b}) = IF a <= b THEN a ELSE b
         /\ Min({a, b}) \in Int /\ Min({a, b}) <= a /\ Min({a, b}) <= b
<1>1. \E x \in {a, b} : \A y \in {a, b} : x =< y
  <2>1. CASE a <= b
    BY <2>1
  <2>2. CASE b <= a
    BY <2>2
  <2> QED BY <2>1, <2>2
<1>2. Min({a, b}) \in {a, b} /\ \A y \in {a, b} : Min({a, b}) =< y
  BY <1>1, Zenon DEF Min
<1> QED BY <1>2

(***************************************************************************)
(* The MAX of the code.                                                    *)
(***************************************************************************)
LEMMA MaxOfTwo ==
  ASSUME NEW a \in Int, NEW b \in Int
  PROVE  Max({a, b}) = IF a >= b THEN a ELSE b
<1>1. \E x \in {a, b} : \A y \in {a, b} : x >= y
  <2>1. CASE a <= b
    BY <2>1
  <2>2. CASE b <= a
    BY <2>2
  <2> QED BY <2>1, <2>2
<1>2. Max({a, b}) \in {a, b} /\ \A y \in {a, b} : Max({a, b}) >= y
  BY <1>1, Zenon DEF Max
<1> QED BY <1>2

(***************************************************************************)
(* What inserting an element in a list leaves at every position (create_node *)
(* of the interval list, queue_network_input of the streams).              *)
(***************************************************************************)
LEMMA InsertedPositions ==
  ASSUME NEW S, NEW t \in Seq(S), NEW i \in 1..(Len(t) + 1), NEW e \in S
  PROVE  /\ Inserted(t, i, e) \in Seq(S)
         /\ Len(Inserted(t, i, e)) = Len(t) + 1
         /\ \A j \in 1..Len(t) + 1 : j < i => Inserted(t, i, e)[j] = t[j]
         /\ Inserted(t, i, e)[i] = e
         /\ \A j \in 1..Len(t) + 1 : j > i => Inserted(t, i, e)[j] = t[j - 1]
<1> DEFINE a == SubSeq(t, 1, i - 1)
           b == SubSeq(t, i, Len(t))
           ae == a \o <<e>>
           c == ae \o b
<1>. Len(t) \in Nat
  BY LengthOfSeq
<1>1. /\ a \in Seq(S) /\ Len(a) = i - 1
      /\ \A j \in 1..i - 1 : a[j] = t[j]
  BY CutSeq, NthOfSeq
<1>2. /\ b \in Seq(S) /\ Len(b) = Len(t) - i + 1
      /\ \A j \in 1..Len(t) - i + 1 : b[j] = t[i + j - 1]
  BY CutSeq, NthOfSeq
<1>3. <<e>> \in Seq(S) /\ Len(<<e>>) = 1 /\ <<e>>[1] = e
  OBVIOUS
<1> HIDE DEF a, b
<1>4. /\ ae \in Seq(S) /\ Len(ae) = i
      /\ \A j \in 1..i : ae[j] = IF j <= i - 1 THEN a[j] ELSE <<e>>[j - (i - 1)]
  BY <1>1, <1>3, JoinedSeqs
<1> HIDE DEF ae
<1>5. /\ c \in Seq(S) /\ Len(c) = Len(t) + 1
      /\ \A j \in 1..Len(t) + 1 : c[j] = IF j <= i THEN ae[j] ELSE b[j - i]
  <2>1. /\ c \in Seq(S) /\ Len(c) = Len(ae) + Len(b)
        /\ \A j \in 1..Len(ae) + Len(b) : c[j] = IF j <= Len(ae) THEN ae[j] ELSE b[j - Len(ae)]
    BY Zenon, <1>2, <1>4, JoinedSeqs
  <2>2. Len(ae) = i /\ Len(ae) + Len(b) = Len(t) + 1
    BY <1>2, <1>4
  <2> HIDE DEF c
  <2> QED BY <2>1, <2>2
<1>6. Inserted(t, i, e) = c
  BY DEF Inserted, c, ae, a, b
<1> HIDE DEF c
<1>7. \A j \in 1..Len(t) + 1 :
        c[j] = IF j < i THEN t[j] ELSE IF j = i THEN e ELSE t[j - 1]
  <2> TAKE j \in 1..Len(t) + 1
  <2>1. CASE j < i
    <3>1. j \in 1..i /\ j <= i - 1 /\ j <= i /\ j \in 1..i - 1
      BY <2>1
    <3>2. c[j] = ae[j] /\ ae[j] = a[j]
      BY <3>1, <1>4, <1>5
    <3>3. c[j] = t[j]
      BY <3>1, <3>2, <1>1
    <3> QED BY <2>1, <3>3
  <2>2. CASE j = i
    <3>1. c[j] = ae[j] /\ ae[j] = <<e>>[1]
      BY <2>2, <1>4, <1>5
    <3> QED BY <2>2, <3>1, <1>3
  <2>3. CASE j > i
    <3>1. j - i \in 1..Len(t) - i + 1
      BY <2>3
    <3>2. c[j] = b[j - i]
      BY <2>3, <1>5
    <3> QED BY <2>3, <3>1, <3>2, <1>2
  <2> QED BY <2>1, <2>2, <2>3
<1> QED BY <1>5, <1>6, <1>7

(***************************************************************************)
(* A symbol has one slot in a ring of n slots (the % of the ring buffers).  *)
(***************************************************************************)
LEMMA ModRange ==
  ASSUME NEW n \in Nat \ {0}, NEW i \in Nat
  PROVE  i % n \in 0..(n - 1)
OBVIOUS

(***************************************************************************)
(* A multiple of n strictly between -n and n is zero.                      *)
(***************************************************************************)
LEMMA SmallMultiple ==
  ASSUME NEW n \in Nat \ {0}, NEW q \in Int, n * q < n, n * q > -n
  PROVE  q = 0
<1>1. CASE q >= 1
  <2>1. n * q >= n
    BY <1>1
  <2> QED BY <2>1
<1>2. CASE q <= -1
  <2>1. n * q <= -n
    BY <1>2
  <2> QED BY <2>1
<1> QED BY <1>1, <1>2

(***************************************************************************)
(* Two ids that share a slot are equal or at least n apart: the reason why  *)
(* a window of n consecutive ids fits in a ring of n slots.                *)
(***************************************************************************)
LEMMA ModInjective ==
  ASSUME NEW n \in Nat \ {0}, NEW i \in Nat, NEW j \in Nat,
         i % n = j % n, i - j < n, j - i < n
  PROVE  i = j
<1> DEFINE a == i \div n
           b == j \div n
<1>1. i = n * a + (i % n) /\ j = n * b + (j % n) /\ a \in Nat /\ b \in Nat /\ i % n \in Int
  OBVIOUS
<1> HIDE DEF a, b
<1>2. i - j = n * (a - b)
  BY <1>1
<1>3. a - b \in Int /\ n * (a - b) < n /\ n * (a - b) > -n
  BY <1>1, <1>2
<1>4. a - b = 0
  BY <1>3, SmallMultiple
<1> QED BY <1>1, <1>4

(***************************************************************************)
(* Adding a multiple of n does not change the slot.                        *)
(***************************************************************************)
LEMMA ModShift ==
  ASSUME NEW n \in Nat \ {0}, NEW i \in Nat, NEW q \in Nat
  PROVE  (i + n * q) % n = i % n
<1> DEFINE j == i + n * q
           a == i \div n
           b == j \div n
           c == b - a - q
           r == i % n
           s == j % n
<1>1. j \in Nat
  OBVIOUS
<1>2. j = i + n * q
  OBVIOUS
<1> HIDE DEF j
<1>3. /\ i = n * a + r /\ a \in Nat /\ r \in 0..(n - 1)
      /\ j = n * b + s /\ b \in Nat /\ s \in 0..(n - 1)
  BY <1>1
<1> HIDE DEF a, b, r, s
<1>4. c \in Int
  BY <1>3
<1>5. n * c = n * b - n * a - n * q
  BY <1>3
<1>6. r - s = n * c
  BY <1>2, <1>3, <1>5
<1> HIDE DEF c
<1>7. n * c < n /\ n * c > -n
  BY <1>3, <1>6
<1>8. c = 0
  BY <1>4, <1>7, SmallMultiple
<1>9. r = s
  BY <1>3, <1>6, <1>8
<1> QED BY <1>9 DEF j, r, s

(***************************************************************************)
(* A slot can be found from the slot of another id: moving the start of a   *)
(* ring moves none of its entries.                                         *)
(***************************************************************************)
LEMMA ModOfMod ==
  ASSUME NEW n \in Nat \ {0}, NEW i \in Nat, NEW j \in Nat
  PROVE  (i + (j % n)) % n = (i + j) % n
<1> DEFINE q == j \div n
           k == i + (j % n)
<1>1. j = n * q + (j % n) /\ q \in Nat /\ j % n \in Nat
  OBVIOUS
<1>2. k \in Nat /\ i + j = k + n * q
  BY <1>1
<1> HIDE DEF q, k
<1>3. (k + n * q) % n = k % n
  BY Zenon, <1>1, <1>2, ModShift
<1> QED BY <1>2, <1>3 DEF k

-----------------------------------------------------------------------------

(***************************************************************************)
(* What the order of neighbours says of any two blocks.                     *)
(***************************************************************************)
LEMMA Ascending ==
  ASSUME NEW n \in Nat, NEW lo \in [1..n -> Nat], NEW hi \in [1..n -> Nat], NEW c \in Nat,
         \A i \in 1..n : lo[i] < hi[i] /\ lo[i] >= IF i = 1 THEN c ELSE hi[i - 1]
  PROVE  /\ \A i, j \in 1..n : i < j => hi[i] <= lo[j]
         /\ \A i \in 1..n : c <= lo[i]
<1>1. ASSUME NEW i \in 1..n, NEW j \in 1..n, i < j, hi[i] > lo[j]
      PROVE  FALSE
  <2> DEFINE W == {k \in 1..n : i < k /\ hi[i] > lo[k]}
  <2>0. j \in W
    BY <1>1
  <2>1. W \in SUBSET Nat
    OBVIOUS
  <2>2. PICK m \in W : \A k \in W : m <= k
    BY Zenon, <2>0, <2>1, MinOfPositions
  <2>3. CASE m - 1 = i
    <3>1. m # 1 /\ lo[m] >= hi[m - 1]
      BY <2>3
    <3> QED BY <3>1, <2>3, <1>1
  <2>4. CASE m - 1 # i
    <3>1. m - 1 \in 1..n /\ i < m - 1 /\ m - 1 \notin W
      BY <2>2, <2>4
    <3>2. hi[i] <= lo[m - 1] /\ lo[m - 1] < hi[m - 1] /\ lo[m] >= hi[m - 1]
      BY <3>1
    <3> QED BY <3>1, <3>2
  <2> QED BY <2>3, <2>4
<1>2. \A i, j \in 1..n : i < j => hi[i] <= lo[j]
  BY <1>1
<1>3. ASSUME NEW i \in 1..n PROVE c <= lo[i]
  <2>1. CASE i = 1
    BY <2>1
  <2>2. CASE i # 1
    <3>1. 1 \in 1..n /\ c <= lo[1] /\ lo[1] < hi[1] /\ hi[1] <= lo[i]
      BY <2>2, <1>2
    <3> QED BY <3>1
  <2> QED BY <2>1, <2>2
<1> QED BY <1>2, <1>3

LEMMA OrderedBlocks ==
  ASSUME NEW b, NEW c \in Nat, Ordered(b, c)
  PROVE  /\ \A i \in 1..Len(b) : /\ b[i].offset \in Nat /\ b[i].length \in Nat /\ End(b[i]) \in Nat
                                 /\ b[i].offset < End(b[i]) /\ c <= b[i].offset
         /\ \A i, j \in 1..Len(b) : i < j => End(b[i]) <= b[j].offset
<1> DEFINE n == Len(b)
           lo == [i \in 1..n |-> b[i].offset]
           hi == [i \in 1..n |-> End(b[i])]
<1>1. b \in Seq(DataBlocks) /\ n \in Nat
  BY DEF Ordered
<1>2. \A i \in 1..n : b[i] \in DataBlocks
  BY <1>1
<1>3. \A i \in 1..n : b[i].offset \in Nat /\ b[i].length \in Nat \ {0}
  BY <1>2 DEF DataBlocks
<1>4. \A i \in 1..n : End(b[i]) \in Nat /\ b[i].offset < End(b[i])
  BY <1>3 DEF End
<1>5. lo \in [1..n -> Nat] /\ hi \in [1..n -> Nat]
  BY <1>3, <1>4
<1>6. \A i \in 1..n : lo[i] < hi[i] /\ lo[i] >= IF i = 1 THEN c ELSE hi[i - 1]
  <2> TAKE i \in 1..n
  <2>1. lo[i] < hi[i]
    BY <1>4
  <2>2. lo[i] >= IF i = 1 THEN c ELSE End(b[i - 1])
    BY DEF Ordered
  <2>3. i # 1 => i - 1 \in 1..n
    BY <1>1
  <2> QED BY <2>1, <2>2, <2>3
<1> HIDE DEF lo, hi
<1>7. /\ \A i, j \in 1..n : i < j => hi[i] <= lo[j]
      /\ \A i \in 1..n : c <= lo[i]
  BY Zenon, <1>1, <1>5, <1>6, Ascending
<1> QED BY <1>3, <1>4, <1>7 DEF lo, hi

(***************************************************************************)
(* Membership in what a stream holds.                                       *)
(***************************************************************************)
LEMMA HeldMeans ==
  ASSUME NEW b, NEW c \in Nat, Ordered(b, c), NEW y \in Nat
  PROVE  y \in HeldBy(b, c) <=> y < c \/ \E i \in 1..Len(b) : b[i].offset <= y /\ y < End(b[i])
<1>1. DOMAIN b = 1..Len(b)
  BY DEF Ordered
<1>2. \A i \in 1..Len(b) : b[i].offset \in Nat /\ End(b[i]) \in Nat
  BY OrderedBlocks
<1>3. \A i \in 1..Len(b) : y \in Bytes(b[i]) <=> b[i].offset <= y /\ y < End(b[i])
  BY <1>2 DEF Bytes
<1>4. y \in 0..(c - 1) <=> y < c
  OBVIOUS
<1> QED BY <1>1, <1>3, <1>4 DEF HeldBy

LEMMA HeldAreNaturals ==
  ASSUME NEW b, NEW c \in Nat, Ordered(b, c)
  PROVE  HeldBy(b, c) \subseteq Nat
<1>1. DOMAIN b = 1..Len(b)
  BY DEF Ordered
<1>2. \A i \in 1..Len(b) : b[i].offset \in Nat /\ End(b[i]) \in Nat
  BY OrderedBlocks
<1>3. \A i \in 1..Len(b) : Bytes(b[i]) \subseteq Nat
  BY <1>2 DEF Bytes
<1>4. 0..(c - 1) \subseteq Nat
  OBVIOUS
<1> QED BY <1>1, <1>3, <1>4 DEF HeldBy

(***************************************************************************)
(* Where queue_network_input ends its walk over the blocks lo[i]..hi[i]-1,   *)
(* with c consumed, for a frame x..e-1: p blocks were met, and P[i] is the  *)
(* start of the new data once i were.  The frame is held below P[p], and    *)
(* unless all of it is, P[p] lies above the blocks that were met.           *)
(***************************************************************************)
Walked(n, lo, hi, c, x, e, P, p) ==
  /\ n \in Nat /\ lo \in [1..n -> Nat] /\ hi \in [1..n -> Nat] /\ c \in Nat
  /\ x \in Nat /\ e \in Nat /\ x <= e /\ P \in [0..n -> Nat] /\ p \in 0..n
  /\ \A i \in 1..n : lo[i] < hi[i] /\ c <= lo[i]
  /\ \A i, j \in 1..n : i < j => hi[i] <= lo[j]
  /\ P[0] = IF x > c THEN x ELSE IF e <= c THEN e ELSE c
  /\ \A i \in 1..n : P[i] = IF e <= hi[i] THEN e ELSE IF x < hi[i] THEN hi[i] ELSE P[0]
  /\ \A i \in 0..n : i < p => P[i] < e /\ lo[i + 1] <= P[i]

LEMMA Walk ==
  ASSUME NEW n, NEW lo, NEW hi, NEW c, NEW x, NEW e, NEW P, NEW p, Walked(n, lo, hi, c, x, e, P, p)
  PROVE  /\ \A y \in Nat : x <= y /\ y < P[p] =>
                y < c \/ \E i \in 1..n : lo[i] <= y /\ y < hi[i]
         /\ P[p] < e => x <= P[p] /\ c <= P[p] /\ \A i \in 1..n : i <= p => hi[i] <= P[p]
<1> USE DEF Walked
<1> DEFINE H(y) == y < c \/ \E i \in 1..n : lo[i] <= y /\ y < hi[i]
           Bad == {i \in 0..n : i <= p /\ \E y \in Nat : x <= y /\ y < P[i] /\ ~ H(y)}
<1>1. ASSUME Bad # {} PROVE FALSE
  <2>1. Bad \in SUBSET Nat
    OBVIOUS
  <2>2. PICK i \in Bad : \A k \in Bad : i <= k
    BY Zenon, <1>1, <2>1, MinOfPositions
  <2>3. i \in 0..n /\ i <= p
    OBVIOUS
  <2>4. PICK y \in Nat : x <= y /\ y < P[i] /\ ~ H(y)
    BY <2>2
  <2>5. ~ (y < c)
    BY <2>4
  <2>6. i # 0
    BY <2>4, <2>5
  <2>7. i - 1 \in 0..n /\ i \in 1..n /\ i - 1 < p
    BY <2>3, <2>6
  <2>8. i - 1 \notin Bad
    BY <2>2, <2>7
  <2>9. ~ (y < P[i - 1])
    BY <2>8, <2>7, <2>4
  <2>10. lo[i] <= P[i - 1]
    BY <2>7
  <2>11. lo[i] <= y
    BY <2>9, <2>10, <2>7
  <2>12. y < hi[i]
    <3>1. CASE P[i] = P[0]
      BY <3>1, <2>4, <2>5, <2>7
    <3>2. CASE P[i] # P[0]
      <4>0. hi[i] \in Nat /\ P[i] = IF e <= hi[i] THEN e ELSE IF x < hi[i] THEN hi[i] ELSE P[0]
        BY <2>7
      <4>1. P[i] <= hi[i]
        BY <3>2, <4>0
      <4> QED BY <4>1, <2>4, <2>7
    <3> QED BY <3>1, <3>2
  <2> QED BY <2>4, <2>7, <2>11, <2>12
<1>2. \A y \in Nat : x <= y /\ y < P[p] => H(y)
  <2>1. p \notin Bad
    BY Zenon, <1>1
  <2> QED BY <2>1
<1>3. ASSUME P[p] < e PROVE x <= P[p] /\ c <= P[p] /\ \A i \in 1..n : i <= p => hi[i] <= P[p]
  <2>1. CASE p = 0
    BY <2>1, <1>3
  <2>2. CASE p # 0
    <3>1. p \in 1..n /\ P[0] < e /\ 0 \in 0..n
      BY <2>2
    <3>2. x <= P[0] /\ c <= P[0]
      BY <3>1
    <3>3. e > hi[p] /\ P[p] = IF x < hi[p] THEN hi[p] ELSE P[0]
      BY <3>1, <1>3
    <3>4. x <= P[p] /\ c <= P[p] /\ hi[p] <= P[p]
      BY <3>1, <3>2, <3>3
    <3>5. ASSUME NEW i \in 1..n, i <= p PROVE hi[i] <= P[p]
      <4>1. CASE i = p
        BY <4>1, <3>4
      <4>2. CASE i # p
        <5>1. hi[i] <= lo[p] /\ lo[p] < hi[p]
          BY <4>2, <3>1, <3>5
        <5> QED BY <5>1, <3>1, <3>4
      <4> QED BY <4>1, <4>2
    <3> QED BY <3>4, <3>5
  <2> QED BY <2>1, <2>2
<1> QED BY <1>2, <1>3

(***************************************************************************)
(* A block put between two neighbours leaves the blocks in order and adds   *)
(* its bytes, none of which were held.                                      *)
(***************************************************************************)
LEMMA InsertBlock ==
  ASSUME NEW b, NEW c \in Nat, Ordered(b, c), NEW p \in 0..Len(b), NEW P \in Nat, NEW Q \in Nat,
         P < Q, c <= P,
         \A i \in 1..Len(b) : i <= p => End(b[i]) <= P,
         \A i \in 1..Len(b) : i > p => Q <= b[i].offset
  PROVE  LET b2 == Inserted(b, p + 1, Block(P, Q - P))
         IN /\ Ordered(b2, c) /\ b2 # b
            /\ HeldBy(b2, c) = HeldBy(b, c) \cup P..(Q - 1)
            /\ P..(Q - 1) \cap HeldBy(b, c) = {}
<1> DEFINE n == Len(b)
           new == Block(P, Q - P)
           b2 == Inserted(b, p + 1, new)
<1>1. b \in Seq(DataBlocks) /\ n \in Nat
  BY DEF Ordered
<1>2. new \in DataBlocks /\ new.offset = P /\ End(new) = Q
  BY DEF Block, DataBlocks, End
<1>3. /\ b2 \in Seq(DataBlocks)
      /\ Len(b2) = n + 1
      /\ \A j \in 1..n + 1 : j < p + 1 => b2[j] = b[j]
      /\ b2[p + 1] = new
      /\ \A j \in 1..n + 1 : j > p + 1 => b2[j] = b[j - 1]
  <2> DEFINE k == p + 1
  <2>1. k \in 1..(Len(b) + 1) /\ new \in DataBlocks /\ b \in Seq(DataBlocks)
    BY <1>1, <1>2
  <2> HIDE DEF new, k, n
  <2>2. /\ Inserted(b, k, new) \in Seq(DataBlocks)
        /\ Len(Inserted(b, k, new)) = Len(b) + 1
        /\ \A j \in 1..Len(b) + 1 : j < k => Inserted(b, k, new)[j] = b[j]
        /\ Inserted(b, k, new)[k] = new
        /\ \A j \in 1..Len(b) + 1 : j > k => Inserted(b, k, new)[j] = b[j - 1]
    BY ONLY <2>1, InsertedPositions, SMT
  <2> QED BY <2>2, Zenon DEF k, n
<1>4. /\ \A i \in 1..n : /\ b[i].offset \in Nat /\ End(b[i]) \in Nat
                         /\ b[i].offset < End(b[i]) /\ c <= b[i].offset
      /\ \A i, j \in 1..n : i < j => End(b[i]) <= b[j].offset
  BY Zenon, OrderedBlocks
<1>5. b2 # b
  BY <1>1, <1>3
<1>6. Ordered(b2, c)
  <2> SUFFICES ASSUME NEW i \in 1..(n + 1)
               PROVE  b2[i].offset >= IF i = 1 THEN c ELSE End(b2[i - 1])
    BY <1>3 DEF Ordered
  <2>1. CASE i < p + 1
    <3>1. b2[i] = b[i] /\ i \in 1..n /\ (i # 1 => b2[i - 1] = b[i - 1])
      BY <2>1, <1>1, <1>3
    <3>2. b[i].offset >= IF i = 1 THEN c ELSE End(b[i - 1])
      BY <3>1 DEF Ordered
    <3> QED BY <3>1, <3>2
  <2>2. CASE i = p + 1
    <3>1. b2[i].offset = P
      BY <2>2, <1>2, <1>3
    <3>2. i # 1 => b2[i - 1] = b[i - 1] /\ i - 1 \in 1..n /\ i - 1 <= p
      BY <2>2, <1>1, <1>3
    <3>3. i # 1 => End(b2[i - 1]) <= P
      BY <3>2
    <3>4. i # 1 => End(b2[i - 1]) \in Nat
      BY <3>2, <1>4
    <3> QED BY <3>1, <3>3, <3>4
  <2>3. CASE i > p + 1
    <3>1. b2[i] = b[i - 1] /\ i - 1 \in 1..n /\ i - 1 > p /\ i # 1
      BY <2>3, <1>1, <1>3
    <3>2. Q <= b2[i].offset /\ b2[i].offset \in Nat
      BY <3>1, <1>4
    <3>3. CASE i - 1 = p + 1
      BY <3>1, <3>2, <3>3, <1>2, <1>3
    <3>4. CASE i - 1 # p + 1
      <4>1. b2[i - 1] = b[i - 2] /\ i - 2 \in 1..n /\ i - 2 < i - 1
        BY <2>3, <3>4, <1>1, <1>3
      <4>2. End(b[i - 2]) <= b[i - 1].offset
        BY Zenon, <4>1, <3>1, <1>4
      <4>3. End(b[i - 2]) \in Nat
        BY Zenon, <4>1, <1>4
      <4> QED BY <3>1, <3>2, <4>1, <4>2, <4>3
    <3> QED BY <3>3, <3>4
  <2> QED BY <2>1, <2>2, <2>3, <1>1
<1>7. \A y \in Nat : y \in HeldBy(b2, c) <=> y \in HeldBy(b, c) \cup P..(Q - 1)
  <2> TAKE y \in Nat
  <2>1. y \in HeldBy(b2, c) <=> y < c \/ \E i \in 1..(n + 1) : b2[i].offset <= y /\ y < End(b2[i])
    BY <1>3, <1>6, HeldMeans
  <2>2. y \in HeldBy(b, c) <=> y < c \/ \E i \in 1..n : b[i].offset <= y /\ y < End(b[i])
    BY HeldMeans
  <2>3. ASSUME NEW i \in 1..(n + 1), b2[i].offset <= y, y < End(b2[i])
        PROVE  y \in P..(Q - 1) \/ \E j \in 1..n : b[j].offset <= y /\ y < End(b[j])
    <3>1. CASE i < p + 1
      BY <3>1, <2>3, <1>1, <1>3
    <3>2. CASE i = p + 1
      BY <3>2, <2>3, <1>2, <1>3
    <3>3. CASE i > p + 1
      <4>1. b2[i] = b[i - 1] /\ i - 1 \in 1..n
        BY <3>3, <1>1, <1>3
      <4> QED BY <4>1, <2>3
    <3> QED BY <3>1, <3>2, <3>3, <1>1
  <2>4. ASSUME NEW j \in 1..n, b[j].offset <= y, y < End(b[j])
        PROVE  \E i \in 1..(n + 1) : b2[i].offset <= y /\ y < End(b2[i])
    <3>1. CASE j <= p
      <4>1. j \in 1..(n + 1) /\ b2[j] = b[j]
        BY <3>1, <1>1, <1>3
      <4> QED BY <4>1, <2>4
    <3>2. CASE j > p
      <4>1. j + 1 \in 1..(n + 1) /\ j + 1 > p + 1 /\ (j + 1) - 1 = j
        BY <3>2, <1>1
      <4>2. b2[j + 1] = b[j]
        BY <4>1, <1>3
      <4> QED BY <4>1, <4>2, <2>4
    <3> QED BY <3>1, <3>2, <1>1
  <2>5. y \in P..(Q - 1) => \E i \in 1..(n + 1) : b2[i].offset <= y /\ y < End(b2[i])
    <3>1. p + 1 \in 1..(n + 1)
      BY <1>1
    <3> HIDE DEF b2, new
    <3> QED BY <3>1, <1>2, <1>3
  <2> QED BY <2>1, <2>2, <2>3, <2>4, <2>5
<1>8. HeldBy(b2, c) = HeldBy(b, c) \cup P..(Q - 1)
  <2>1. HeldBy(b2, c) \subseteq Nat /\ HeldBy(b, c) \subseteq Nat
    BY <1>6, HeldAreNaturals
  <2>2. P..(Q - 1) \subseteq Nat
    OBVIOUS
  <2> QED BY <1>7, <2>1, <2>2
<1>9. P..(Q - 1) \cap HeldBy(b, c) = {}
  <2> SUFFICES ASSUME NEW y \in P..(Q - 1), y \in HeldBy(b, c)
               PROVE  FALSE
    OBVIOUS
  <2>1. y \in Nat /\ P <= y /\ y < Q
    OBVIOUS
  <2>2. PICK i \in 1..n : b[i].offset <= y /\ y < End(b[i])
    BY <2>1, HeldMeans
  <2>3. b[i].offset \in Nat /\ End(b[i]) \in Nat
    BY <1>4
  <2> QED BY <2>1, <2>2, <2>3, <1>1
<1> QED BY <1>5, <1>6, <1>8, <1>9

(***************************************************************************)
(* What queue_network_input does with a frame: all of it was held already,  *)
(* or one new stretch P..Q-1 of it is added, from the first byte that was   *)
(* missing to its end or to a byte that was held.                          *)
(***************************************************************************)
LEMMA QueueInput ==
  ASSUME NEW b, NEW c \in Nat, Ordered(b, c), NEW f, f.offset \in Nat, f.length \in Nat
  PROVE  LET b2 == queue_network_input(b, c, f)
         IN \/ b2 = b /\ Bytes(f) \subseteq HeldBy(b, c)
            \/ \E P, Q \in Nat :
                 /\ f.offset <= P /\ P < Q /\ Q <= End(f)
                 /\ f.offset..(P - 1) \subseteq HeldBy(b, c)
                 /\ P..(Q - 1) \cap HeldBy(b, c) = {}
                 /\ Q = End(f) \/ Q \in HeldBy(b, c)
                 /\ Ordered(b2, c) /\ b2 # b
                 /\ HeldBy(b2, c) = HeldBy(b, c) \cup P..(Q - 1)
<1> DEFINE n == Len(b)
           x == f.offset
           e == End(f)
           lo == [i \in 1..n |-> b[i].offset]
           hi == [i \in 1..n |-> End(b[i])]
           P == [i \in 0..n |-> f.offset + StartAfter(b, c, f, i)]
           p == Passed(b, c, f)
           b2 == queue_network_input(b, c, f)
<1>1. b \in Seq(DataBlocks) /\ n \in Nat /\ DOMAIN b = 1..n
  BY DEF Ordered
<1>0. n \in Nat
  BY <1>1
<1>2. x \in Nat /\ e \in Nat /\ x <= e /\ e = x + f.length /\ f.length \in Nat
  BY DEF End
<1>3. /\ lo \in [1..n -> Nat] /\ hi \in [1..n -> Nat]
      /\ \A i \in 1..n : lo[i] < hi[i] /\ c <= lo[i]
      /\ \A i, j \in 1..n : i < j => hi[i] <= lo[j]
  BY OrderedBlocks
<1>4. /\ f.offset + StartAfter(b, c, f, 0) = IF x > c THEN x ELSE IF e <= c THEN e ELSE c
      /\ f.offset + StartAfter(b, c, f, 0) \in Nat
  BY <1>2 DEF StartAfter, StartBeyondConsumed
<1>5. \A i \in 1..n : f.offset + StartAfter(b, c, f, i) =
          IF e <= hi[i] THEN e ELSE IF x < hi[i] THEN hi[i] ELSE f.offset + StartAfter(b, c, f, 0)
  <2> TAKE i \in 1..n
  <2>1. hi[i] = End(b[i]) /\ hi[i] \in Nat
    BY <1>3
  <2>2. i # 0
    BY <1>1
  <2>3. StartAfter(b, c, f, i) =
          IF e <= hi[i] THEN f.length ELSE IF x < hi[i] THEN hi[i] - x ELSE StartAfter(b, c, f, 0)
    BY <2>1, <2>2 DEF StartAfter, WalkOver
  <2> HIDE DEF hi, e, x
  <2>4. f.offset + StartAfter(b, c, f, i) =
          IF e <= hi[i] THEN x + f.length ELSE IF x < hi[i] THEN x + (hi[i] - x) ELSE f.offset + StartAfter(b, c, f, 0)
    BY <2>3 DEF x
  <2> QED BY <1>2, <2>1, <2>4
<1>6. /\ P \in [0..n -> Nat]
      /\ P[0] = IF x > c THEN x ELSE IF e <= c THEN e ELSE c
      /\ \A i \in 1..n : P[i] = IF e <= hi[i] THEN e ELSE IF x < hi[i] THEN hi[i] ELSE P[0]
  <2>1. \A i \in 0..n : i = 0 \/ i \in 1..n
    BY <1>1
  <2>2. \A i \in 0..n : f.offset + StartAfter(b, c, f, i) \in Nat
    BY <2>1, <1>2, <1>3, <1>4, <1>5
  <2>3. P \in [0..n -> Nat]
    BY <2>2
  <2>4. 0 \in 0..n /\ \A i \in 1..n : i \in 0..n
    BY <1>1
  <2> QED BY <2>3, <2>4, <1>4, <1>5
<1>7. \A i \in 0..n : (StartAfter(b, c, f, i) >= f.length) <=> (P[i] >= e)
  <2> TAKE i \in 0..n
  <2>0. i = 0 \/ i \in 1..n
    BY <1>1
  <2>1. StartAfter(b, c, f, i) \in Int
    BY <2>0, <1>2, <1>3 DEF StartAfter, StartBeyondConsumed, WalkOver
  <2>2. P[i] = x + StartAfter(b, c, f, i)
    OBVIOUS
  <2> QED BY <2>1, <2>2, <1>2
<1>8. /\ p \in 0..n
      /\ p = n \/ P[p] >= e \/ lo[p + 1] > P[p]
      /\ \A i \in 0..n : i < p => P[i] < e /\ lo[i + 1] <= P[i]
  <2> DEFINE W == {i \in 0..Len(b) :
                     \/ i = Len(b)
                     \/ StartAfter(b, c, f, i) >= f.length
                     \/ b[i + 1].offset > f.offset + StartAfter(b, c, f, i)}
  <2>1. W \in SUBSET Nat
    OBVIOUS
  <2>2. n \in W
    BY <1>1
  <2>3. p \in W /\ \A k \in W : p <= k
    BY Zenon, <2>1, <2>2, MinOfPositions DEF Passed
  <2>4. \A i \in 0..n : i \in W <=> i = n \/ P[i] >= e \/ lo[i + 1] > P[i]
    <3> TAKE i \in 0..n
    <3>1. i # n => i + 1 \in 1..n
      <4> HIDE DEF n
      <4> QED BY <1>0
    <3> QED BY <3>1, <1>7
  <2> HIDE DEF W, p, P, lo
  <2>5. p \in 0..n /\ (p = n \/ P[p] >= e \/ lo[p + 1] > P[p])
    BY <2>3, <2>4 DEF W
  <2>6. ASSUME NEW i \in 0..n, i < p PROVE P[i] < e /\ lo[i + 1] <= P[i]
    <3>1. i \notin W
      BY <2>3, <2>5, <2>6
    <3>2. i + 1 \in 1..n /\ P[i] \in Nat /\ lo[i + 1] \in Nat
      <4> HIDE DEF n, hi, x, e
      <4>1. i + 1 \in 1..n
        BY <2>5, <2>6, <1>0
      <4> QED BY <4>1, <1>3, <1>6
    <3> QED BY <3>1, <3>2, <2>4, <1>2
  <2> QED BY <2>5, <2>6
<1>9. /\ \A y \in Nat : x <= y /\ y < P[p] => y < c \/ \E i \in 1..n : lo[i] <= y /\ y < hi[i]
      /\ P[p] < e => x <= P[p] /\ c <= P[p] /\ \A i \in 1..n : i <= p => hi[i] <= P[p]
  <2> HIDE DEF n, lo, hi, P, p, x, e
  <2>1. Walked(n, lo, hi, c, x, e, P, p)
    BY <1>0, <1>2, <1>3, <1>6, <1>8, Zenon DEF Walked
  <2> QED BY <2>1, Walk, Zenon
<1>10. \A y \in Nat : y \in HeldBy(b, c) <=> y < c \/ \E i \in 1..n : lo[i] <= y /\ y < hi[i]
  BY HeldMeans
<1>11. b2 = Insert(b, f, StartAfter(b, c, f, p), p) /\ P[p] = x + StartAfter(b, c, f, p)
       /\ StartAfter(b, c, f, p) \in Int
  <2>0. p = 0 \/ p \in 1..n
    BY <1>1, <1>8
  <2>1. StartAfter(b, c, f, p) \in Int
    BY <2>0, <1>2, <1>3 DEF StartAfter, StartBeyondConsumed, WalkOver
  <2> QED BY <1>8, <2>1 DEF queue_network_input
<1>12. CASE P[p] >= e
  <2>1. b2 = b
    BY <1>2, <1>11, <1>12 DEF Insert
  <2>2. \A y \in Bytes(f) : y \in Nat /\ x <= y /\ y < e
    BY <1>2 DEF Bytes
  <2>3. P[p] \in Nat
    BY <1>6, <1>8
  <2> HIDE DEF lo, hi, P, p, x, e, b2
  <2>4. Bytes(f) \subseteq HeldBy(b, c)
    BY <2>2, <2>3, <1>2, <1>9, <1>10, <1>12
  <2> QED BY <2>1, <2>4 DEF b2
<1>13. CASE P[p] < e
  <2> DEFINE A == P[p]
             Q == IF p < n /\ lo[p + 1] < e THEN lo[p + 1] ELSE e
  <2>1. A \in Nat
    BY <1>6, <1>8
  <2>2. p < n => p + 1 \in 1..n /\ lo[p + 1] \in Nat /\ lo[p + 1] > A /\ lo[p + 1] = b[p + 1].offset
    <3>1. p < n => p + 1 \in 1..n
      BY <1>1, <1>8
    <3>2. p < n => lo[p + 1] \in Nat /\ lo[p + 1] = b[p + 1].offset
      BY <3>1, <1>3
    <3>3. p < n => lo[p + 1] > A
      <4>1. p < n => ~ (p = n) /\ ~ (P[p] >= e)
        <5> HIDE DEF n, lo, P, p, e
        <5> QED BY <1>0, <1>2, <1>8, <1>13, <2>1
      <4> QED BY <4>1, <1>8
    <3> QED BY <3>1, <3>2, <3>3
  <2>3. Q \in Nat /\ A < Q /\ Q <= e
    BY <1>2, <1>13, <2>1, <2>2
  <2>4. StartAfter(b, c, f, p) < f.length
    BY <1>2, <1>11, <1>13
  <2>5. KeptLength(b, f, StartAfter(b, c, f, p), p) = Q - A
    <3>1. f.length - StartAfter(b, c, f, p) = e - A
      BY <1>2, <1>11
    <3>2. f.offset + StartAfter(b, c, f, p) = A
      BY <1>11
    <3> QED BY <3>1, <3>2, <2>2 DEF KeptLength
  <2>6. b2 = Inserted(b, p + 1, Block(A, Q - A))
    <3>1. f.offset + StartAfter(b, c, f, p) = A
      BY <1>11
    <3>2. Q - A > 0
      BY <2>1, <2>3
    <3> QED BY <1>11, <2>4, <2>5, <3>1, <3>2 DEF Insert
  <2>7. \A i \in 1..n : i <= p => End(b[i]) <= A
    BY Zenon, <1>9, <1>13
  <2>8. \A i \in 1..n : i > p => Q <= b[i].offset
    <3> TAKE i \in 1..n
    <3> HAVE i > p
    <3>1. p < n /\ p + 1 \in 1..n /\ p \in Nat
      BY <1>1, <1>8
    <3>2. lo[p + 1] <= lo[i]
      <4>1. CASE i = p + 1
        BY <4>1, <3>1, <1>3
      <4>2. CASE i # p + 1
        <5>1. hi[p + 1] <= lo[i] /\ lo[p + 1] < hi[p + 1]
          BY <4>2, <3>1, <1>3
        <5>2. hi[p + 1] \in Nat /\ lo[p + 1] \in Nat /\ lo[i] \in Nat
          BY <3>1, <1>3
        <5> QED BY <5>1, <5>2
      <4> QED BY <4>1, <4>2
    <3>3. lo[i] = b[i].offset /\ lo[i] \in Nat
      BY <1>3
    <3>4. Q <= lo[p + 1]
      BY <3>1, <2>2, <1>2
    <3> QED BY <3>1, <3>2, <3>3, <3>4, <2>2, <2>3
  <2>9. c <= A /\ x <= A
    BY <1>9, <1>13
  <2> HIDE DEF A, Q
  <2>10. /\ Ordered(b2, c) /\ b2 # b
         /\ HeldBy(b2, c) = HeldBy(b, c) \cup A..(Q - 1)
         /\ A..(Q - 1) \cap HeldBy(b, c) = {}
    BY <1>8, <2>1, <2>3, <2>6, <2>7, <2>8, <2>9, InsertBlock
  <2>11. x..(A - 1) \subseteq HeldBy(b, c)
    <3>1. \A y \in x..(A - 1) : y \in Nat /\ x <= y /\ y < A
      BY <1>2, <2>1
    <3> QED BY Zenon, <3>1, <1>9, <1>10 DEF A
  <2>12. Q = e \/ Q \in HeldBy(b, c)
    <3>1. CASE p < n /\ lo[p + 1] < e
      <4>1. Q = lo[p + 1] /\ p + 1 \in 1..n /\ lo[p + 1] < hi[p + 1]
        BY <3>1, <2>2, <1>3 DEF Q
      <4> HIDE DEF lo, hi, p
      <4>2. Q <= Q /\ Q < hi[p + 1]
        BY <4>1, <2>3
      <4> QED BY <4>1, <4>2, <2>3, <1>10
    <3>2. CASE ~ (p < n /\ lo[p + 1] < e)
      BY <3>2 DEF Q
    <3> QED BY <3>1, <3>2
  <2> QED BY <2>1, <2>3, <2>9, <2>10, <2>11, <2>12
<1>14. P[p] \in Nat
  BY <1>6, <1>8
<1> QED
  <2> HIDE DEF P, p, b2
  <2> QED BY <1>2, <1>12, <1>13, <1>14 DEF b2

(***************************************************************************)
(* DataBlocks end where what is held ends.                                      *)
(***************************************************************************)
LEMMA EndsAreHeld ==
  ASSUME NEW b, NEW c \in Nat, Ordered(b, c), NEW m \in Nat, HeldBy(b, c) \subseteq 0..(m - 1)
  PROVE  c <= m /\ \A i \in 1..Len(b) : End(b[i]) <= m
<1>1. c <= m
  <2>1. CASE c = 0
    BY <2>1
  <2>2. CASE c # 0
    <3>1. c - 1 \in Nat /\ c - 1 < c
      BY <2>2
    <3>2. c - 1 \in HeldBy(b, c)
      BY <3>1, HeldMeans
    <3> QED BY <3>1, <3>2
  <2> QED BY <2>1, <2>2
<1>2. ASSUME NEW i \in 1..Len(b) PROVE End(b[i]) <= m
  <2>1. b[i].offset \in Nat /\ End(b[i]) \in Nat /\ b[i].offset < End(b[i])
    BY OrderedBlocks
  <2> DEFINE e == End(b[i])
             o == b[i].offset
  <2>2. e \in Nat /\ o \in Nat /\ o < e
    BY <2>1
  <2>3. e - 1 \in HeldBy(b, c)
    <3>1. e - 1 \in Nat /\ o <= e - 1 /\ e - 1 < e
      <4> HIDE DEF e, o
      <4> QED BY <2>2
    <3> QED BY <3>1, HeldMeans
  <2> HIDE DEF e
  <2>4. e <= m
    BY <2>2, <2>3
  <2> QED BY <2>4 DEF e
<1> QED BY <1>1, <1>2

(***************************************************************************)
(* What stream_data_callback hands over is what was contiguous: the server  *)
(* holds the same bytes after it, and its first block lies strictly above   *)
(* what was delivered.                                                     *)
(***************************************************************************)
LEMMA Delivery ==
  ASSUME NEW b, NEW c \in Nat, Ordered(b, c)
  PROVE  LET m == Contiguous(b, c)
             b2 == SubSeq(b, m + 1, Len(b))
             c2 == ConsumedAfter(b, c, m)
         IN /\ c2 \in Nat /\ c <= c2
            /\ Ordered(b2, c2)
            /\ HeldBy(b2, c2) = HeldBy(b, c)
            /\ Len(b2) > 0 => b2[1].offset > c2
<1> DEFINE n == Len(b)
           m == Contiguous(b, c)
           b2 == SubSeq(b, m + 1, n)
           C(i) == ConsumedAfter(b, c, i)
           W == {i \in 0..Len(b) : i = Len(b) \/ b[i + 1].offset > ConsumedAfter(b, c, i)}
<1>1. b \in Seq(DataBlocks) /\ n \in Nat
  BY DEF Ordered
<1>2. /\ \A i \in 1..n : /\ b[i].offset \in Nat /\ End(b[i]) \in Nat
                         /\ b[i].offset < End(b[i]) /\ c <= b[i].offset
      /\ \A i, j \in 1..n : i < j => End(b[i]) <= b[j].offset
  BY OrderedBlocks
<1>3. n \in Nat
  BY <1>1
<1>4. m \in W /\ \A k \in W : m <= k
  <2>1. W \in SUBSET Nat
    OBVIOUS
  <2>2. n \in W
    BY <1>3
  <2> QED BY Zenon, <2>1, <2>2, MinOfPositions DEF Contiguous
<1>5. m \in 0..n /\ (m = n \/ b[m + 1].offset > C(m))
  BY <1>4
<1>6. C(0) = c /\ \A i \in 1..n : C(i) = End(b[i])
  BY <1>3 DEF ConsumedAfter
<1> HIDE DEF C, n, m
<1>7. \A i \in 0..n : i < m => i + 1 \in 1..n /\ b[i + 1].offset <= C(i)
  <2> TAKE i \in 0..n
  <2> HAVE i < m
  <2>1. i + 1 \in 1..n
    BY <1>3, <1>5
  <2>2. i \notin W
    BY <1>4, <1>5
  <2>3. ~ (i = n) /\ ~ (b[i + 1].offset > C(i))
    BY <2>2 DEF C, n
  <2>4. C(i) \in Nat
    <3>1. CASE i = 0
      BY <3>1, <1>6
    <3>2. CASE i # 0
      <4>1. i \in 1..n
        BY <3>2
      <4> QED BY <4>1, <1>2, <1>6
    <3> QED BY <3>1, <3>2
  <2>5. b[i + 1].offset \in Nat
    BY <2>1, <1>2
  <2> QED BY <2>1, <2>3, <2>4, <2>5
<1> HIDE DEF W
<1>8. C(m) \in Nat /\ c <= C(m)
  <2>1. CASE m = 0
    BY <2>1, <1>6
  <2>2. CASE m # 0
    <3>1. m \in 1..n
      BY <2>2, <1>5
    <3>2. C(m) \in Nat /\ b[m].offset \in Nat /\ b[m].offset < C(m) /\ c <= b[m].offset
      BY <3>1, <1>2, <1>6
    <3> QED BY <3>2
  <2> QED BY <2>1, <2>2
<1>9. /\ b2 \in Seq(DataBlocks) /\ Len(b2) = n - m
      /\ \A i \in 1..(n - m) : m + i \in 1..n /\ b2[i] = b[m + i]
  <2>1. m + 1 \in 1..(n + 1) /\ m \in Nat
    BY <1>3, <1>5
  <2>2. \A i \in (m + 1)..n : b[i] \in DataBlocks
    <3>1. \A i \in 1..n : b[i] \in DataBlocks
      BY <1>1 DEF n
    <3>2. \A i \in (m + 1)..n : i \in 1..n
      BY <2>1, <1>3
    <3> QED BY <3>1, <3>2
  <2>3. /\ Len(b2) = IF m + 1 <= n THEN n - (m + 1) + 1 ELSE 0
        /\ \A i \in 1..(n - (m + 1) + 1) : b2[i] = b[(m + 1) + i - 1]
    BY <2>1, <1>3, CutSeq DEF n
  <2>4. b2 \in Seq(DataBlocks)
    BY <1>1, <1>3, <2>1, CutSeq DEF n
  <2>5. Len(b2) = n - m
    BY <2>1, <2>3, <1>3, <1>5
  <2>6. ASSUME NEW i \in 1..(n - m) PROVE m + i \in 1..n /\ b2[i] = b[m + i]
    <3>1. i \in 1..(n - (m + 1) + 1) /\ (m + 1) + i - 1 = m + i /\ m + i \in 1..n
      BY <2>1, <1>3
    <3> QED BY Zenon, <3>1, <2>3
  <2> QED BY <2>4, <2>5, <2>6

<1>10. n - m > 0 => b2[1].offset > C(m)
  <2> HAVE n - m > 0
  <2>1. m # n /\ 1 \in 1..(n - m)
    BY <1>3, <1>5
  <2> QED BY <2>1, <1>5, <1>9
<1>11. Ordered(b2, C(m))
  <2> SUFFICES ASSUME NEW i \in 1..(n - m)
               PROVE  b2[i].offset >= IF i = 1 THEN C(m) ELSE End(b2[i - 1])
    BY <1>9 DEF Ordered
  <2>1. b2[i] = b[m + i] /\ m + i \in 1..n
    BY <1>9
  <2>2. b2[i].offset \in Nat
    BY Zenon, <2>1, <1>2
  <2>3. CASE i = 1
    <3>1. n - m > 0
      BY <1>3, <1>5
    <3>2. b2[1].offset > C(m) /\ b2[1].offset \in Nat
      BY Zenon, <2>2, <2>3, <3>1, <1>10
    <3>3. b2[1].offset >= C(m)
      <4> DEFINE o == b2[1].offset
      <4> HIDE DEF o
      <4>1. o > C(m) /\ o \in Nat
        BY Zenon, <3>2 DEF o
      <4>2. o >= C(m)
        BY <4>1, <1>8
      <4> QED BY Zenon, <4>2 DEF o
    <3> QED BY Zenon, <2>3, <3>3
  <2>4. CASE i # 1
    <3>1. i - 1 \in 1..(n - m) /\ m + (i - 1) < m + i
      BY <2>4, <1>3, <1>5
    <3>2. b2[i - 1] = b[m + (i - 1)] /\ m + (i - 1) \in 1..n
      BY <3>1, <1>9
    <3>3. End(b[m + (i - 1)]) <= b[m + i].offset
      BY <2>1, <3>1, <3>2, <1>2
    <3>4. End(b2[i - 1]) \in Nat
      BY Zenon, <3>2, <1>2
    <3> QED BY Zenon, <2>1, <2>2, <2>4, <3>2, <3>3, <3>4
  <2> QED BY Zenon, <2>3, <2>4
<1>12. \A y \in Nat : y < C(m) => y \in HeldBy(b, c)
  <2> DEFINE Bad == {i \in 0..n : i <= m /\ \E y \in Nat : y < C(i) /\ y \notin HeldBy(b, c)}
  <2>1. ASSUME Bad # {} PROVE FALSE
    <3>1. Bad \in SUBSET Nat
      OBVIOUS
    <3>2. PICK i \in Bad : \A k \in Bad : i <= k
      BY Zenon, <2>1, <3>1, MinOfPositions
    <3>3. i \in 0..n /\ i <= m
      OBVIOUS
    <3>4. PICK y \in Nat : y < C(i) /\ y \notin HeldBy(b, c)
      BY <3>2
    <3>5. ~ (y < c) /\ \A k \in 1..n : ~ (b[k].offset <= y /\ y < End(b[k]))
      BY <3>4, HeldMeans DEF n
    <3>6. i # 0
      BY <3>4, <3>5, <1>6
    <3>7. i - 1 \in 0..n /\ i \in 1..n /\ i - 1 < m /\ i - 1 <= m /\ (i - 1) + 1 = i
      BY <3>3, <3>6, <1>3, <1>5
    <3>8. i - 1 \notin Bad
      BY <3>2, <3>7
    <3>9. ~ (y < C(i - 1))
      BY <3>4, <3>7, <3>8
    <3>10. b[i].offset <= C(i - 1)
      BY <3>7, <1>7
    <3>11. C(i - 1) \in Nat
      <4>1. CASE i - 1 = 0
        BY <4>1, <1>6
      <4>2. CASE i - 1 # 0
        <5>1. i - 1 \in 1..n
          BY <4>2, <3>7
        <5> QED BY <5>1, <1>2, <1>6
      <4> QED BY <4>1, <4>2
    <3>12. b[i].offset <= y /\ y < End(b[i])
      BY <3>4, <3>7, <3>9, <3>10, <3>11, <1>2, <1>6
    <3> QED BY <3>5, <3>7, <3>12
  <2>2. m \notin Bad
    BY <2>1
  <2> QED BY <2>2, <1>3, <1>5
<1>13. \A y \in Nat : y \in HeldBy(b2, C(m)) <=> y \in HeldBy(b, c)
  <2> TAKE y \in Nat
  <2>1. y \in HeldBy(b2, C(m)) <=> y < C(m) \/ \E i \in 1..(n - m) : b2[i].offset <= y /\ y < End(b2[i])
    BY Zenon, <1>8, <1>9, <1>11, HeldMeans
  <2>2. y \in HeldBy(b, c) <=> y < c \/ \E i \in 1..n : b[i].offset <= y /\ y < End(b[i])
    BY HeldMeans DEF n
  <2>3. ASSUME NEW i \in 1..(n - m), b2[i].offset <= y, y < End(b2[i])
        PROVE  y \in HeldBy(b, c)
    BY <2>2, <2>3, <1>9
  <2>4. ASSUME NEW i \in 1..n, b[i].offset <= y, y < End(b[i])
        PROVE  y < C(m) \/ \E j \in 1..(n - m) : b2[j].offset <= y /\ y < End(b2[j])
    <3>1. CASE i <= m
      <4>1. m \in 1..n /\ C(m) = End(b[m])
        BY <3>1, <1>3, <1>5, <1>6
      <4>2. CASE i = m
        BY <4>1, <4>2, <2>4
      <4>3. CASE i # m
        <5>1. End(b[i]) <= b[m].offset /\ b[m].offset < End(b[m]) /\ End(b[i]) \in Nat
              /\ b[m].offset \in Nat /\ End(b[m]) \in Nat
          BY <3>1, <4>1, <4>3, <1>2
        <5> QED BY <2>4, <4>1, <5>1
      <4> QED BY Zenon, <4>2, <4>3
    <3>2. CASE i > m
      <4>1. i - m \in 1..(n - m) /\ m + (i - m) = i
        BY <3>2, <1>3, <1>5
      <4>2. b2[i - m] = b[i]
        BY <4>1, <1>9
      <4> QED BY Zenon, <2>4, <4>1, <4>2
    <3>3. i <= m \/ i > m
      BY <1>3, <1>5
    <3> QED BY Zenon, <3>1, <3>2, <3>3
  <2>5. y < c => y < C(m)
    BY <1>8
  <2> QED BY Zenon, <2>1, <2>2, <2>3, <2>4, <2>5, <1>12
<1>14. HeldBy(b2, C(m)) = HeldBy(b, c)
  <2>1. HeldBy(b2, C(m)) \subseteq Nat /\ HeldBy(b, c) \subseteq Nat
    BY <1>8, <1>11, HeldAreNaturals
  <2> QED BY <1>13, <2>1
<1> QED BY <1>8, <1>9, <1>10, <1>11, <1>14 DEF C, m, n

=============================================================================
