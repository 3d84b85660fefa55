--------------------------- MODULE TrackerLemmas ---------------------------
(***************************************************************************)
(* What the receiver's two records of the symbols it has do with one more.  *)
(* Adding a symbol to the interval list keeps it canonical and adds exactly *)
(* that symbol, and the highest contiguous id is the end of the first run   *)
(* of held ids.  Adding a symbol to the ring keeps the ring exact.          *)
(***************************************************************************)
EXTENDS ReceivedSymbols, CommonLemmas

\* The time the provers are given for a step.
USE SMTT(20), ZenonT(30)

(***************************************************************************)
(* What an empty list is, and what extending one gives.                    *)
(***************************************************************************)
LEMMA EmptyList ==
  ASSUME NEW S
  PROVE  /\ <<>> \in Seq(S) /\ Len(<<>>) = 0
         /\ \A seq \in Seq(S) : seq # <<>> => Len(seq) \in Nat \ {0}
OBVIOUS

LEMMA AppendedSeq ==
  ASSUME NEW S, NEW seq \in Seq(S), NEW elt \in S
  PROVE  /\ Append(seq, elt) \in Seq(S)
         /\ Append(seq, elt) # <<>>
         /\ Len(Append(seq, elt)) = Len(seq) + 1
         /\ \A i \in 1..Len(seq) : Append(seq, elt)[i] = seq[i]
         /\ Append(seq, elt)[Len(seq) + 1] = elt
OBVIOUS

(***************************************************************************)
(* What removing an element from a list leaves (remove_node).              *)
(***************************************************************************)
LEMMA RemovedPositions ==
  ASSUME NEW S, NEW t \in Seq(S), NEW i \in 1..Len(t)
  PROVE  /\ Removed(t, i) \in Seq(S)
         /\ Len(Removed(t, i)) = Len(t) - 1
         /\ \A j \in 1..Len(t) - 1 :
              Removed(t, i)[j] = IF j < i THEN t[j] ELSE t[j + 1]
<1> DEFINE a == SubSeq(t, 1, i - 1)
           b == SubSeq(t, i + 1, Len(t))
           c == a \o b
<1>. Len(t) \in Nat
  BY LengthOfSeq
<1>1. /\ a \in Seq(S) /\ Len(a) = i - 1
      /\ \A j \in 1..i - 1 : a[j] = t[j]
  BY CutSeq, NthOfSeq
<1>2. /\ b \in Seq(S) /\ Len(b) = Len(t) - i
      /\ \A j \in 1..Len(t) - i : b[j] = t[i + j]
  BY CutSeq, NthOfSeq
<1> HIDE DEF a, b
<1>3. /\ c \in Seq(S) /\ Len(c) = Len(t) - 1
      /\ \A j \in 1..Len(t) - 1 : c[j] = IF j <= i - 1 THEN a[j] ELSE b[j - (i - 1)]
  <2>1. /\ c \in Seq(S) /\ Len(c) = Len(a) + Len(b)
        /\ \A j \in 1..Len(a) + Len(b) : c[j] = IF j <= Len(a) THEN a[j] ELSE b[j - Len(a)]
    BY Zenon, <1>1, <1>2, JoinedSeqs
  <2>2. Len(a) = i - 1 /\ Len(a) + Len(b) = Len(t) - 1
    BY <1>1, <1>2
  <2> HIDE DEF c
  <2> QED BY <2>1, <2>2
<1>4. Removed(t, i) = c
  BY DEF Removed, c, a, b
<1> HIDE DEF c
<1>5. \A j \in 1..Len(t) - 1 : c[j] = IF j < i THEN t[j] ELSE t[j + 1]
  <2> TAKE j \in 1..Len(t) - 1
  <2>1. CASE j < i
    BY <2>1, <1>1, <1>3
  <2>2. CASE j >= i
    <3>1. j - (i - 1) \in 1..Len(t) - i
      BY <2>2
    <3>2. c[j] = b[j - (i - 1)]
      BY <2>2, <1>3
    <3> QED BY <2>2, <3>1, <3>2, <1>2
  <2> QED BY <2>1, <2>2
<1> QED BY <1>3, <1>4, <1>5

-----------------------------------------------------------------------------
Nodes == [start : Nat, end : Nat]

LEMMA NodesAreNodes ==
  ASSUME NEW t \in Seq(Nodes)
  PROVE  /\ Len(t) \in Nat
         /\ \A i \in 1..Len(t) : t[i].start \in Nat /\ t[i].end \in Nat
<1>1. \A i \in 1..Len(t) : t[i] \in Nodes
  BY NthOfSeq
<1>2. \A n \in Nodes : n.start \in Nat /\ n.end \in Nat
  BY DEF Nodes
<1> QED BY <1>1, <1>2, LengthOfSeq

(***************************************************************************)
(* The ids a list of nodes holds.                                          *)
(***************************************************************************)
Holds(t, x) == \E i \in 1..Len(t) : t[i].start <= x /\ x < t[i].end

LEMMA HeldMeansHolds ==
  ASSUME NEW t \in Seq(Nodes)
  PROVE  \A x : x \in Held(t) <=> x \in Nat /\ Holds(t, x)
<1>1. \A i \in 1..Len(t) : t[i].start \in Nat /\ t[i].end \in Nat
  BY NodesAreNodes
<1>2. \A i \in 1..Len(t) : \A x : x \in t[i].start .. (t[i].end - 1) <=>
        x \in Nat /\ t[i].start <= x /\ x < t[i].end
  BY <1>1
<1> QED BY <1>2 DEF Held, Holds

(***************************************************************************)
(* The walk that stops nowhere appends a node: r lies beyond the last one.  *)
(***************************************************************************)
LEMMA AppendKeepsList ==
  ASSUME NEW t \in Seq(Nodes), Canonical(t), NEW r \in Nat,
         \A i \in 1..Len(t) : ~ StopsAt(t[i], r)
  PROVE  LET u == Append(t, Node(r, r + 1))
         IN  /\ u \in Seq(Nodes) /\ Canonical(u)
             /\ \A x \in Nat : Holds(u, x) <=> Holds(t, x) \/ x = r
<1> DEFINE u == Append(t, Node(r, r + 1))
<1>1. Node(r, r + 1) \in Nodes /\ Node(r, r + 1).start = r /\ Node(r, r + 1).end = r + 1
  BY DEF Nodes, Node
<1>2. /\ u \in Seq(Nodes) /\ Len(u) = Len(t) + 1
      /\ \A i \in 1..Len(t) : u[i] = t[i]
      /\ u[Len(t) + 1] = Node(r, r + 1)
  BY <1>1, AppendedSeq
<1>3. Len(t) \in Nat /\ Len(t) >= 1
  BY LengthOfSeq, EmptyList DEF Canonical
<1>4. \A i \in 1..Len(t) : t[i].start \in Nat /\ t[i].end \in Nat
  BY NodesAreNodes
<1> HIDE DEF u
<1>5. Canonical(u)
  <2>1. u # <<>> /\ u[1].start = 0
    BY <1>2, <1>3, EmptyList DEF Canonical
  <2>2. \A i \in 1..Len(u) : u[i].start < u[i].end
    BY <1>1, <1>2, <1>3, <1>4 DEF Canonical
  <2>3. \A i, j \in 1..Len(u) : i < j => u[i].end < u[j].start
    BY <1>1, <1>2, <1>3, <1>4 DEF Canonical, StopsAt
  <2> QED BY <2>1, <2>2, <2>3 DEF Canonical
<1>6. \A x \in Nat : Holds(u, x) <=> Holds(t, x) \/ x = r
  <2> TAKE x \in Nat
  <2>1. ASSUME Holds(u, x) PROVE Holds(t, x) \/ x = r
    <3>1. PICK i \in 1..Len(u) : u[i].start <= x /\ x < u[i].end
      BY <2>1 DEF Holds
    <3>2. CASE i = Len(t) + 1
      BY <3>1, <3>2, <1>1, <1>2
    <3>3. CASE i \in 1..Len(t)
      BY <3>1, <3>3, <1>2 DEF Holds
    <3> QED BY <3>2, <3>3, <1>2, <1>3
  <2>2. ASSUME Holds(t, x) PROVE Holds(u, x)
    BY <2>2, <1>2, <1>3 DEF Holds
  <2>3. ASSUME x = r PROVE Holds(u, x)
    <3>1. Len(t) + 1 \in 1..Len(u)
      BY <1>2, <1>3
    <3> QED BY <3>1, <2>3, <1>1, <1>2 DEF Holds
  <2> QED BY <2>1, <2>2, <2>3
<1> QED BY <1>2, <1>5, <1>6 DEF u

(***************************************************************************)
(* The walk that stops at node i: the four outcomes of                      *)
(* tracker_receive_source_symbol keep the list canonical and add r to what  *)
(* it holds, no more and no less.  The merge with the previous node is      *)
(* never taken: the walk would have stopped at that node.                  *)
(***************************************************************************)
LEMMA ReceiveAtKeepsList ==
  ASSUME NEW t \in Seq(Nodes), Canonical(t), NEW r \in Nat,
         NEW i \in 1..Len(t), StopsAt(t[i], r),
         \A j \in 1..Len(t) : StopsAt(t[j], r) => i <= j
  PROVE  LET u == ReceiveAt(t, i, r)
         IN  /\ u \in Seq(Nodes) /\ Canonical(u)
             /\ \A x \in Nat : Holds(u, x) <=> Holds(t, x) \/ x = r
<1> DEFINE u == ReceiveAt(t, i, r)
<1>1. /\ Len(t) \in Nat /\ i \in Nat
      /\ \A j \in 1..Len(t) : t[j].start \in Nat /\ t[j].end \in Nat
  BY NodesAreNodes
<1>2. \A j \in 1..Len(t) : j < i => t[j].end < r
  BY <1>1 DEF StopsAt
<1>3. r <= t[i].end
  BY <1>1 DEF StopsAt, Canonical
<1>4. CASE r = t[i].start - 1
  <2>1. i > 1
    BY <1>1, <1>4 DEF Canonical
  <2>2. ~ (i > 1 /\ t[i - 1].end = r)
    BY <1>1, <1>2, <2>1
  <2>3. u = [t EXCEPT ![i] = Node(r, t[i].end)]
    BY <1>4, <2>2 DEF ReceiveAt, GrowLeft
  <2> HIDE DEF u
  <2>4. /\ u \in Seq(Nodes) /\ Len(u) = Len(t)
        /\ \A j \in 1..Len(t) :
             /\ u[j].start = (IF j = i THEN r ELSE t[j].start)
             /\ u[j].end = (IF j = i THEN t[i].end ELSE t[j].end)
    <3>1. t[i].end \in Nat
      BY <1>1
    <3>2. /\ u \in Seq(Nodes) /\ Len(u) = Len(t)
          /\ \A j \in 1..Len(t) : /\ j = i => u[j].start = r /\ u[j].end = t[i].end
                                  /\ j # i => u[j] = t[j]
      BY <3>1, <2>3 DEF Nodes, Node
    <3> QED BY <3>2
  <2>5. \A j \in 1..Len(t) :
          /\ u[j].start = (IF j = i THEN r ELSE t[j].start)
          /\ u[j].end = t[j].end
    BY <2>4
  <2>6. Canonical(u)
    <3>1. u # <<>> /\ u[1].start = 0
      BY <1>1, <2>1, <2>4, <2>5, EmptyList DEF Canonical
    <3>2. \A j \in 1..Len(u) : u[j].start < u[j].end
      BY <1>1, <1>4, <2>4, <2>5 DEF Canonical
    <3>3. \A j, k \in 1..Len(u) : j < k => u[j].end < u[k].start
      BY <1>1, <1>2, <1>4, <2>4, <2>5 DEF Canonical
    <3> QED BY <3>1, <3>2, <3>3 DEF Canonical
  <2>7. \A x \in Nat : Holds(u, x) <=> Holds(t, x) \/ x = r
    <3> TAKE x \in Nat
    <3>1. ASSUME Holds(u, x) PROVE Holds(t, x) \/ x = r
      <4>1. PICK j \in 1..Len(t) : u[j].start <= x /\ x < u[j].end
        BY <3>1, <2>4 DEF Holds
      <4> QED BY <4>1, <1>1, <1>4, <2>5 DEF Holds
    <3>2. ASSUME Holds(t, x) PROVE Holds(u, x)
      <4>1. PICK j \in 1..Len(t) : t[j].start <= x /\ x < t[j].end
        BY <3>2 DEF Holds
      <4>2. u[j].start <= x /\ x < u[j].end
        BY <4>1, <1>1, <1>4, <2>5
      <4> QED BY <4>2, <2>4 DEF Holds
    <3>3. ASSUME x = r PROVE Holds(u, x)
      <4>1. u[i].start <= x /\ x < u[i].end
        BY <3>3, <1>1, <1>4, <2>5 DEF Canonical
      <4> QED BY <4>1, <2>4 DEF Holds
    <3> QED BY <3>1, <3>2, <3>3
  <2> QED BY <2>4, <2>6, <2>7 DEF u
<1>5. CASE r = t[i].end /\ i < Len(t) /\ t[i + 1].start = r + 1
  <2> DEFINE g == [t EXCEPT ![i] = Node(t[i].start, t[i + 1].end)]
  <2>1. r # t[i].start - 1 /\ i + 1 \in 1..Len(t)
    BY <1>1, <1>5 DEF Canonical
  <2>2. u = Removed(g, i + 1)
    BY <1>5, <2>1 DEF ReceiveAt, GrowRight
  <2> HIDE DEF u
  <2>3. /\ g \in Seq(Nodes) /\ Len(g) = Len(t)
        /\ \A j \in 1..Len(t) :
             /\ g[j].start = (IF j = i THEN t[i].start ELSE t[j].start)
             /\ g[j].end = (IF j = i THEN t[i + 1].end ELSE t[j].end)
    <3>0. g = [t EXCEPT ![i] = Node(t[i].start, t[i + 1].end)]
      OBVIOUS
    <3> HIDE DEF g
    <3>1. t[i].start \in Nat /\ t[i + 1].end \in Nat
      BY <1>1, <2>1
    <3>2. /\ g \in Seq(Nodes) /\ Len(g) = Len(t)
          /\ \A j \in 1..Len(t) : /\ j = i => g[j].start = t[i].start /\ g[j].end = t[i + 1].end
                                  /\ j # i => g[j] = t[j]
      BY <3>0, <3>1 DEF Nodes, Node
    <3> QED BY <3>2
  <2> HIDE DEF g
  <2>4. /\ u \in Seq(Nodes) /\ Len(u) = Len(t) - 1
        /\ \A j \in 1..Len(u) : u[j] = IF j < i + 1 THEN g[j] ELSE g[j + 1]
    <3>1. i + 1 \in 1..Len(g)
      BY <2>1, <2>3
    <3>2. /\ Removed(g, i + 1) \in Seq(Nodes) /\ Len(Removed(g, i + 1)) = Len(g) - 1
          /\ \A j \in 1..Len(g) - 1 :
               Removed(g, i + 1)[j] = IF j < i + 1 THEN g[j] ELSE g[j + 1]
      BY <2>3, <3>1, RemovedPositions, Zenon
    <3> QED BY <2>2, <2>3, <3>2, Zenon
  <2>5. \A j \in 1..Len(u) : j \in 1..Len(t) /\ j + 1 \in 1..Len(t) /\ j \in Nat
    BY <1>1, <2>4
  <2>6. \A j \in 1..Len(u) : j < i => u[j].start = t[j].start /\ u[j].end = t[j].end
    <3> SUFFICES ASSUME NEW j \in 1..Len(u), j < i
                 PROVE  u[j].start = t[j].start /\ u[j].end = t[j].end
      OBVIOUS
    <3>1. u[j] = g[j]
      BY <1>1, <2>4, <2>5
    <3> QED BY <3>1, <1>1, <2>3, <2>5
  <2>7. i \in 1..Len(u) /\ u[i].start = t[i].start /\ u[i].end = t[i + 1].end
    <3>1. i \in 1..Len(u)
      BY <1>1, <1>5, <2>4
    <3>2. u[i] = g[i]
      BY <3>1, <1>1, <2>4
    <3> QED BY <3>1, <3>2, <2>3
  <2>8. \A j \in 1..Len(u) : j > i => u[j].start = t[j + 1].start /\ u[j].end = t[j + 1].end
    <3> SUFFICES ASSUME NEW j \in 1..Len(u), j > i
                 PROVE  u[j].start = t[j + 1].start /\ u[j].end = t[j + 1].end
      OBVIOUS
    <3>1. u[j] = g[j + 1]
      BY <1>1, <2>4, <2>5
    <3>2. j + 1 \in 1..Len(t) /\ j + 1 # i
      BY <1>1, <2>5
    <3> QED BY <3>1, <3>2, <2>3
  <2>9. Canonical(u)
    <3>1. u # <<>> /\ u[1].start = 0
      <4>1. 1 \in 1..Len(u) /\ u # <<>>
        BY <2>4, <2>7, EmptyList
      <4> QED BY <1>1, <2>6, <2>7, <4>1 DEF Canonical
    <3>2. \A j \in 1..Len(u) : u[j].start < u[j].end
      <4> TAKE j \in 1..Len(u)
      <4>1. t[j].start < t[j].end /\ t[j + 1].start < t[j + 1].end /\ t[j].end < t[j + 1].start
        BY <1>1, <2>5 DEF Canonical
      <4>2. CASE j < i
        BY <4>1, <4>2, <2>6
      <4>3. CASE j = i
        BY <4>1, <4>3, <2>1, <2>7, <1>1
      <4>4. CASE j > i
        BY <4>1, <4>4, <2>8
      <4> QED BY <4>2, <4>3, <4>4, <1>1, <2>5
    <3>3. \A j, k \in 1..Len(u) : j < k => u[j].end < u[k].start
      <4> SUFFICES ASSUME NEW j \in 1..Len(u), NEW k \in 1..Len(u), j < k
                   PROVE  u[j].end < u[k].start
        OBVIOUS
      <4>1. /\ t[j].end < t[k].start /\ t[j].end < t[k + 1].start
            /\ t[j + 1].end < t[k + 1].start
        BY <1>1, <2>5 DEF Canonical
      <4>2. CASE k < i
        BY <4>1, <4>2, <1>1, <2>5, <2>6
      <4>3. CASE k = i
        BY <4>1, <4>3, <2>6, <2>7
      <4>4. CASE k > i /\ j < i
        BY <4>1, <4>4, <2>6, <2>8
      <4>5. CASE k > i /\ j = i
        BY <4>1, <4>5, <2>7, <2>8
      <4>6. CASE k > i /\ j > i
        BY <4>1, <4>6, <2>8
      <4> QED BY <4>2, <4>3, <4>4, <4>5, <4>6, <1>1, <2>5
    <3> QED BY <3>1, <3>2, <3>3 DEF Canonical
  <2>10. \A x \in Nat : Holds(u, x) <=> Holds(t, x) \/ x = r
    <3> TAKE x \in Nat
    <3>0. /\ t[i].start < t[i].end /\ t[i + 1].start < t[i + 1].end
          /\ t[i].end = r /\ t[i + 1].start = r + 1
      BY <1>1, <1>5, <2>1 DEF Canonical
    <3>1. ASSUME Holds(u, x) PROVE Holds(t, x) \/ x = r
      <4>1. PICK j \in 1..Len(u) : u[j].start <= x /\ x < u[j].end
        BY <3>1 DEF Holds
      <4>2. CASE j < i
        BY <4>1, <4>2, <2>5, <2>6 DEF Holds
      <4>3. CASE j = i
        <5>1. \/ t[i].start <= x /\ x < t[i].end
              \/ x = r
              \/ t[i + 1].start <= x /\ x < t[i + 1].end
          BY <4>1, <4>3, <3>0, <2>1, <2>7, <1>1
        <5> QED BY <5>1, <2>1 DEF Holds
      <4>4. CASE j > i
        BY Zenon, <4>1, <4>4, <2>5, <2>8 DEF Holds
      <4> QED BY <4>2, <4>3, <4>4, <2>5, <1>1
    <3>2. ASSUME Holds(t, x) PROVE Holds(u, x)
      <4>1. PICK j \in 1..Len(t) : t[j].start <= x /\ x < t[j].end
        BY <3>2 DEF Holds
      <4>2. CASE j < i
        <5>1. j \in 1..Len(u)
          BY <4>2, <1>1, <2>7, <2>4
        <5> QED BY <4>1, <4>2, <5>1, <2>6 DEF Holds
      <4>3. CASE j = i \/ j = i + 1
        <5>1. u[i].start <= x /\ x < u[i].end
          BY <4>1, <4>3, <3>0, <2>1, <2>7, <1>1
        <5> QED BY <5>1, <2>7 DEF Holds
      <4>4. CASE j > i + 1
        <5>1. j - 1 \in 1..Len(u) /\ j - 1 > i /\ (j - 1) + 1 = j
          BY <4>4, <1>1, <2>4
        <5>2. u[j - 1].start = t[j].start /\ u[j - 1].end = t[j].end
          BY <5>1, <2>8
        <5> QED BY <5>1, <5>2, <4>1 DEF Holds
      <4> QED BY <4>2, <4>3, <4>4, <1>1
    <3>3. ASSUME x = r PROVE Holds(u, x)
      <4>1. u[i].start <= x /\ x < u[i].end
        BY <3>3, <3>0, <2>1, <2>7, <1>1
      <4> QED BY <4>1, <2>7 DEF Holds
    <3> QED BY <3>1, <3>2, <3>3
  <2> QED BY <2>4, <2>9, <2>10 DEF u
<1>6. CASE r = t[i].end /\ ~ (i < Len(t) /\ t[i + 1].start = r + 1)
  <2>1. r # t[i].start - 1
    BY <1>1, <1>6 DEF Canonical
  <2>2. u = [t EXCEPT ![i] = Node(t[i].start, r + 1)]
    BY <1>6, <2>1 DEF ReceiveAt, GrowRight
  <2> HIDE DEF u
  <2>3. t[i].start \in Nat /\ t[i].start < r
    BY <1>1, <1>6 DEF Canonical
  <2>4. /\ u \in Seq(Nodes) /\ Len(u) = Len(t)
        /\ \A j \in 1..Len(t) : /\ j = i => u[j].start = t[i].start /\ u[j].end = r + 1
                                /\ j # i => u[j] = t[j]
    BY <2>2, <2>3 DEF Nodes, Node
  <2>5. \A k \in 1..Len(t) : k > i => r + 1 < t[k].start
    <3> SUFFICES ASSUME NEW k \in 1..Len(t), k > i
                 PROVE  r + 1 < t[k].start
      OBVIOUS
    <3>1. r < t[k].start
      BY <1>1, <1>6 DEF Canonical
    <3>2. CASE k = i + 1
      BY <1>1, <1>6, <3>1, <3>2
    <3>3. CASE k > i + 1
      <4>1. i + 1 \in 1..Len(t)
        BY <1>1, <3>3
      <4>2. r < t[i + 1].start /\ t[i + 1].start < t[i + 1].end /\ t[i + 1].end < t[k].start
        BY <1>1, <1>6, <3>3, <4>1 DEF Canonical
      <4> QED BY <1>1, <4>1, <4>2
    <3> QED BY <1>1, <3>2, <3>3
  <2>6. Canonical(u)
    <3>1. u # <<>> /\ u[1].start = 0
      BY <1>1, <2>4, EmptyList DEF Canonical
    <3>2. \A j \in 1..Len(u) : u[j].start < u[j].end
      BY <1>1, <2>3, <2>4 DEF Canonical
    <3>3. \A j, k \in 1..Len(u) : j < k => u[j].end < u[k].start
      BY <1>1, <2>4, <2>5 DEF Canonical
    <3> QED BY <3>1, <3>2, <3>3 DEF Canonical
  <2>7. \A x \in Nat : Holds(u, x) <=> Holds(t, x) \/ x = r
    <3> TAKE x \in Nat
    <3>1. ASSUME Holds(u, x) PROVE Holds(t, x) \/ x = r
      <4>1. PICK j \in 1..Len(t) : u[j].start <= x /\ x < u[j].end
        BY <3>1, <2>4 DEF Holds
      <4>2. (t[j].start <= x /\ x < t[j].end) \/ x = r
        BY <4>1, <1>1, <1>6, <2>4
      <4> QED BY <4>2 DEF Holds
    <3>2. ASSUME Holds(t, x) PROVE Holds(u, x)
      <4>1. PICK j \in 1..Len(t) : t[j].start <= x /\ x < t[j].end
        BY <3>2 DEF Holds
      <4>2. u[j].start <= x /\ x < u[j].end
        BY <4>1, <1>1, <1>6, <2>4
      <4> QED BY <4>2, <2>4 DEF Holds
    <3>3. ASSUME x = r PROVE Holds(u, x)
      <4>1. u[i].start <= x /\ x < u[i].end
        BY <3>3, <2>3, <2>4
      <4> QED BY <4>1, <2>4 DEF Holds
    <3> QED BY <3>1, <3>2, <3>3
  <2> QED BY <2>4, <2>6, <2>7 DEF u
<1>7. CASE r < t[i].start /\ r # t[i].start - 1
  <2> DEFINE n == Node(r, r + 1)
  <2>1. r # t[i].end /\ i > 1
    BY <1>1, <1>7 DEF Canonical
  <2>2. u = Inserted(t, i, n)
    BY <1>7, <2>1 DEF ReceiveAt
  <2>3. n \in Nodes /\ n.start = r /\ n.end = r + 1
    BY DEF Nodes, Node
  <2> HIDE DEF n, u
  <2>4. /\ u \in Seq(Nodes) /\ Len(u) = Len(t) + 1
        /\ \A j \in 1..Len(t) + 1 : j < i => u[j] = t[j]
        /\ u[i] = n
        /\ \A j \in 1..Len(t) + 1 : j > i => u[j] = t[j - 1]
    <3>1. /\ Inserted(t, i, n) \in Seq(Nodes) /\ Len(Inserted(t, i, n)) = Len(t) + 1
          /\ \A j \in 1..Len(t) + 1 : j < i => Inserted(t, i, n)[j] = t[j]
          /\ Inserted(t, i, n)[i] = n
          /\ \A j \in 1..Len(t) + 1 : j > i => Inserted(t, i, n)[j] = t[j - 1]
      <4>1. n \in Nodes /\ t \in Seq(Nodes) /\ i \in 1..Len(t)
        BY <2>3
      <4> QED BY <4>1, InsertedPositions, SMTT(30)
    <3> QED BY <2>2, <3>1, Zenon
  <2>5. /\ \A j \in 1..Len(u) : j \in Nat
        /\ \A j \in 1..Len(u) : j < i => j \in 1..Len(t) /\ u[j] = t[j]
        /\ i \in 1..Len(u) /\ u[i].start = r /\ u[i].end = r + 1
        /\ \A j \in 1..Len(u) : j > i => j - 1 \in 1..Len(t) /\ u[j] = t[j - 1]
    <3>1. ASSUME NEW j \in 1..Len(u)
          PROVE  j \in Nat /\ (j < i => j \in 1..Len(t) /\ u[j] = t[j])
      <4>1. j \in 1..Len(t) + 1
        BY <2>4
      <4>2. j \in Nat /\ (j < i => j \in 1..Len(t))
        BY <1>1, <4>1
      <4> QED BY <2>4, <4>1, <4>2, Zenon
    <3>2. i \in 1..Len(u) /\ u[i] = n
      <4>1. i \in 1..Len(t) + 1
        BY <1>1
      <4> QED BY <2>4, <4>1, Zenon
    <3>3. ASSUME NEW j \in 1..Len(u), j > i
          PROVE  j - 1 \in 1..Len(t) /\ u[j] = t[j - 1]
      <4>1. j \in 1..Len(t) + 1
        BY <2>4
      <4>2. j - 1 \in 1..Len(t)
        BY <1>1, <3>3, <4>1
      <4> QED BY <2>4, <3>3, <4>1, <4>2, Zenon
    <3> QED BY <3>1, <3>2, <3>3, <2>3
  <2>6. \A k \in 1..Len(t) : k >= i => r + 1 < t[k].start
    <3> SUFFICES ASSUME NEW k \in 1..Len(t), k >= i
                 PROVE  r + 1 < t[k].start
      OBVIOUS
    <3>1. k = i \/ (t[i].start < t[i].end /\ t[i].end < t[k].start)
      BY <1>1 DEF Canonical
    <3> QED BY <1>1, <1>7, <3>1
  <2>7. Canonical(u)
    <3>1. u # <<>> /\ u[1].start = 0
      <4>1. 1 \in 1..Len(u) /\ 1 < i /\ u # <<>>
        BY <1>1, <2>1, <2>4, EmptyList
      <4> QED BY <2>5, <4>1 DEF Canonical
    <3>2. \A j \in 1..Len(u) : u[j].start < u[j].end
      <4> TAKE j \in 1..Len(u)
      <4>1. CASE j < i
        BY <4>1, <2>5 DEF Canonical
      <4>2. CASE j = i
        BY <4>2, <2>5
      <4>3. CASE j > i
        BY <4>3, <2>5 DEF Canonical
      <4> QED BY <4>1, <4>2, <4>3, <1>1, <2>5
    <3>3. \A j, k \in 1..Len(u) : j < k => u[j].end < u[k].start
      <4> SUFFICES ASSUME NEW j \in 1..Len(u), NEW k \in 1..Len(u), j < k
                   PROVE  u[j].end < u[k].start
        OBVIOUS
      <4>1. CASE k < i
        <5>1. j < i
          BY <4>1, <1>1, <2>5
        <5> QED BY Zenon, <4>1, <5>1, <2>5 DEF Canonical
      <4>2. CASE k = i
        BY <4>2, <1>2, <2>5
      <4>3. CASE k > i /\ j < i
        <5>1. t[j].end < t[k - 1].start
          <6>1. j \in 1..Len(t) /\ k - 1 \in 1..Len(t) /\ j < k - 1
            BY <4>3, <1>1, <2>5
          <6> QED BY Zenon, <6>1 DEF Canonical
        <5> QED BY <4>3, <5>1, <2>5
      <4>4. CASE k > i /\ j = i
        <5>1. r + 1 < t[k - 1].start
          <6>1. k - 1 \in 1..Len(t) /\ k - 1 >= i
            BY <4>4, <1>1, <2>5
          <6> QED BY <6>1, <2>6
        <5> QED BY <4>4, <5>1, <2>5
      <4>5. CASE k > i /\ j > i
        <5>1. t[j - 1].end < t[k - 1].start
          <6>1. j - 1 \in 1..Len(t) /\ k - 1 \in 1..Len(t) /\ j - 1 < k - 1
            BY <4>5, <1>1, <2>5
          <6> QED BY <6>1 DEF Canonical
        <5> QED BY <4>5, <5>1, <2>5
      <4> QED BY <4>1, <4>2, <4>3, <4>4, <4>5, <1>1, <2>5
    <3> QED BY <3>1, <3>2, <3>3 DEF Canonical
  <2>8. \A x \in Nat : Holds(u, x) <=> Holds(t, x) \/ x = r
    <3> TAKE x \in Nat
    <3>1. ASSUME Holds(u, x) PROVE Holds(t, x) \/ x = r
      <4>1. PICK j \in 1..Len(u) : u[j].start <= x /\ x < u[j].end
        BY <3>1 DEF Holds
      <4>2. CASE j < i
        BY <4>1, <4>2, <2>5 DEF Holds
      <4>3. CASE j = i
        BY <4>1, <4>3, <2>5
      <4>4. CASE j > i
        BY <4>1, <4>4, <2>5 DEF Holds
      <4> QED BY <4>2, <4>3, <4>4, <1>1, <2>5
    <3>2. ASSUME Holds(t, x) PROVE Holds(u, x)
      <4>1. PICK j \in 1..Len(t) : t[j].start <= x /\ x < t[j].end
        BY <3>2 DEF Holds
      <4>2. CASE j < i
        <5>1. j \in 1..Len(u)
          BY <1>1, <2>4
        <5> QED BY <4>1, <4>2, <5>1, <2>5 DEF Holds
      <4>3. CASE j >= i
        <5>1. j + 1 \in 1..Len(u) /\ j + 1 > i /\ (j + 1) - 1 = j
          BY <4>3, <1>1, <2>4
        <5>2. u[j + 1] = t[j]
          BY <5>1, <2>5
        <5> QED BY <4>1, <5>1, <5>2 DEF Holds
      <4> QED BY <4>2, <4>3, <1>1
    <3>3. ASSUME x = r PROVE Holds(u, x)
      BY <3>3, <2>5 DEF Holds
    <3> QED BY <3>1, <3>2, <3>3
  <2> QED BY <2>4, <2>7, <2>8 DEF u
<1>8. CASE r >= t[i].start /\ r < t[i].end
  <2>1. u = t
    BY <1>1, <1>8 DEF ReceiveAt
  <2>2. Holds(t, r)
    BY <1>8 DEF Holds
  <2> QED BY <2>1, <2>2
<1> QED BY <1>1, <1>3, <1>4, <1>5, <1>6, <1>7, <1>8

(***************************************************************************)
(* One call of tracker_receive_source_symbol adds the symbol, and only it,  *)
(* to the list, which stays canonical.                                     *)
(***************************************************************************)
LEMMA TrackerReceives ==
  ASSUME NEW t \in Seq(Nodes), Canonical(t), NEW r \in Nat
  PROVE  /\ tracker_receive_source_symbol(t, r) \in Seq(Nodes)
         /\ Canonical(tracker_receive_source_symbol(t, r))
         /\ Held(tracker_receive_source_symbol(t, r)) = Held(t) \cup {r}
<1> DEFINE stops == {i \in 1..Len(t) : StopsAt(t[i], r)}
           u == tracker_receive_source_symbol(t, r)
<1>1. /\ u \in Seq(Nodes) /\ Canonical(u)
      /\ \A x \in Nat : Holds(u, x) <=> Holds(t, x) \/ x = r
  <2>1. CASE stops = {}
    <3>1. u = Append(t, Node(r, r + 1))
      BY <2>1 DEF tracker_receive_source_symbol
    <3>2. \A i \in 1..Len(t) : ~ StopsAt(t[i], r)
      BY <2>1
    <3> HIDE DEF u
    <3> QED BY <3>1, <3>2, AppendKeepsList, Zenon
  <2>2. CASE stops # {}
    <3> DEFINE i == Min(stops)
    <3>1. u = ReceiveAt(t, i, r)
      BY <2>2 DEF tracker_receive_source_symbol
    <3>2. stops \in SUBSET Nat
      BY LengthOfSeq
    <3>3. i \in stops /\ \A j \in stops : i <= j
      <4> HIDE DEF stops
      <4> QED BY <2>2, <3>2, MinOfPositions
    <3> HIDE DEF i, u
    <3>4. i \in 1..Len(t) /\ StopsAt(t[i], r) /\ \A j \in 1..Len(t) : StopsAt(t[j], r) => i <= j
      BY <3>3
    <3> QED BY <3>1, <3>4, ReceiveAtKeepsList, Zenon
  <2> QED BY <2>1, <2>2
<1> HIDE DEF u
<1>2. \A x : x \in Held(u) <=> x \in Held(t) \/ x = r
  BY <1>1, HeldMeansHolds
<1> QED BY <1>1, <1>2 DEF u

(***************************************************************************)
(* A new tracker holds id 0 only.                                          *)
(***************************************************************************)
LEMMA NewTracker ==
  /\ create_received_symbols_tracker \in Seq(Nodes)
  /\ Canonical(create_received_symbols_tracker)
  /\ Held(create_received_symbols_tracker) = {0}
<1> DEFINE t == create_received_symbols_tracker
<1>1. t = <<[start |-> 0, end |-> 1]>>
  BY DEF create_received_symbols_tracker, WINDOW_INITIAL_SYMBOL_ID, Node
<1>2. t \in Seq(Nodes) /\ t # <<>> /\ Len(t) = 1 /\ t[1].start = 0 /\ t[1].end = 1
  BY <1>1 DEF Nodes
<1> HIDE DEF t
<1>3. Canonical(t)
  <2>1. 1..Len(t) = {1}
    BY <1>2
  <2> QED BY <1>2, <2>1 DEF Canonical
<1>4. \A x : x \in Held(t) <=> x = 0
  BY <1>2, HeldMeansHolds DEF Holds
<1> QED BY <1>2, <1>3, <1>4 DEF t

(***************************************************************************)
(* The id the tracker answers is the last one of the first run of held ids. *)
(***************************************************************************)
LEMMA HighestOfList ==
  ASSUME NEW t \in Seq(Nodes), Canonical(t)
  PROVE  /\ get_highest_contiguous_received_source_symbol(t) \in Nat
         /\ 0..get_highest_contiguous_received_source_symbol(t) \subseteq Held(t)
         /\ get_highest_contiguous_received_source_symbol(t) + 1 \notin Held(t)
<1> DEFINE h == t[1].end
<1>2. Len(t) \in Nat /\ 1 \in 1..Len(t) /\ \A i \in 1..Len(t) : t[i].start \in Nat /\ t[i].end \in Nat
  BY NodesAreNodes, EmptyList DEF Canonical
<1>3. h \in Nat /\ h - 1 + 1 = h /\ 0 < h
  BY <1>2 DEF Canonical
<1>4. \A x \in 0..h - 1 : x \in Held(t)
  BY <1>2, HeldMeansHolds DEF Holds, Canonical
<1>5. ~ Holds(t, h)
  <2> SUFFICES ASSUME NEW i \in 1..Len(t), t[i].start <= h, h < t[i].end
               PROVE  FALSE
    BY DEF Holds
  <2>1. CASE i = 1
    BY <2>1, <1>2
  <2>2. CASE i > 1
    <3>1. h < t[i].start
      BY <2>2, <1>2 DEF Canonical
    <3> QED BY <3>1, <1>2
  <2> QED BY <2>1, <2>2, <1>2
<1>6. h \notin Held(t)
  BY <1>5, HeldMeansHolds
<1>7. get_highest_contiguous_received_source_symbol(t) = h - 1
  BY DEF get_highest_contiguous_received_source_symbol
<1> HIDE DEF h
<1> QED BY <1>3, <1>4, <1>6, <1>7
-----------------------------------------------------------------------------
-----------------------------------------------------------------------------
(***************************************************************************)
(* The receive ring.  It is exact when it reaches up to the last id         *)
(* received, down to as many ids as fit, and shows of each whether it was   *)
(* received.                                                               *)
(***************************************************************************)
Newest(b) == b.first_id + b.current_size - 1

Rings == [current_size : 0..MaxSize, first_index : 0..(MaxSize - 1), first_id : Nat,
          array : [0..(MaxSize - 1) -> Nat]]

Shows(b, ids) ==
  \A i \in b.first_id..Newest(b) : b.array[IndexOf(b, i)] = IF i \in ids THEN i ELSE 0

Follows(b, ids) ==
  /\ b \in Rings /\ b.first_id >= 1 /\ b.current_size >= 1
  /\ b.first_id = 1 \/ b.current_size = MaxSize
  /\ Newest(b) \in ids /\ Newest(b) < IdSpace /\ \A i \in ids : i <= Newest(b)
  /\ Shows(b, ids)

RingExact(b, ids) ==
  \/ ids = {0} /\ b = new_ring_based_source_symbols_buffer
  \/ Follows(b, ids)

(***************************************************************************)
(* The ids a ring reaches have an entry each.                              *)
(***************************************************************************)
LEMMA OneEntryEach ==
  ASSUME NEW b \in Rings, NEW i \in Nat, i >= b.first_id
  PROVE  /\ IndexOf(b, i) \in 0..(MaxSize - 1)
         /\ \A j \in Nat : j >= b.first_id /\ i - j < MaxSize /\ j - i < MaxSize
                           /\ IndexOf(b, i) = IndexOf(b, j) => i = j
<1> DEFINE f == b.first_id
           x == b.first_index
<1>1. MaxSize \in Nat \ {0} /\ f \in Nat /\ x \in Nat
  BY RingAssumption DEF Rings
<1>2. \A k \in Nat : IndexOf(b, k) = (k - f + x) % MaxSize
  BY DEF IndexOf
<1>3. i >= f
  OBVIOUS
<1> SUFFICES /\ IndexOf(b, i) \in 0..(MaxSize - 1)
             /\ \A j \in Nat : j >= f /\ i - j < MaxSize /\ j - i < MaxSize
                               /\ IndexOf(b, i) = IndexOf(b, j) => i = j
  OBVIOUS
<1> HIDE DEF f, x
<1>4. \A k \in Nat : k >= f => k - f + x \in Nat
  BY <1>1
<1>5. IndexOf(b, i) \in 0..(MaxSize - 1)
  BY <1>1, <1>2, <1>3, <1>4, ModRange
<1>6. ASSUME NEW j \in Nat, j >= f, i - j < MaxSize, j - i < MaxSize,
             IndexOf(b, i) = IndexOf(b, j)
      PROVE  i = j
  <2> DEFINE u == i - f + x
             v == j - f + x
  <2>1. u \in Nat /\ v \in Nat /\ u % MaxSize = v % MaxSize
    BY <1>2, <1>3, <1>4, <1>6
  <2>2. u - v < MaxSize /\ v - u < MaxSize
    BY <1>1, <1>6
  <2>3. u = v => i = j
    BY <1>1
  <2> HIDE DEF u, v
  <2> QED BY Zenon, <1>1, <2>1, <2>2, <2>3, ModInjective
<1> QED BY <1>5, <1>6

(***************************************************************************)
(* Making room gives up the oldest ids and moves no entry.                 *)
(***************************************************************************)
LEMMA RoomKeepsEntries ==
  ASSUME NEW b \in Rings, NEW n \in 1..(b.current_size - 1)
  PROVE  LET c == remove_and_free_first(b, n)
         IN  /\ c \in Rings /\ c.first_id = b.first_id + n
             /\ c.current_size = b.current_size - n
             /\ \A i \in c.first_id..Newest(b) : c.array[IndexOf(c, i)] = b.array[IndexOf(b, i)]
<1> DEFINE c == remove_and_free_first(b, n)
           f == b.first_id
           x == b.first_index
           z == b.current_size
<1>1. /\ MaxSize \in Nat \ {0} /\ f \in Nat /\ x \in 0..(MaxSize - 1)
      /\ z \in 0..MaxSize /\ n \in 1..(z - 1)
      /\ b.array \in [0..(MaxSize - 1) -> Nat]
  BY RingAssumption DEF Rings
<1>2. n # z
  <2> HIDE DEF z
  <2> QED BY <1>1
<1>3. /\ c.current_size = z - n
      /\ c.first_index = (x + n) % MaxSize
      /\ c.first_id = f + n
      /\ c.array = [k \in 0..(MaxSize - 1) |->
                      IF \E i \in 0..(n - 1) : k = (x + i) % MaxSize THEN 0 ELSE b.array[k]]
      /\ c = [current_size |-> c.current_size, first_index |-> c.first_index,
              first_id |-> c.first_id, array |-> c.array]
  BY <1>2 DEF remove_and_free_first, Indices, NULL
<1>4. Newest(b) = f + z - 1
  BY DEF Newest
<1>5. \A i \in Nat : IndexOf(b, i) = (i - f + x) % MaxSize
  BY DEF IndexOf
<1>6. \A i \in Nat : IndexOf(c, i) = (i - (f + n) + ((x + n) % MaxSize)) % MaxSize
  BY <1>3 DEF IndexOf
<1>7. \A i \in Nat : i >= f => IndexOf(b, i) \in 0..(MaxSize - 1)
  BY OneEntryEach
<1>8. \A i, j \in Nat : i >= f /\ j >= f /\ i - j < MaxSize /\ j - i < MaxSize
                        /\ IndexOf(b, i) = IndexOf(b, j) => i = j
  BY OneEntryEach
<1> SUFFICES /\ c \in Rings /\ c.first_id = f + n /\ c.current_size = z - n
             /\ \A i \in c.first_id..Newest(b) : c.array[IndexOf(c, i)] = b.array[IndexOf(b, i)]
  OBVIOUS
<1> HIDE DEF c, f, x, z
<1>9. c \in Rings
  <2>1. x + n \in Nat /\ f + n \in Nat /\ z - n \in 0..MaxSize
    BY <1>1
  <2>2. (x + n) % MaxSize \in 0..(MaxSize - 1)
    BY Zenon, <1>1, <2>1, ModRange
  <2>3. c.array \in [0..(MaxSize - 1) -> Nat]
    BY <1>1, <1>3
  <2>4. c.current_size \in 0..MaxSize /\ c.first_index \in 0..(MaxSize - 1) /\ c.first_id \in Nat
    BY <1>3, <2>1, <2>2
  <2> QED BY <1>3, <2>3, <2>4 DEF Rings
<1>10. ASSUME NEW i \in (f + n)..(f + z - 1)
       PROVE  c.array[IndexOf(c, i)] = b.array[IndexOf(b, i)]
  <2>1. i \in Nat /\ i >= f
    BY <1>1
  <2>2. IndexOf(c, i) = IndexOf(b, i)
    <3> DEFINE u == i - (f + n)
               v == x + n
    <3>1. u \in Nat /\ v \in Nat /\ u + v = i - f + x
      BY <1>1
    <3>2. IndexOf(c, i) = (u + (v % MaxSize)) % MaxSize /\ IndexOf(b, i) = (u + v) % MaxSize
      BY <1>5, <1>6, <2>1, <3>1
    <3> HIDE DEF u, v
    <3> QED BY Zenon, <1>1, <3>1, <3>2, ModOfMod
  <2>3. ASSUME NEW j \in 0..(n - 1), IndexOf(b, i) = (x + j) % MaxSize
        PROVE  FALSE
    <3> DEFINE k == f + j
    <3>1. k \in Nat /\ k >= f /\ i - k < MaxSize /\ k - i < MaxSize /\ i # k
      BY <1>1
    <3>2. k - f + x = x + j
      BY <1>1
    <3> HIDE DEF k
    <3>3. IndexOf(b, k) = IndexOf(b, i)
      BY <1>5, <2>3, <3>1, <3>2
    <3> QED BY <1>8, <2>1, <3>1, <3>3
  <2>4. IndexOf(b, i) \in 0..(MaxSize - 1)
    BY <1>7, <2>1
  <2> QED BY <1>3, <2>2, <2>3, <2>4
<1> QED BY <1>3, <1>4, <1>9, <1>10

(***************************************************************************)
(* The first symbol received.                                              *)
(***************************************************************************)
LEMMA StartIsExact ==
  ASSUME NEW b, NEW id \in Nat, id >= 1, id < IdSpace
  PROVE  Follows(StartAt(b, id), {0, id})
<1> DEFINE first == IF id >= MaxSize THEN id - (MaxSize - 1) ELSE 1
           size == IF id >= MaxSize THEN MaxSize ELSE id
           c == StartAt(b, id)
<1>1. MaxSize \in Nat /\ MaxSize >= 1
  BY RingAssumption
<1>2. first \in Nat /\ first >= 1 /\ size \in 1..MaxSize /\ first + size - 1 = id
      /\ (first = 1 \/ size = MaxSize)
  BY <1>1
<1>3. Max({1, id - (MaxSize - 1)}) = IF id - (MaxSize - 1) >= 1 THEN id - (MaxSize - 1) ELSE 1
  BY <1>1, MaxOfTwo
<1>4. (IF id >= MaxSize THEN Max({1, id - (MaxSize - 1)}) ELSE 1) = first
  BY <1>1, <1>3
<1>5. id + 1 - first = size
  BY <1>1
<1> HIDE DEF first, size
<1>6. Min({MaxSize, size}) = size
  <2>1. MaxSize \in Int /\ size \in Int /\ size <= MaxSize
    BY <1>1, <1>2
  <2>2. Min({MaxSize, size}) = IF MaxSize <= size THEN MaxSize ELSE size
    BY <2>1, MinOfTwo
  <2> QED BY <2>1, <2>2
<1>7. c = [current_size |-> size, first_index |-> 0, first_id |-> first,
           array |-> [k \in 0..(MaxSize - 1) |-> IF k = size - 1 THEN id ELSE 0]]
  <2>1. (\A S : Max(S) = Max(S)) /\ (\A S : Min(S) = Min(S))
    BY DEF Max, Min, Max, Min
  <2> QED BY Zenon, <1>4, <1>5, <1>6, <2>1 DEF StartAt, Indices, NULL
<1> HIDE DEF c
<1>8. c \in Rings /\ c.first_id = first /\ c.current_size = size /\ Newest(c) = id
  BY <1>1, <1>2, <1>7 DEF Rings, Newest
<1>9. Shows(c, {0, id})
  <2> SUFFICES ASSUME NEW i \in first..id
               PROVE  c.array[IndexOf(c, i)] = IF i \in {0, id} THEN i ELSE 0
    BY <1>8 DEF Shows
  <2>1. i - first + 0 \in 0..(MaxSize - 1) /\ (i - first + 0 = size - 1 <=> i = id) /\ i # 0
    BY <1>1, <1>2
  <2>2. IndexOf(c, i) = (i - first + 0) % MaxSize
    BY <1>7 DEF IndexOf
  <2>3. (i - first + 0) % MaxSize = i - first + 0
    BY <1>1, <2>1
  <2> QED BY <1>7, <2>1, <2>2, <2>3
<1> QED BY <1>2, <1>8, <1>9 DEF Follows, c

(***************************************************************************)
(* A symbol above the last one, by less than the size of the ring: the      *)
(* oldest ids make room, the ids in between are missing.                   *)
(***************************************************************************)
LEMMA RoomFollows ==
  ASSUME NEW b, NEW ids \in SUBSET Nat, Follows(b, ids), NEW added \in 1..(MaxSize - 1)
  PROVE  LET c == MakeRoom(b, added)
         IN  /\ c \in Rings /\ c.first_id >= 1 /\ c.current_size >= 1
             /\ Newest(c) = Newest(b) /\ Shows(c, ids)
             /\ c.current_size + added <= MaxSize
             /\ c.first_id = 1 \/ c.current_size + added = MaxSize
<1> DEFINE c == MakeRoom(b, added)
           f == b.first_id
           z == b.current_size
           n == z + added - MaxSize
<1>1. /\ MaxSize \in Nat \ {0} /\ f \in Nat /\ f >= 1 /\ z \in 1..MaxSize /\ b \in Rings
      /\ f = 1 \/ z = MaxSize
      /\ Newest(b) = f + z - 1
  BY RingAssumption DEF Follows, Rings, Newest
<1>2. Shows(b, ids) /\ \A i \in f..Newest(b) : b.array[IndexOf(b, i)] = IF i \in ids THEN i ELSE 0
  BY DEF Follows, Shows
<1>3. c = IF n > 0 THEN remove_and_free_first(b, n) ELSE b
  BY DEF MakeRoom
<1>4. n > 0 => n \in 1..(b.current_size - 1)
  <2>1. n > 0 => n \in 1..(z - 1)
    <3> HIDE DEF z
    <3> QED BY <1>1
  <2> QED BY <2>1
<1>5. ASSUME n > 0
      PROVE  /\ c \in Rings /\ c.first_id = f + n /\ c.current_size = z - n
             /\ \A i \in c.first_id..Newest(b) : c.array[IndexOf(c, i)] = b.array[IndexOf(b, i)]
  BY <1>1, <1>3, <1>4, <1>5, RoomKeepsEntries
<1>6. ~ (n > 0) => c = b /\ c.first_id = f /\ c.current_size = z
  BY <1>3
<1>7. Newest(c) = c.first_id + c.current_size - 1
  BY DEF Newest
<1> SUFFICES /\ c \in Rings /\ c.first_id >= 1 /\ c.current_size >= 1
             /\ Newest(c) = Newest(b) /\ Shows(c, ids)
             /\ c.current_size + added <= MaxSize
             /\ c.first_id = 1 \/ c.current_size + added = MaxSize
  OBVIOUS
<1> HIDE DEF c, f, z
<1>8. CASE n > 0
  <2> DEFINE g == c.first_id
             y == c.current_size
  <2>0. /\ n \in 1..(z - 1) /\ g = f + n /\ y = z - n
        /\ Newest(c) = g + y - 1
    BY <1>4, <1>5, <1>7, <1>8 DEF z
  <2>1. /\ c.first_id >= 1 /\ c.current_size >= 1 /\ Newest(c) = Newest(b)
        /\ c.current_size + added = MaxSize
        /\ \A i \in c.first_id..Newest(b) : i \in f..Newest(b)
    <3> HIDE DEF g, y
    <3>1. g >= 1 /\ y >= 1 /\ g + y - 1 = f + z - 1 /\ y + added = MaxSize /\ g >= f
          /\ \A i \in g..(f + z - 1) : i \in f..(f + z - 1)
      BY <1>1, <2>0
    <3> QED BY <1>1, <2>0, <3>1 DEF g, y
  <2>2. Shows(c, ids)
    BY <1>2, <1>5, <1>8, <2>1 DEF Shows
  <2> QED BY <1>1, <1>5, <1>8, <2>1, <2>2
<1>9. CASE ~ (n > 0)
  BY <1>1, <1>2, <1>6, <1>9
<1> QED BY <1>8, <1>9

(***************************************************************************)
(* The ring moves up to the symbol.                                        *)
(***************************************************************************)
LEMMA ExtendIsExact ==
  ASSUME NEW b, NEW ids \in SUBSET Nat, Follows(b, ids),
         NEW id \in Nat, id > Newest(b), id < Newest(b) + MaxSize, id < IdSpace
  PROVE  Follows(ExtendTo(b, id), ids \cup {id})
<1> DEFINE top == Newest(b)
           added == id - top
           c == MakeRoom(b, added)
           f == c.first_id
           z == c.current_size
           d == ExtendTo(b, id)
<1>1. /\ MaxSize \in Nat \ {0} /\ IdSpace \in Nat /\ top \in Nat
      /\ get_last_source_symbol_id(b) = top /\ \A i \in ids : i <= top
  <2>1. /\ MaxSize \in Nat \ {0} /\ IdSpace \in Nat /\ top < IdSpace /\ top \in ids
        /\ \A i \in ids : i <= top
    BY RingAssumption DEF Follows
  <2>2. top % IdSpace = top
    <3> HIDE DEF top
    <3> QED BY <2>1
  <2> QED BY Zenon, <2>1, <2>2 DEF get_last_source_symbol_id, Newest
<1>2. added \in 1..(MaxSize - 1)
  <2>1. id > top /\ id < top + MaxSize
    OBVIOUS
  <2> HIDE DEF top
  <2> QED BY <1>1, <2>1
<1>3. /\ c \in Rings /\ f >= 1 /\ z >= 1
      /\ Newest(c) = top /\ Shows(c, ids) /\ z + added <= MaxSize
      /\ f = 1 \/ z + added = MaxSize
  BY <1>2, RoomFollows
<1>4. f \in Nat /\ z \in Nat /\ f + z - 1 = top /\ c.array \in [0..(MaxSize - 1) -> Nat]
  BY <1>3 DEF Rings, Newest
<1>5. \A i \in Nat : i >= f => IndexOf(c, i) \in 0..(MaxSize - 1)
  BY <1>3, OneEntryEach
<1>6. \A i, j \in Nat : i >= f /\ j >= f /\ i - j < MaxSize /\ j - i < MaxSize
                        /\ IndexOf(c, i) = IndexOf(c, j) => i = j
  BY <1>3, OneEntryEach
<1>7. \A i \in f..top : c.array[IndexOf(c, i)] = IF i \in ids THEN i ELSE 0
  BY <1>3 DEF Shows
<1>8. get_last_source_symbol_id(c) = top
  BY <1>1, <1>3 DEF get_last_source_symbol_id, Newest
<1> DEFINE A == [k \in 0..(MaxSize - 1) |->
                   IF k = IndexOf(c, id) THEN id
                   ELSE IF \E i \in (top + 1)..(id - 1) : k = IndexOf(c, i) THEN 0
                   ELSE c.array[k]]
<1>9. /\ (top + 1) % IdSpace = top + 1 /\ (z + id - top) % IdSpace = z + added
      /\ z + added \in 1..MaxSize /\ f + (z + added) - 1 = id
  <2>1. id > top /\ id < IdSpace
    OBVIOUS
  <2> HIDE DEF top, f, z, c
  <2>2. top + 1 \in 0..(IdSpace - 1) /\ z + id - top \in 0..(IdSpace - 1)
    BY <1>1, <1>3, <1>4, <2>1
  <2>3. (top + 1) % IdSpace = top + 1
    BY <1>1, <2>2
  <2>4. (z + id - top) % IdSpace = z + id - top
    BY <1>1, <2>2
  <2>5. z + id - top = z + added /\ f + (z + added) - 1 = id /\ z + added \in 1..MaxSize
    BY <1>1, <1>2, <1>3, <1>4, <2>1
  <2> QED BY <2>3, <2>4, <2>5
<1>10. d = [c EXCEPT !.array = A, !.current_size = z + added]
  BY Zenon, <1>1, <1>8, <1>9 DEF ExtendTo, Indices, NULL
<1>11. /\ d \in Rings /\ d.first_id = f /\ d.first_index = c.first_index
       /\ d.current_size = z + added /\ d.array = A
  <2>1. A \in [0..(MaxSize - 1) -> Nat]
    BY Zenon, <1>4
  <2> HIDE DEF A
  <2>2. z + added \in 0..MaxSize
    BY <1>9
  <2> QED BY Zenon, <1>3, <1>10, <2>1, <2>2 DEF Rings
<1>12. \A i : IndexOf(d, i) = IndexOf(c, i)
  BY <1>11 DEF IndexOf
<1>13. Newest(d) = id
  BY <1>9, <1>11 DEF Newest
<1>14. id > top /\ id < top + MaxSize /\ z + added <= MaxSize
  BY <1>3
<1> SUFFICES Follows(d, ids \cup {id})
  OBVIOUS
<1> HIDE DEF d
<1>15. Shows(d, ids \cup {id})
  <2> SUFFICES ASSUME NEW i \in f..id
               PROVE  A[IndexOf(c, i)] = IF i \in ids \cup {id} THEN i ELSE 0
    BY <1>11, <1>12, <1>13 DEF Shows
  <2> HIDE DEF top, f, z, c
  <2>1. i \in Nat /\ i >= f /\ id >= f /\ i - id < MaxSize /\ id - i < MaxSize
    <3>1. MaxSize \in Nat /\ top \in Nat /\ f \in Nat /\ z \in Nat /\ f + z - 1 = top
          /\ id > top /\ z + added <= MaxSize
      BY <1>1, <1>4, <1>14
    <3> QED BY <3>1
  <2>2. IndexOf(c, i) \in 0..(MaxSize - 1)
    BY <1>5, <2>1
  <2>3. CASE i = id
    BY <2>2, <2>3
  <2>4. CASE i # id /\ i > top
    <3>1. IndexOf(c, i) # IndexOf(c, id)
      BY <1>6, <2>1, <2>4
    <3>2. i \in (top + 1)..(id - 1) /\ i \notin ids
      BY <1>1, <2>1, <2>4
    <3> QED BY <2>2, <2>4, <3>1, <3>2
  <2>5. CASE i # id /\ i <= top
    <3>1. IndexOf(c, i) # IndexOf(c, id)
      BY <1>6, <2>1, <2>5
    <3>2. ASSUME NEW j \in (top + 1)..(id - 1), IndexOf(c, i) = IndexOf(c, j)
          PROVE  FALSE
      <4>1. j \in Nat /\ j >= f /\ i - j < MaxSize /\ j - i < MaxSize /\ i # j
        BY <1>1, <1>3, <1>4, <1>9, <1>14, <2>1, <2>5
      <4> QED BY <1>6, <2>1, <3>2, <4>1
    <3>3. A[IndexOf(c, i)] = c.array[IndexOf(c, i)]
      BY <2>2, <3>1, <3>2
    <3>4. i \in f..top
      BY <1>1, <2>1, <2>5
    <3> QED BY <1>7, <2>5, <3>3, <3>4
  <2>6. i = id \/ (i # id /\ i > top) \/ (i # id /\ i <= top)
    BY <1>1, <2>1
  <2> HIDE DEF A
  <2> QED BY <2>3, <2>4, <2>5, <2>6
<1>16. \A i \in ids \cup {id} : i <= id
  <2> HIDE DEF top
  <2> QED BY <1>1, <1>14
<1> QED BY <1>3, <1>9, <1>11, <1>13, <1>15, <1>16 DEF Follows

(***************************************************************************)
(* A symbol less than the size of the ring above the last one leaves the    *)
(* ring exact, wherever it falls: the ring is emptied for none.            *)
(***************************************************************************)
LEMMA AddKeepsRing ==
  ASSUME NEW b, NEW ids \in SUBSET Nat, RingExact(b, ids),
         NEW id \in Nat, id >= 1, id < IdSpace,
         Follows(b, ids) => id < Newest(b) + MaxSize
  PROVE  Follows(ring_add(b, id), ids \cup {id})
<1>1. MaxSize \in Nat \ {0} /\ IdSpace \in Nat
  BY RingAssumption
<1>2. CASE ids = {0} /\ b = new_ring_based_source_symbols_buffer
  <2>1. b.current_size = 0
    BY <1>2 DEF new_ring_based_source_symbols_buffer
  <2>2. ring_add(b, id) = StartAt(b, id)
    BY <2>1 DEF ring_add
  <2>3. ids \cup {id} = {0, id}
    BY <1>2
  <2> QED BY <2>2, <2>3, StartIsExact
<1>3. CASE Follows(b, ids)
  <2> DEFINE top == Newest(b)
             f == b.first_id
             z == b.current_size
  <2>1. /\ b \in Rings /\ f \in Nat /\ z \in Nat /\ z >= 1 /\ f >= 1 /\ f + z - 1 = top
        /\ top \in Nat /\ top < IdSpace /\ id < top + MaxSize /\ z <= MaxSize
        /\ \A i \in ids : i <= top
        /\ b.array \in [0..(MaxSize - 1) -> Nat]
    BY <1>3 DEF Follows, Rings, Newest
  <2>2. get_last_source_symbol_id(b) = top
    <3>1. get_last_source_symbol_id(b) = top % IdSpace
      BY DEF get_last_source_symbol_id, Newest
    <3> HIDE DEF top
    <3>2. top \in Nat /\ top < IdSpace /\ IdSpace \in Nat
      BY <1>1, <2>1
    <3>3. top % IdSpace = top
      BY <3>2
    <3> QED BY <3>1, <3>3
  <2>3. \A i \in f..top : b.array[IndexOf(b, i)] = IF i \in ids THEN i ELSE 0
    BY <1>3 DEF Follows, Shows
  <2>4. CASE id > top
    <3>1. z > 0 /\ ~ (id - top > MaxSize)
      <4> HIDE DEF top, z, f
      <4> QED BY <1>1, <2>1
    <3>2. ring_add(b, id) = ExtendTo(b, id)
      BY <2>2, <2>4, <3>1 DEF ring_add
    <3> QED BY <1>3, <2>1, <2>4, <3>2, ExtendIsExact
  <2>5. CASE id <= top /\ id < f
    <3>1. ring_add(b, id) = b
      <4>1. z # 0 /\ ~ (id > top)
        <5> HIDE DEF top, z, f
        <5> QED BY <2>1, <2>5
      <4> QED BY <2>2, <2>5, <4>1 DEF ring_add
    <3>2. Shows(b, ids \cup {id})
      <4>1. \A i \in f..top : i # id
        <5> HIDE DEF top, f
        <5> QED BY <2>1, <2>5
      <4> QED BY <2>3, <4>1 DEF Shows
    <3> QED BY <1>3, <2>5, <3>1, <3>2 DEF Follows
  <2>6. CASE id <= top /\ id >= f
    <3> DEFINE x == IndexOf(b, id)
               d == [b EXCEPT !.array[x] = id]
    <3>1. ring_add(b, id) = d
      <4>1. z # 0 /\ ~ (id > top) /\ ~ (id < f)
        <5> HIDE DEF top, z, f
        <5> QED BY <2>1, <2>6
      <4> QED BY <2>2, <4>1 DEF ring_add
    <3>2. x \in 0..(MaxSize - 1)
      BY <2>1, <2>6, OneEntryEach
    <3>3. /\ d \in Rings /\ d.first_id = f /\ d.current_size = z
          /\ d.first_index = b.first_index /\ d.array = [b.array EXCEPT ![x] = id]
      <4> HIDE DEF x
      <4>1. [b.array EXCEPT ![x] = id] \in [0..(MaxSize - 1) -> Nat]
        BY <2>1, <3>2
      <4> QED BY Zenon, <2>1, <4>1 DEF Rings
    <3>4. Newest(d) = top /\ \A i : IndexOf(d, i) = IndexOf(b, i)
      BY <3>3 DEF Newest, IndexOf
    <3> SUFFICES Follows(d, ids \cup {id})
      BY <3>1
    <3> HIDE DEF d
    <3>5. Shows(d, ids \cup {id})
      <4> SUFFICES ASSUME NEW i \in f..top
                   PROVE  d.array[IndexOf(b, i)] = IF i \in ids \cup {id} THEN i ELSE 0
        BY <3>3, <3>4 DEF Shows
      <4>1. i \in Nat /\ i >= f /\ i - id < MaxSize /\ id - i < MaxSize
        <5> HIDE DEF top, f, z
        <5> QED BY <1>1, <2>1, <2>6
      <4>2. IndexOf(b, i) \in 0..(MaxSize - 1) /\ (IndexOf(b, i) = x => i = id)
        BY <2>1, <2>6, <4>1, OneEntryEach
      <4>3. CASE i = id
        BY Zenon, <2>1, <3>2, <3>3, <4>3
      <4>4. CASE i # id
        BY <2>1, <2>3, <3>3, <4>2, <4>4
      <4> QED BY <4>3, <4>4
    <3> QED BY <1>3, <2>6, <3>3, <3>4, <3>5 DEF Follows
  <2> QED
    <3> HIDE DEF top, f
    <3> QED BY <2>1, <2>4, <2>5, <2>6
<1> QED BY <1>2, <1>3 DEF RingExact

(***************************************************************************)
(* A ring that is exact answers for every id it reaches: from the first of  *)
(* the last MaxSize ids, or 1, up to the last id received.                  *)
(***************************************************************************)
LEMMA ExactRingAnswers ==
  ASSUME NEW b, NEW ids \in SUBSET Nat, Follows(b, ids)
  PROVE  /\ Newest(b) \in Nat /\ Newest(b) >= 1 /\ b.first_id \in Nat /\ b.first_id >= 1
         /\ Newest(b) - b.first_id < MaxSize
         /\ b.first_id = 1 \/ b.first_id = Newest(b) - (MaxSize - 1)
         /\ get_last_source_symbol_id(b) = Newest(b)
         /\ Max(ids) = Newest(b)
         /\ \A i \in b.first_id..Newest(b) : ring_get(b, i) = IF i \in ids THEN i ELSE NULL
<1> DEFINE top == Newest(b)
           f == b.first_id
           z == b.current_size
<1>1. /\ f \in Nat /\ z \in Nat /\ f >= 1 /\ z >= 1 /\ z <= MaxSize /\ f + z - 1 = top
      /\ top < IdSpace /\ (f = 1 \/ z = MaxSize)
      /\ top \in ids /\ (\A i \in ids : i <= top)
      /\ \A i \in f..top : b.array[IndexOf(b, i)] = IF i \in ids THEN i ELSE 0
      /\ MaxSize \in Nat /\ IdSpace \in Nat
  BY RingAssumption DEF Follows, Rings, Newest, Shows
<1>2. get_last_source_symbol_id(b) = top % IdSpace
  BY DEF get_last_source_symbol_id, Newest
<1>3. \A i : ring_get(b, i) = IF i < f \/ i > get_last_source_symbol_id(b) THEN 0
                             ELSE b.array[IndexOf(b, i)]
  BY DEF ring_get, NULL
<1> SUFFICES /\ top \in Nat /\ top >= 1 /\ f \in Nat /\ f >= 1 /\ top - f < MaxSize
             /\ f = 1 \/ f = top - (MaxSize - 1)
             /\ get_last_source_symbol_id(b) = top
             /\ Max(ids) = top
             /\ \A i \in f..top : ring_get(b, i) = IF i \in ids THEN i ELSE 0
  BY DEF NULL
<1> HIDE DEF top, f, z
<1>4. top \in Nat /\ top >= 1 /\ top - f < MaxSize /\ (f = 1 \/ f = top - (MaxSize - 1))
  BY <1>1
<1>5. get_last_source_symbol_id(b) = top
  <2>1. top \in Nat /\ top < IdSpace /\ IdSpace \in Nat
    BY <1>1, <1>4
  <2>2. top % IdSpace = top
    BY <2>1
  <2> QED BY <1>2, <2>2
<1>6. Max(ids) = top
  <2>1. \A x \in ids : (\A y \in ids : x >= y) => x = top
    BY <1>1
  <2>2. top \in ids /\ \A y \in ids : top >= y
    BY <1>1
  <2> QED BY Zenon, <2>1, <2>2 DEF Max
<1>7. \A i \in f..top : ring_get(b, i) = IF i \in ids THEN i ELSE 0
  BY <1>1, <1>3, <1>4, <1>5
<1> QED BY <1>1, <1>4, <1>5, <1>6, <1>7
=============================================================================
