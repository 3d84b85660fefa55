------------------------- MODULE StreamSteps_proofs -------------------------
(***************************************************************************)
(* What the kinds of steps the streams take keep: the types, the heads, the *)
(* frames and the credit; the frames that wait for an acknowledgement; and *)
(* that nothing is lost.                                                   *)
(***************************************************************************)
EXTENDS StreamsInvariant, TLAPS

\* The time the provers are given for a step.
USE SMTT(20), ZenonT(30)

LEMMA FrameStaysOk ==
  ASSUME NEW f \in StreamFrames, NEW st \in SndHeads, NEW st2 \in SndHeads, FrameOk(f, st), Grows(st, st2)
  PROVE  FrameOk(f, st2)
<1> DEFINE a == st.sent_offset
           b == st2.sent_offset
           e == End(f)
<1>1. a \in Nat /\ b \in Nat /\ e \in Nat
  BY DEF SndHeads, StreamFrames, End
<1>2. e <= a /\ a <= b
  BY DEF FrameOk, Grows
<1> HIDE DEF a, b, e
<1>3. e <= b
  BY <1>1, <1>2
<1> QED BY <1>3 DEF FrameOk, Grows, a, b, e

LEMMA ReceiverStaysOk ==
  ASSUME NEW r \in RcvHeads, NEW st \in SndHeads, NEW st2 \in SndHeads, RcvOk(r, st), Grows(st, st2)
  PROVE  RcvOk(r, st2)
<1> DEFINE a == st.sent_offset
           b == st2.sent_offset
           o == r.fin_offset
           H == HeldBy(r.stream_data, r.consumed_offset)
<1>1. a \in Nat /\ b \in Nat /\ o \in Nat
  BY DEF SndHeads, RcvHeads
<1>2. a <= b /\ o <= a /\ H \subseteq 0..(a - 1)
  BY DEF RcvOk, Grows
<1> HIDE DEF a, b, o, H
<1>3. o <= b /\ H \subseteq 0..(b - 1)
  BY <1>1, <1>2
<1> QED BY <1>3 DEF RcvOk, Grows, a, b, o, H

LEMMA OneAdvances ==
  ASSUME StreamTypes, HeadsInv, NEW s \in Ids, NEW st \in SndHeads, SndOk(st), Grows(snd[s], st),
         snd' = [snd EXCEPT ![s] = st]
  PROVE  Advances
<1>1. \A t \in Ids : snd'[t] = IF t = s THEN st ELSE snd[t]
  BY DEF StreamTypes
<1>2. snd' \in [Ids -> SndHeads]
  BY DEF StreamTypes
<1>3. \A t \in Ids : Grows(snd[t], snd[t])
  <2> TAKE t \in Ids
  <2>1. snd[t].sent_offset \in Nat
    BY DEF StreamTypes, SndHeads
  <2> QED BY <2>1 DEF Grows
<1>4. \A t \in Ids : SndOk(snd[t])
  BY DEF HeadsInv
<1>5. \A t \in Ids : SndOk(snd'[t]) /\ Grows(snd[t], snd'[t])
  BY <1>1, <1>3, <1>4
<1> QED BY <1>2, <1>5 DEF Advances

(***************************************************************************)
(* The steps of the client keep the invariant of the heads, the frames and  *)
(* the credit.                                                             *)
(***************************************************************************)
LEMMA AdvanceKeepsHeads ==
  ASSUME StreamTypes, HeadsInv, Advances, rcv' = rcv,
         packets' \in Seq(StreamFrames), rtx_frames' \in Seq(StreamFrames),
         \A n \in DOMAIN packets' : \/ \E m \in DOMAIN packets : packets'[n] = packets[m]
                                    \/ \E i \in DOMAIN rtx_frames : packets'[n] = rtx_frames[i]
                                    \/ FrameOk(packets'[n], snd'[packets'[n].id]),
         \A n \in DOMAIN rtx_frames' : \/ \E i \in DOMAIN rtx_frames : rtx_frames'[n] = rtx_frames[i]
                                       \/ FrameOk(rtx_frames'[n], snd'[rtx_frames'[n].id])
  PROVE  HeadsInv'
<1>1. ASSUME NEW s \in Ids PROVE SndOk(snd'[s]) /\ RcvOk(rcv'[s], snd'[s])
  <2>1. rcv[s] \in RcvHeads /\ snd[s] \in SndHeads /\ snd'[s] \in SndHeads
    BY DEF StreamTypes, Advances
  <2>2. RcvOk(rcv[s], snd[s]) /\ Grows(snd[s], snd'[s]) /\ SndOk(snd'[s])
    BY DEF HeadsInv, Advances
  <2> QED BY <2>1, <2>2, ReceiverStaysOk
<1>2. ASSUME NEW f \in StreamFrames, FrameOk(f, snd[f.id])
      PROVE  FrameOk(f, snd'[f.id])
  <2>1. f.id \in Ids
    BY DEF StreamFrames
  <2>2. snd[f.id] \in SndHeads /\ snd'[f.id] \in SndHeads /\ Grows(snd[f.id], snd'[f.id])
    BY <2>1 DEF StreamTypes, Advances
  <2> QED BY <1>2, <2>2, FrameStaysOk
<1>3. /\ \A m \in DOMAIN packets : packets[m] \in StreamFrames /\ FrameOk(packets[m], snd[packets[m].id])
      /\ \A i \in DOMAIN rtx_frames : rtx_frames[i] \in StreamFrames /\ FrameOk(rtx_frames[i], snd[rtx_frames[i].id])
  BY DEF StreamTypes, HeadsInv
<1>4. /\ \A m \in DOMAIN packets : FrameOk(packets[m], snd'[packets[m].id])
      /\ \A i \in DOMAIN rtx_frames : FrameOk(rtx_frames[i], snd'[rtx_frames[i].id])
  BY <1>2, <1>3
<1>5. \A n \in DOMAIN packets' : FrameOk(packets'[n], snd'[packets'[n].id])
  BY <1>4
<1>6. \A i \in DOMAIN rtx_frames' : FrameOk(rtx_frames'[i], snd'[rtx_frames'[i].id])
  BY <1>4
<1> QED BY <1>1, <1>5, <1>6 DEF HeadsInv

-----------------------------------------------------------------------------

(***************************************************************************)
(* The sum over the streams, kept as the list of its partial sums in some   *)
(* order of the streams: what one stream adds is bounded by the sum, and    *)
(* the sum follows a change of one stream.                                  *)
(***************************************************************************)
LEMMA PartOfSum ==
  ASSUME NEW d \in [Ids -> Nat], NEW total \in Int, IsSum(d, total), NEW s \in Ids
  PROVE  d[s] <= total
<1>1. PICK n \in Nat : \E h \in Bijection(1..n, Ids), T \in [0..n -> Nat] :
        /\ T[0] = 0 /\ T[n] = total
        /\ \A i \in 1..n : T[i] = T[i - 1] + d[h[i]]
        /\ \A i, j \in 0..n : i <= j => T[i] <= T[j]
  BY Zenon DEF IsSum
<1>2. PICK h \in Bijection(1..n, Ids), T \in [0..n -> Nat] :
        /\ T[0] = 0 /\ T[n] = total
        /\ \A i \in 1..n : T[i] = T[i - 1] + d[h[i]]
        /\ \A i, j \in 0..n : i <= j => T[i] <= T[j]
  BY <1>1
<1>3. PICK k \in 1..n : h[k] = s
  BY DEF Bijection, Surjection
<1>4. k \in 0..n /\ k - 1 \in 0..n /\ n \in 0..n /\ k <= n
  OBVIOUS
<1>5. T[k - 1] \in Nat /\ T[k] \in Nat /\ d[s] \in Nat
  BY <1>4
<1>6. T[k] = T[k - 1] + d[s] /\ T[k] <= total
  BY <1>2, <1>3, <1>4
<1> QED BY <1>5, <1>6

LEMMA SumFollows ==
  ASSUME NEW d \in [Ids -> Nat], NEW total \in Int, IsSum(d, total), NEW s \in Ids,
         NEW k \in Int, d[s] + k >= 0,
         NEW d2 \in [Ids -> Nat], \A t \in Ids : d2[t] = IF t = s THEN d[t] + k ELSE d[t]
  PROVE  IsSum(d2, total + k)
<1>1. PICK n \in Nat : \E h \in Bijection(1..n, Ids), T \in [0..n -> Nat] :
        /\ T[0] = 0 /\ T[n] = total
        /\ \A i \in 1..n : T[i] = T[i - 1] + d[h[i]]
        /\ \A i, j \in 0..n : i <= j => T[i] <= T[j]
  BY Zenon DEF IsSum
<1>2. PICK h \in Bijection(1..n, Ids), T \in [0..n -> Nat] :
        /\ T[0] = 0 /\ T[n] = total
        /\ \A i \in 1..n : T[i] = T[i - 1] + d[h[i]]
        /\ \A i, j \in 0..n : i <= j => T[i] <= T[j]
  BY Zenon, <1>1
<1>3. PICK p \in 1..n : h[p] = s
  BY DEF Bijection, Surjection
<1>4. \A i \in 1..n : h[i] \in Ids /\ (h[i] = s <=> i = p)
  BY Zenon, <1>3 DEF Bijection, Injection, IsInjective, Surjection
<1> DEFINE U == [i \in 0..n |-> IF i >= p THEN T[i] + k ELSE T[i]]
<1>5. p \in 0..n /\ p - 1 \in 0..n /\ n \in 0..n /\ 0 \in 0..n /\ p <= n /\ p > 0
  OBVIOUS
<1>6. T[p] = T[p - 1] + d[s] /\ T[p - 1] \in Nat /\ T[p] \in Nat /\ d[s] \in Nat
  BY <1>2, <1>3, <1>5
<1>7. T[p] + k >= T[p - 1]
  BY <1>6
<1>8. \A i \in 0..n : T[i] \in Nat /\ (i >= p => T[i] >= T[p]) /\ (i < p => T[i] <= T[p - 1])
  <2> TAKE i \in 0..n
  <2>1. i < p => i <= p - 1
    OBVIOUS
  <2> QED BY <2>1, <1>2, <1>5
<1>9. U \in [0..n -> Nat]
  <2>1. ASSUME NEW i \in 0..n PROVE (IF i >= p THEN T[i] + k ELSE T[i]) \in Nat
    <3>1. T[i] \in Nat /\ (i >= p => T[i] >= T[p])
      BY <1>8
    <3>2. CASE i >= p
      <4>1. T[i] + k >= 0
        BY <1>6, <1>7, <3>1, <3>2
      <4> QED BY <3>1, <3>2, <4>1
    <3>3. CASE ~ (i >= p)
      BY <3>1, <3>3
    <3> QED BY <3>2, <3>3
  <2> QED BY <2>1
<1>10. U[0] = 0 /\ U[n] = total + k
  BY <1>2, <1>5
<1>11. ASSUME NEW i \in 1..n PROVE U[i] = U[i - 1] + d2[h[i]]
  <2>1. i \in 0..n /\ i - 1 \in 0..n /\ T[i] = T[i - 1] + d[h[i]] /\ T[i] \in Nat /\ T[i - 1] \in Nat
    BY <1>2
  <2>2. d[h[i]] \in Nat /\ d2[h[i]] = IF i = p THEN d[h[i]] + k ELSE d[h[i]]
    BY <1>4
  <2>3. U[i] = (IF i >= p THEN T[i] + k ELSE T[i]) /\ U[i - 1] = IF i - 1 >= p THEN T[i - 1] + k ELSE T[i - 1]
    BY <2>1
  <2> HIDE DEF U
  <2>4. CASE i = p
    BY <2>1, <2>2, <2>3, <2>4
  <2>5. CASE i < p
    BY <2>1, <2>2, <2>3, <2>5
  <2>6. CASE i > p
    BY <2>1, <2>2, <2>3, <2>6
  <2> QED BY <2>4, <2>5, <2>6
<1>12. ASSUME NEW i \in 0..n, NEW j \in 0..n, i <= j PROVE U[i] <= U[j]
  <2>1. T[i] <= T[j] /\ T[i] \in Nat /\ T[j] \in Nat
    BY <1>2, <1>12
  <2>2. i < p /\ j >= p => T[i] <= T[p - 1] /\ T[j] >= T[p]
    BY <1>8
  <2>3. U[i] = (IF i >= p THEN T[i] + k ELSE T[i]) /\ U[j] = IF j >= p THEN T[j] + k ELSE T[j]
    OBVIOUS
  <2> HIDE DEF U
  <2>4. CASE i < p /\ j >= p
    BY <2>1, <2>2, <2>3, <2>4, <1>6, <1>7
  <2>5. CASE ~ (i < p /\ j >= p)
    BY <2>1, <2>3, <2>5, <1>12
  <2> QED BY <2>4, <2>5
<1> HIDE DEF U
<1> QED BY ZenonT(40), <1>9, <1>10, <1>11, <1>12 DEF IsSum

LEMMA AheadIsNatural ==
  ASSUME NEW heads \in [Ids -> SndHeads], NEW peers \in [Ids -> RcvHeads],
         \A s \in Ids : RcvOk(peers[s], heads[s])
  PROVE  [s \in Ids |-> heads[s].sent_offset - peers[s].fin_offset] \in [Ids -> Nat]
<1> SUFFICES ASSUME NEW s \in Ids PROVE heads[s].sent_offset - peers[s].fin_offset \in Nat
  OBVIOUS
<1> DEFINE a == heads[s].sent_offset
           b == peers[s].fin_offset
<1>1. a \in Nat /\ b \in Nat /\ b <= a
  BY DEF SndHeads, RcvHeads, RcvOk
<1> HIDE DEF a, b
<1>2. a - b \in Nat
  BY <1>1
<1> QED BY <1>2 DEF a, b

-----------------------------------------------------------------------------

LEMMA FrameTypes ==
  ASSUME NEW f \in StreamFrames
  PROVE  /\ f.id \in Ids /\ f.offset \in Nat /\ f.length \in Nat /\ f.fin \in BOOLEAN
         /\ End(f) \in Nat /\ f.offset <= End(f) /\ End(f) = f.offset + f.length
BY DEF StreamFrames, End

LEMMA FramesAreTyped ==
  ASSUME StreamTypes
  PROVE  /\ \A n \in DOMAIN packets : packets[n] \in StreamFrames
         /\ \A i \in DOMAIN rtx_frames : rtx_frames[i] \in StreamFrames
         /\ queue \subseteq DOMAIN packets
BY DEF StreamTypes

LEMMA SentPacket ==
  ASSUME StreamTypes, NEW f \in StreamFrames, packets' = Append(packets, f)
  PROVE  /\ packets' \in Seq(StreamFrames) /\ Len(packets) + 1 \in DOMAIN packets'
         /\ DOMAIN packets = 1..Len(packets) /\ Len(packets) \in Nat
         /\ DOMAIN packets' = DOMAIN packets \cup {Len(packets) + 1}
         /\ Len(packets) + 1 \notin DOMAIN packets
         /\ \A n \in DOMAIN packets : packets'[n] = packets[n]
         /\ packets'[Len(packets) + 1] = f
<1>1. packets \in Seq(StreamFrames) /\ Len(packets) \in Nat /\ DOMAIN packets = 1..Len(packets)
  BY DEF StreamTypes
<1>2. packets' \in Seq(StreamFrames) /\ Len(packets') = Len(packets) + 1
  BY <1>1
<1>3. DOMAIN packets' = 1..(Len(packets) + 1)
  BY <1>2
<1>4. 1..(Len(packets) + 1) = 1..Len(packets) \cup {Len(packets) + 1}
  BY <1>1
<1>5. \A n \in 1..Len(packets) : packets'[n] = packets[n]
  BY <1>1
<1>6. packets'[Len(packets) + 1] = f
  BY <1>1
<1> QED BY <1>1, <1>2, <1>3, <1>4, <1>5, <1>6

-----------------------------------------------------------------------------

LEMMA QuietKeeps ==
  ASSUME StreamTypes, HeadsInv, StreamCredit, NEW s \in Ids, NEW st, QuietStep(s, st)
  PROVE  StreamTypes' /\ HeadsInv' /\ StreamCredit' /\ Advances
<1> USE DEF QuietStep, server
<1>1. Advances
  BY Zenon, OneAdvances
<1>2. StreamTypes'
  BY <1>1 DEF StreamTypes, Advances
<1>3. HeadsInv'
  <2>1. packets' = packets /\ rtx_frames' = rtx_frames
    OBVIOUS
  <2>2. packets \in Seq(StreamFrames) /\ rtx_frames \in Seq(StreamFrames) /\ rcv' = rcv
    BY DEF StreamTypes
  <2> QED BY <1>1, <2>1, <2>2, AdvanceKeepsHeads
<1>4. \A t \in Ids : snd'[t] = IF t = s THEN st ELSE snd[t]
  BY DEF StreamTypes
<1>5. \A t \in Ids : snd'[t].maxdata_remote <= rcv'[t].maxdata_local
  BY <1>4 DEF StreamCredit
<1>6. Ahead' = Ahead
  <2>1. \A t \in Ids : snd'[t].sent_offset = snd[t].sent_offset
    BY <1>4 DEF Keeps
  <2> QED BY <2>1 DEF Ahead
<1>7. StreamCredit'
  <2>1. snd_cnx' = snd_cnx /\ rcv_cnx' = rcv_cnx /\ control' = control /\ rcv' = rcv
    OBVIOUS
  <2>2. IsSum(Ahead', snd_cnx'.data_sent - rcv_cnx'.data_received)
    BY <1>6, <2>1 DEF StreamCredit
  <2> QED BY <1>5, <2>1, <2>2 DEF StreamCredit
<1> QED BY <1>1, <1>2, <1>3, <1>7

LEMMA DataKeeps ==
  ASSUME StreamTypes, HeadsInv, StreamCredit, NEW s \in Ids, NEW st, NEW n, NEW fin, DataStep(s, st, n, fin)
  PROVE  StreamTypes' /\ HeadsInv' /\ StreamCredit' /\ Advances
<1> DEFINE f == StreamFrame(s, snd[s].sent_offset, n, fin)
<1>0. /\ snd' = [snd EXCEPT ![s] = st] /\ packets' = Append(packets, f) /\ queue' = queue \cup {Len(packets) + 1}
      /\ snd_cnx' = [snd_cnx EXCEPT !.data_sent = @ + n, !.last_visited = s]
      /\ rtx_frames' = rtx_frames /\ rcv' = rcv /\ rcv_cnx' = rcv_cnx /\ arrived' = arrived /\ control' = control
  BY DEF DataStep, server, Send
<1>1. /\ n \in Nat /\ fin \in BOOLEAN /\ st \in SndHeads /\ SndOk(st) /\ Grows(snd[s], st)
      /\ st.sent_offset = snd[s].sent_offset + n /\ st.maxdata_remote = snd[s].maxdata_remote
      /\ ~ st.reset_sent /\ (fin => st.fin_sent)
      /\ snd_cnx.data_sent + n <= snd_cnx.maxdata_remote
  BY DEF DataStep, Sends
<1>2. f \in StreamFrames /\ f.id = s /\ f.fin = fin /\ f.type # "RESET_STREAM" /\ End(f) = snd[s].sent_offset + n
  <2>1. snd[s].sent_offset \in Nat
    BY DEF StreamTypes, SndHeads
  <2> QED BY <1>1, <2>1 DEF StreamFrame, StreamFrames, End
<1> HIDE DEF f
<1>3. Advances
  BY Zenon, <1>0, <1>1, OneAdvances
<1>4. \A t \in Ids : snd'[t] = IF t = s THEN st ELSE snd[t]
  BY <1>0 DEF StreamTypes
<1>5. FrameOk(f, snd'[f.id])
  <2>1. st.sent_offset \in Nat
    BY <1>1 DEF SndHeads
  <2> QED BY <1>1, <1>2, <1>4, <2>1 DEF FrameOk
<1>6. /\ packets' \in Seq(StreamFrames) /\ Len(packets) + 1 \in DOMAIN packets'
      /\ DOMAIN packets' = DOMAIN packets \cup {Len(packets) + 1}
      /\ \A k \in DOMAIN packets : packets'[k] = packets[k]
      /\ packets'[Len(packets) + 1] = f
  BY <1>0, <1>2, SentPacket
<1>7. HeadsInv'
  <2>1. rtx_frames' \in Seq(StreamFrames)
    BY <1>0 DEF StreamTypes
  <2>2. \A k \in DOMAIN packets' : (\E m \in DOMAIN packets : packets'[k] = packets[m])
                                     \/ FrameOk(packets'[k], snd'[packets'[k].id])
    BY <1>5, <1>6
  <2> QED BY <1>0, <1>3, <1>6, <2>1, <2>2, AdvanceKeepsHeads
<1>8. /\ snd_cnx' \in [maxdata_remote : Nat, data_sent : Nat, last_visited : Int]
      /\ snd_cnx'.data_sent = snd_cnx.data_sent + n /\ snd_cnx'.maxdata_remote = snd_cnx.maxdata_remote
  <2>1. snd_cnx \in [maxdata_remote : Nat, data_sent : Nat, last_visited : Int] /\ s \in Int
    BY StreamsAssumption DEF StreamTypes
  <2>2. snd_cnx.data_sent \in Nat
    BY <2>1
  <2>3. snd_cnx.data_sent + n \in Nat
    BY <1>1, <2>2
  <2> QED BY Zenon, <1>0, <2>1, <2>3
<1>9. StreamTypes'
  <2>1. queue' \subseteq DOMAIN packets' /\ arrived' \subseteq DOMAIN packets'
    BY <1>0, <1>6 DEF StreamTypes
  <2> QED BY <1>0, <1>3, <1>6, <1>8, <2>1 DEF StreamTypes, Advances
<1>10. IsSum(Ahead', snd_cnx'.data_sent - rcv_cnx'.data_received)
  <2> DEFINE total == snd_cnx.data_sent - rcv_cnx.data_received
  <2>1. total \in Int /\ IsSum(Ahead, total)
    BY DEF StreamTypes, StreamCredit
  <2>2. Ahead \in [Ids -> Nat]
    BY Zenon, AheadIsNatural DEF StreamTypes, HeadsInv, Ahead
  <2>3. Ahead' \in [Ids -> Nat]
    BY Zenon, <1>7, <1>9, AheadIsNatural DEF StreamTypes, HeadsInv, Ahead
  <2>4. \A t \in Ids : Ahead'[t] = IF t = s THEN Ahead[t] + n ELSE Ahead[t]
    <3> TAKE t \in Ids
    <3>1. Ahead[t] = snd[t].sent_offset - rcv[t].fin_offset
      BY DEF Ahead
    <3>2. Ahead'[t] = snd'[t].sent_offset - rcv[t].fin_offset
      BY <1>0 DEF Ahead
    <3>3. snd[t].sent_offset \in Nat /\ rcv[t].fin_offset \in Nat
      BY Zenon DEF StreamTypes, SndHeads, RcvHeads
    <3>4. snd'[t].sent_offset = IF t = s THEN snd[t].sent_offset + n ELSE snd[t].sent_offset
      BY <1>1, <1>4
    <3> QED BY <1>1, <3>1, <3>2, <3>3, <3>4
  <2>5. Ahead[s] + n >= 0 /\ n \in Int
    BY <1>1, <2>2
  <2> HIDE DEF total
  <2>6. IsSum(Ahead', total + n)
    BY <2>1, <2>2, <2>3, <2>4, <2>5, SumFollows
  <2>7. total + n = snd_cnx'.data_sent - rcv_cnx'.data_received
    <3>1. snd_cnx.data_sent \in Nat /\ rcv_cnx.data_received \in Nat
      BY DEF StreamTypes
    <3> QED BY <1>0, <1>1, <1>8, <3>1 DEF total
  <2> QED BY <2>6, <2>7
<1>11. StreamCredit'
  <2>1. \A t \in Ids : snd'[t].maxdata_remote <= rcv'[t].maxdata_local
    BY <1>0, <1>1, <1>4 DEF StreamCredit
  <2>2. snd_cnx'.data_sent <= snd_cnx'.maxdata_remote /\ snd_cnx'.maxdata_remote <= rcv_cnx'.maxdata_local
    BY <1>0, <1>1, <1>8 DEF StreamCredit
  <2>3. rcv_cnx'.data_received <= snd_cnx'.data_sent
    <3>1. snd_cnx.data_sent \in Nat /\ rcv_cnx.data_received \in Nat /\ rcv_cnx.data_received <= snd_cnx.data_sent
      BY DEF StreamTypes, StreamCredit
    <3> QED BY <1>0, <1>1, <1>8, <3>1
  <2> QED BY <1>0, <1>10, <2>1, <2>2, <2>3 DEF StreamCredit
<1> QED BY <1>3, <1>7, <1>9, <1>11

LEMMA ResetKeeps ==
  ASSUME StreamTypes, HeadsInv, StreamCredit, NEW s \in Ids, NEW st, ResetStep(s, st)
  PROVE  StreamTypes' /\ HeadsInv' /\ StreamCredit' /\ Advances
<1> DEFINE f == ResetFrame(s, snd[s].sent_offset)
<1>0. /\ snd' = [snd EXCEPT ![s] = st] /\ packets' = Append(packets, f) /\ queue' = queue \cup {Len(packets) + 1}
      /\ snd_cnx' = snd_cnx
      /\ rtx_frames' = rtx_frames /\ rcv' = rcv /\ rcv_cnx' = rcv_cnx /\ arrived' = arrived /\ control' = control
  BY DEF ResetStep, server, Send
<1>1. /\ st \in SndHeads /\ SndOk(st) /\ Grows(snd[s], st)
      /\ st.sent_offset = snd[s].sent_offset /\ st.reset_sent /\ st.maxdata_remote = snd[s].maxdata_remote
  BY DEF ResetStep
<1>2. f \in StreamFrames /\ f.id = s /\ ~ f.fin /\ f.length = 0 /\ f.offset = snd[s].sent_offset
      /\ End(f) = snd[s].sent_offset
  <2>1. snd[s].sent_offset \in Nat
    BY DEF StreamTypes, SndHeads
  <2> QED BY <2>1 DEF ResetFrame, StreamFrames, End
<1> HIDE DEF f
<1>3. Advances
  BY Zenon, <1>0, <1>1, OneAdvances
<1>4. \A t \in Ids : snd'[t] = IF t = s THEN st ELSE snd[t]
  BY <1>0 DEF StreamTypes
<1>5. FrameOk(f, snd'[f.id])
  <2>1. st.sent_offset \in Nat
    BY <1>1 DEF SndHeads
  <2> QED BY <1>1, <1>2, <1>4, <2>1 DEF FrameOk
<1>6. /\ packets' \in Seq(StreamFrames) /\ Len(packets) + 1 \in DOMAIN packets'
      /\ DOMAIN packets' = DOMAIN packets \cup {Len(packets) + 1}
      /\ \A k \in DOMAIN packets : packets'[k] = packets[k]
      /\ packets'[Len(packets) + 1] = f
  BY <1>0, <1>2, SentPacket
<1>7. HeadsInv'
  <2>1. rtx_frames' \in Seq(StreamFrames)
    BY <1>0 DEF StreamTypes
  <2>2. \A k \in DOMAIN packets' : (\E m \in DOMAIN packets : packets'[k] = packets[m])
                                     \/ FrameOk(packets'[k], snd'[packets'[k].id])
    BY <1>5, <1>6
  <2> QED BY <1>0, <1>3, <1>6, <2>1, <2>2, AdvanceKeepsHeads
<1>8. StreamTypes'
  <2>1. queue' \subseteq DOMAIN packets' /\ arrived' \subseteq DOMAIN packets'
    BY <1>0, <1>6 DEF StreamTypes
  <2> QED BY <1>0, <1>3, <1>6, <2>1 DEF StreamTypes, Advances
<1>9. Ahead' = Ahead
  <2>1. \A t \in Ids : snd'[t].sent_offset = snd[t].sent_offset
    BY <1>1, <1>4
  <2> QED BY <1>0, <2>1 DEF Ahead
<1>10. StreamCredit'
  <2>1. \A t \in Ids : snd'[t].maxdata_remote <= rcv'[t].maxdata_local
    BY <1>0, <1>1, <1>4 DEF StreamCredit
  <2>2. IsSum(Ahead', snd_cnx'.data_sent - rcv_cnx'.data_received)
    BY <1>0, <1>9 DEF StreamCredit
  <2> QED BY <1>0, <2>1, <2>2 DEF StreamCredit
<1> QED BY <1>3, <1>7, <1>8, <1>10

-----------------------------------------------------------------------------

LEMMA PartsOfFrame ==
  ASSUME NEW f \in StreamFrames, NEW room \in Nat, room > 0, f.length > room,
         NEW st \in SndHeads, FrameOk(f, st)
  PROVE  LET a == FirstPart(f, room)
             b == SecondPart(f, room)
         IN /\ a \in StreamFrames /\ b \in StreamFrames /\ FrameOk(a, st) /\ FrameOk(b, st)
            /\ a.id = f.id /\ b.id = f.id /\ a.type = "STREAM" /\ b.type = "STREAM" /\ f.type = "STREAM"
            /\ a.offset = f.offset /\ End(a) = f.offset + room /\ a.length = room /\ ~ a.fin
            /\ b.offset = f.offset + room /\ End(b) = End(f) /\ b.length = f.length - room /\ b.length > 0
            /\ b.fin = f.fin
<1> DEFINE a == FirstPart(f, room)
           b == SecondPart(f, room)
           o == f.offset
           l == f.length
           z == st.sent_offset
<1>1. o \in Nat /\ l \in Nat /\ z \in Nat /\ l > room /\ f.id \in Ids /\ f.fin \in BOOLEAN
  BY DEF StreamFrames, SndHeads
<1>2. o + l <= z /\ End(f) = o + l
  BY DEF FrameOk, End
<1>3. f.type = "STREAM"
  BY <1>1 DEF FrameOk, StreamFrames
<1>4. /\ a = [type |-> "STREAM", id |-> f.id, offset |-> o, length |-> room, fin |-> FALSE]
      /\ b = [type |-> "STREAM", id |-> f.id, offset |-> o + room, length |-> l - room, fin |-> f.fin]
  BY DEF FirstPart, SecondPart, StreamFrame
<1> HIDE DEF o, l, z
<1>5. o + room <= z /\ (o + room) + (l - room) = o + l /\ l - room \in Nat /\ l - room > 0 /\ o + room \in Nat
  BY <1>1, <1>2
<1>6. /\ a.id = f.id /\ a.type = "STREAM" /\ a.offset = o /\ a.length = room /\ ~ a.fin
      /\ b.id = f.id /\ b.type = "STREAM" /\ b.offset = o + room /\ b.length = l - room /\ b.fin = f.fin
  BY <1>4
<1>7. a \in StreamFrames /\ b \in StreamFrames
  BY <1>1, <1>4, <1>5 DEF StreamFrames
<1> HIDE DEF a, b
<1>8. End(a) = o + room /\ End(b) = End(f)
  BY <1>2, <1>5, <1>6 DEF End
<1>9. FrameOk(a, st)
  BY <1>5, <1>6, <1>8 DEF FrameOk, z
<1>10. FrameOk(b, st)
  BY <1>6, <1>8 DEF FrameOk
<1> QED BY <1>3, <1>5, <1>6, <1>7, <1>8, <1>9, <1>10 DEF a, b, o, l

LEMMA QueueOfParts ==
  ASSUME StreamTypes, NEW f \in StreamFrames, rtx_frames' = Append(rtx_frames, f)
  PROVE  /\ rtx_frames' \in Seq(StreamFrames)
         /\ DOMAIN rtx_frames' = DOMAIN rtx_frames \cup {Len(rtx_frames) + 1}
         /\ Len(rtx_frames) + 1 \notin DOMAIN rtx_frames
         /\ \A n \in DOMAIN rtx_frames : rtx_frames'[n] = rtx_frames[n]
         /\ rtx_frames'[Len(rtx_frames) + 1] = f
<1> DEFINE q == rtx_frames
<1>1. q \in Seq(StreamFrames) /\ Len(q) \in Nat /\ DOMAIN q = 1..Len(q)
  BY DEF StreamTypes
<1>2. q' \in Seq(StreamFrames) /\ Len(q') = Len(q) + 1
  BY <1>1
<1>3. DOMAIN q' = 1..(Len(q) + 1)
  BY <1>2
<1>4. 1..(Len(q) + 1) = 1..Len(q) \cup {Len(q) + 1} /\ Len(q) + 1 \notin 1..Len(q)
  BY <1>1
<1>5. \A n \in 1..Len(q) : q'[n] = q[n]
  BY <1>1
<1>6. q'[Len(q) + 1] = f
  BY <1>1
<1> QED BY <1>1, <1>2, <1>3, <1>4, <1>5, <1>6

LEMMA QueueIsServed ==
  ASSUME StreamTypes, rtx_frames # <<>>, rtx_frames' = Tail(rtx_frames)
  PROVE  /\ rtx_frames' \in Seq(StreamFrames) /\ Head(rtx_frames) = rtx_frames[1]
         /\ 1 \in DOMAIN rtx_frames /\ rtx_frames[1] \in StreamFrames
         /\ \A i \in DOMAIN rtx_frames' : /\ i + 1 \in DOMAIN rtx_frames /\ i + 1 # 1
                                          /\ rtx_frames'[i] = rtx_frames[i + 1]
         /\ \A i \in DOMAIN rtx_frames : i # 1 => i - 1 \in DOMAIN rtx_frames' /\ rtx_frames'[i - 1] = rtx_frames[i]
<1> DEFINE q == rtx_frames
<1>1. q \in Seq(StreamFrames) /\ Len(q) \in Nat /\ DOMAIN q = 1..Len(q) /\ Len(q) > 0
  BY DEF StreamTypes
<1>2. q' \in Seq(StreamFrames) /\ Len(q') = Len(q) - 1
  BY <1>1
<1>3. DOMAIN q' = 1..(Len(q) - 1)
  BY <1>2
<1>4. \A i \in 1..(Len(q) - 1) : i + 1 \in 1..Len(q) /\ i + 1 # 1 /\ q'[i] = q[i + 1]
  BY <1>1
<1>5. \A i \in 1..Len(q) : i # 1 => i - 1 \in 1..(Len(q) - 1) /\ (i - 1) + 1 = i
  BY <1>1
<1>6. Head(q) = q[1] /\ 1 \in 1..Len(q) /\ q[1] \in StreamFrames
  BY <1>1
<1> QED BY <1>1, <1>2, <1>3, <1>4, <1>5, <1>6

LEMMA RepeatKeeps ==
  ASSUME StreamTypes, HeadsInv, StreamCredit, RepeatStep
  PROVE  StreamTypes' /\ HeadsInv' /\ StreamCredit'
<1>0. snd' = snd /\ snd_cnx' = snd_cnx /\ rcv' = rcv /\ rcv_cnx' = rcv_cnx /\ arrived' = arrived /\ control' = control
  BY DEF RepeatStep, server
<1>1. Advances
  <2>1. \A s \in Ids : snd[s].sent_offset \in Nat
    BY DEF StreamTypes, SndHeads
  <2> QED BY <1>0, <2>1 DEF Advances, StreamTypes, HeadsInv, Grows
<1>2. StreamCredit'
  <2>1. Ahead' = Ahead
    BY <1>0 DEF Ahead
  <2> QED BY <1>0, <2>1 DEF StreamCredit
<1>3. ASSUME packets' \in Seq(StreamFrames), rtx_frames' \in Seq(StreamFrames),
             DOMAIN packets \subseteq DOMAIN packets', queue' \subseteq DOMAIN packets',
             \A n \in DOMAIN packets' : \/ \E m \in DOMAIN packets : packets'[n] = packets[m]
                                        \/ \E i \in DOMAIN rtx_frames : packets'[n] = rtx_frames[i]
                                        \/ FrameOk(packets'[n], snd'[packets'[n].id]),
             \A n \in DOMAIN rtx_frames' : \/ \E i \in DOMAIN rtx_frames : rtx_frames'[n] = rtx_frames[i]
                                           \/ FrameOk(rtx_frames'[n], snd'[rtx_frames'[n].id])
      PROVE  StreamTypes' /\ HeadsInv'
  <2>1. HeadsInv'
    BY <1>0, <1>1, <1>3, AdvanceKeepsHeads
  <2>2. StreamTypes'
    BY <1>0, <1>3 DEF StreamTypes
  <2> QED BY <2>1, <2>2
<1>4. packets \in Seq(StreamFrames) /\ rtx_frames \in Seq(StreamFrames) /\ queue \subseteq DOMAIN packets
  BY DEF StreamTypes
<1>5. ASSUME packets' = packets /\ rtx_frames' = rtx_frames /\ queue' \subseteq queue
      PROVE  StreamTypes' /\ HeadsInv'
  BY <1>3, <1>4, <1>5
<1>6. ASSUME NEW f \in StreamFrames, packets' = Append(packets, f), queue' \subseteq queue \cup {Len(packets) + 1},
             rtx_frames' \in Seq(StreamFrames),
             \/ \E m \in DOMAIN packets : f = packets[m]
             \/ \E i \in DOMAIN rtx_frames : f = rtx_frames[i]
             \/ FrameOk(f, snd[f.id]),
             \A n \in DOMAIN rtx_frames' : \/ \E i \in DOMAIN rtx_frames : rtx_frames'[n] = rtx_frames[i]
                                           \/ FrameOk(rtx_frames'[n], snd'[rtx_frames'[n].id])
      PROVE  StreamTypes' /\ HeadsInv'
  <2>1. /\ packets' \in Seq(StreamFrames)
        /\ DOMAIN packets' = DOMAIN packets \cup {Len(packets) + 1}
        /\ \A k \in DOMAIN packets : packets'[k] = packets[k]
        /\ packets'[Len(packets) + 1] = f
    BY <1>6, SentPacket
  <2>2. \A n \in DOMAIN packets' : \/ \E m \in DOMAIN packets : packets'[n] = packets[m]
                                   \/ \E i \in DOMAIN rtx_frames : packets'[n] = rtx_frames[i]
                                   \/ FrameOk(packets'[n], snd'[packets'[n].id])
    BY <1>0, <1>6, <2>1
  <2>3. queue' \subseteq DOMAIN packets' /\ DOMAIN packets \subseteq DOMAIN packets'
    BY <1>4, <1>6, <2>1
  <2> QED BY <1>3, <1>6, <2>1, <2>2, <2>3
<1>7. ASSUME NEW lost \in queue, NEW room \in Nat, GivenUp(lost, room) \/ SentAgain(lost) \/ SentInParts(lost, room)
      PROVE  StreamTypes' /\ HeadsInv'
  <2> DEFINE f == packets[lost]
  <2>1. lost \in DOMAIN packets /\ f \in StreamFrames /\ FrameOk(f, snd[f.id]) /\ snd[f.id] \in SndHeads
    <3>1. lost \in DOMAIN packets /\ f \in StreamFrames
      BY FramesAreTyped
    <3>2. f.id \in Ids
      BY <3>1, FrameTypes
    <3> QED BY <3>1, <3>2 DEF HeadsInv, StreamTypes
  <2>2. CASE GivenUp(lost, room)
    <3>1. packets' = packets /\ rtx_frames' = rtx_frames /\ queue' \subseteq queue
      BY <2>2 DEF GivenUp
    <3> QED BY <3>1, <1>5
  <2>3. CASE SentAgain(lost)
    <3>1. packets' = Append(packets, f) /\ queue' \subseteq queue \cup {Len(packets) + 1} /\ rtx_frames' = rtx_frames
      BY <2>3 DEF SentAgain
    <3> HIDE DEF f
    <3>2. \E m \in DOMAIN packets : f = packets[m]
      BY <2>1 DEF f
    <3> QED BY <1>4, <1>6, <2>1, <3>1, <3>2
  <2>4. CASE SentInParts(lost, room)
    <3> DEFINE a == FirstPart(f, room)
               b == SecondPart(f, room)
    <3>1. /\ packets' = Append(packets, a) /\ queue' \subseteq queue \cup {Len(packets) + 1}
          /\ rtx_frames' = Append(rtx_frames, b) /\ f.length > room /\ room > 0
      BY <2>4 DEF SentInParts
    <3>2. /\ a \in StreamFrames /\ b \in StreamFrames /\ FrameOk(a, snd[f.id]) /\ FrameOk(b, snd[f.id])
          /\ a.id = f.id /\ b.id = f.id
      BY <2>1, <3>1, PartsOfFrame
    <3> HIDE DEF a, b, f
    <3>3. /\ rtx_frames' \in Seq(StreamFrames)
          /\ \A n \in DOMAIN rtx_frames' : \/ \E i \in DOMAIN rtx_frames : rtx_frames'[n] = rtx_frames[i]
                                           \/ FrameOk(rtx_frames'[n], snd'[rtx_frames'[n].id])
      BY <1>0, <3>1, <3>2, QueueOfParts
    <3> QED BY <1>6, <3>1, <3>2, <3>3
  <2> QED BY <1>7, <2>2, <2>3, <2>4
<1>8. ASSUME Moved PROVE StreamTypes' /\ HeadsInv'
  <2> DEFINE f == rtx_frames[1]
  <2>1. /\ rtx_frames' \in Seq(StreamFrames) /\ f \in StreamFrames /\ 1 \in DOMAIN rtx_frames
        /\ packets' = Append(packets, f) /\ queue' = queue \cup {Len(packets) + 1}
        /\ \A i \in DOMAIN rtx_frames' : \E j \in DOMAIN rtx_frames : rtx_frames'[i] = rtx_frames[j]
    BY <1>8, QueueIsServed DEF Moved, Send
  <2>2. \E i \in DOMAIN rtx_frames : f = rtx_frames[i]
    BY <2>1
  <2> HIDE DEF f
  <2> QED BY <1>6, <2>1, <2>2
<1>9. ASSUME NEW n \in queue, Acked(n) PROVE StreamTypes' /\ HeadsInv'
  BY <1>5, <1>9 DEF Acked
<1>10. StreamTypes' /\ HeadsInv'
  BY <1>7, <1>8, <1>9 DEF RepeatStep
<1> QED BY <1>2, <1>10

-----------------------------------------------------------------------------

LEMMA CreditSuffices ==
  ASSUME StreamTypes, HeadsInv, StreamCredit, NEW f \in StreamFrames, FrameOk(f, snd[f.id]),
         End(f) > rcv[f.id].fin_offset
  PROVE  WithinCredit(rcv[f.id], End(f))
<1> DEFINE s == f.id
           st == snd[s]
           r == rcv[s]
           z == st.sent_offset
           e == End(f)
           o == r.fin_offset
           ds == snd_cnx.data_sent
           dr == rcv_cnx.data_received
           mr == snd_cnx.maxdata_remote
           ml == rcv_cnx.maxdata_local
           sr == st.maxdata_remote
           sl == r.maxdata_local
<1>1. s \in Ids /\ e \in Nat
  BY FrameTypes
<1>2. st \in SndHeads /\ r \in RcvHeads /\ SndOk(st)
  BY <1>1 DEF StreamTypes, HeadsInv
<1>3. z \in Nat /\ o \in Nat /\ sr \in Nat /\ sl \in Nat
  BY <1>2 DEF SndHeads, RcvHeads
<1>4. ds \in Nat /\ dr \in Nat /\ mr \in Nat /\ ml \in Nat
  BY DEF StreamTypes
<1>5. z <= sr /\ sr <= sl /\ e <= z /\ ds <= mr /\ mr <= ml
  BY <1>1, <1>2 DEF SndOk, StreamCredit, FrameOk
<1>6. z - o <= ds - dr
  <2>1. Ahead \in [Ids -> Nat]
    BY Zenon, AheadIsNatural DEF StreamTypes, HeadsInv, Ahead
  <2>2. IsSum(Ahead, ds - dr) /\ ds - dr \in Int
    BY <1>4 DEF StreamCredit
  <2>3. Ahead[s] = z - o
    BY <1>1 DEF Ahead
  <2> HIDE DEF ds, dr
  <2>4. Ahead[s] <= ds - dr
    <3> HIDE DEF s
    <3> QED BY <1>1, <2>1, <2>2, PartOfSum
  <2> QED BY <2>3, <2>4
<1> HIDE DEF z, e, o, ds, dr, mr, ml, sr, sl
<1>7. e <= sl /\ dr + (e - o) <= ml
  BY <1>1, <1>3, <1>4, <1>5, <1>6
<1> QED BY <1>7 DEF WithinCredit, z, e, o, ds, dr, mr, ml, sr, sl

LEMMA ArrivalKeeps ==
  ASSUME StreamTypes, HeadsInv, StreamCredit, NEW n \in DOMAIN packets, NEW r2, ArrivalStep(n, r2)
  PROVE  StreamTypes' /\ HeadsInv' /\ StreamCredit'
<1> DEFINE f == packets[n]
           s == f.id
           r == rcv[s]
           st == snd[s]
<1>1. f \in StreamFrames /\ FrameOk(f, st)
  BY FramesAreTyped DEF HeadsInv
<1>2. s \in Ids /\ End(f) \in Nat
  BY <1>1, FrameTypes
<1>3. r \in RcvHeads /\ st \in SndHeads /\ RcvOk(r, st)
  BY <1>2 DEF StreamTypes, HeadsInv
<1>4. /\ Takes(r, r2, st, f)
      /\ rcv' = [rcv EXCEPT ![s] = r2]
      /\ rcv_cnx' = [rcv_cnx EXCEPT !.data_received = @ + Counted(r, End(f))]
      /\ arrived' = arrived \cup {n}
      /\ snd' = snd /\ snd_cnx' = snd_cnx /\ packets' = packets /\ queue' = queue /\ rtx_frames' = rtx_frames
      /\ control' = control
  BY DEF ArrivalStep, client
<1>5. r2 \in RcvHeads /\ RcvOk(r2, st) /\ r2.maxdata_local = r.maxdata_local
  BY <1>4 DEF Takes
<1> DEFINE k == Counted(r, End(f))
<1>6. k \in Nat /\ r2.fin_offset = r.fin_offset + k /\ k <= st.sent_offset - r.fin_offset
  <2> DEFINE o == r.fin_offset
             e == End(f)
             z == st.sent_offset
  <2>1. o \in Nat /\ e \in Nat /\ z \in Nat /\ e <= z /\ o <= z
    BY Zenon, <1>1, <1>2, <1>3 DEF RcvHeads, SndHeads, FrameOk, RcvOk
  <2>2. k = (IF e > o THEN e - o ELSE 0) /\ r2.fin_offset = IF o >= e THEN o ELSE e
    BY <1>4 DEF Counted, Takes
  <2> HIDE DEF o, e, z, k
  <2>3. k \in Nat /\ r2.fin_offset = o + k /\ k <= z - o
    BY <2>1, <2>2
  <2> QED BY <2>3 DEF o, z
<1> HIDE DEF k
<1>7. \A t \in Ids : rcv'[t] = IF t = s THEN r2 ELSE rcv[t]
  BY <1>4 DEF StreamTypes
<1>8. rcv' \in [Ids -> RcvHeads]
  BY Zenon, <1>4, <1>5 DEF StreamTypes
<1>9. /\ rcv_cnx' \in [maxdata_local : Nat, data_received : Nat, error : BOOLEAN]
      /\ rcv_cnx'.data_received = rcv_cnx.data_received + k /\ rcv_cnx'.maxdata_local = rcv_cnx.maxdata_local
  <2>1. rcv_cnx \in [maxdata_local : Nat, data_received : Nat, error : BOOLEAN]
    BY DEF StreamTypes
  <2>2. rcv_cnx.data_received \in Nat
    BY <2>1
  <2>3. rcv_cnx.data_received + k \in Nat
    BY <1>6, <2>2
  <2>4. rcv_cnx' = [rcv_cnx EXCEPT !.data_received = rcv_cnx.data_received + k]
    BY <1>4 DEF k
  <2> QED BY <2>1, <2>3, <2>4
<1>10. StreamTypes'
  <2>1. arrived' \subseteq DOMAIN packets
    BY <1>4 DEF StreamTypes
  <2> QED BY <1>4, <1>8, <1>9, <2>1 DEF StreamTypes
<1>11. HeadsInv'
  <2>1. \A t \in Ids : SndOk(snd'[t]) /\ RcvOk(rcv'[t], snd'[t])
    BY <1>4, <1>5, <1>7 DEF HeadsInv
  <2> QED BY <1>4, <2>1 DEF HeadsInv
<1>12. IsSum(Ahead', snd_cnx'.data_sent - rcv_cnx'.data_received)
  <2> DEFINE total == snd_cnx.data_sent - rcv_cnx.data_received
  <2>0. snd_cnx.data_sent \in Nat /\ rcv_cnx.data_received \in Nat
    BY DEF StreamTypes
  <2>1. total \in Int /\ IsSum(Ahead, total)
    BY <2>0 DEF StreamCredit
  <2>2. Ahead \in [Ids -> Nat]
    BY Zenon, AheadIsNatural DEF StreamTypes, HeadsInv, Ahead
  <2>3. Ahead' \in [Ids -> Nat]
    BY ZenonT(40), <1>10, <1>11, AheadIsNatural DEF StreamTypes, HeadsInv, Ahead
  <2>4. \A t \in Ids : Ahead'[t] = IF t = s THEN Ahead[t] + (-k) ELSE Ahead[t]
    <3> TAKE t \in Ids
    <3>1. Ahead[t] = snd[t].sent_offset - rcv[t].fin_offset
      BY DEF Ahead
    <3>2. Ahead'[t] = snd[t].sent_offset - rcv'[t].fin_offset
      BY <1>4 DEF Ahead
    <3>3. snd[t].sent_offset \in Nat /\ rcv[t].fin_offset \in Nat
      BY DEF StreamTypes, SndHeads, RcvHeads
    <3>4. rcv'[t].fin_offset = IF t = s THEN rcv[t].fin_offset + k ELSE rcv[t].fin_offset
      BY <1>6, <1>7
    <3> QED BY <1>6, <3>1, <3>2, <3>3, <3>4
  <2>5. Ahead[s] + (-k) >= 0 /\ -k \in Int
    <3>1. Ahead[s] = st.sent_offset - r.fin_offset
      BY <1>2 DEF Ahead
    <3>2. Ahead[s] \in Nat
      BY <1>2, <2>2
    <3> QED BY <1>6, <3>1, <3>2
  <2> HIDE DEF total
  <2> DEFINE m == -k
  <2>6. m \in Int /\ Ahead[s] + m >= 0 /\ \A t \in Ids : Ahead'[t] = IF t = s THEN Ahead[t] + m ELSE Ahead[t]
    BY <2>4, <2>5
  <2>7. total + m = snd_cnx'.data_sent - rcv_cnx'.data_received
    BY <1>4, <1>6, <1>9, <2>0 DEF total
  <2> HIDE DEF m, s
  <2>8. IsSum(Ahead', total + m)
    BY <1>2, <2>1, <2>2, <2>3, <2>6, SumFollows
  <2> QED BY <2>7, <2>8
<1>13. rcv_cnx'.data_received <= snd_cnx'.data_sent
  <2> DEFINE total == snd_cnx.data_sent - rcv_cnx.data_received
  <2>0. snd_cnx.data_sent \in Nat /\ rcv_cnx.data_received \in Nat
    BY DEF StreamTypes
  <2>1. total \in Int /\ IsSum(Ahead, total)
    BY <2>0 DEF StreamCredit
  <2>2. Ahead \in [Ids -> Nat]
    BY AheadIsNatural DEF StreamTypes, HeadsInv, Ahead
  <2>3. Ahead[s] = st.sent_offset - r.fin_offset /\ Ahead[s] \in Nat
    BY <1>2, <2>2 DEF Ahead
  <2>4. Ahead[s] <= total
    <3> HIDE DEF total, s
    <3> QED BY <1>2, <2>1, <2>2, PartOfSum
  <2> QED BY <1>4, <1>6, <1>9, <2>0, <2>3, <2>4
<1>14. StreamCredit'
  <2>1. \A t \in Ids : rcv'[t].maxdata_local = rcv[t].maxdata_local
    BY <1>5, <1>7
  <2>2. \A t \in Ids : snd'[t].maxdata_remote <= rcv'[t].maxdata_local
    BY <1>4, <2>1 DEF StreamCredit
  <2>3. \A g \in control' : /\ g.type = "MAX_DATA" => g.value <= rcv_cnx'.maxdata_local
                            /\ g.type = "MAX_STREAM_DATA" => g.value <= rcv'[g.id].maxdata_local
    <3> SUFFICES ASSUME NEW g \in control
                 PROVE  /\ g.type = "MAX_DATA" => g.value <= rcv_cnx'.maxdata_local
                        /\ g.type = "MAX_STREAM_DATA" => g.value <= rcv'[g.id].maxdata_local
      BY <1>4
    <3>1. g.type = "MAX_STREAM_DATA" => g.id \in Ids
      BY DEF StreamTypes, ControlFrames
    <3> QED BY <1>9, <2>1, <3>1 DEF StreamCredit
  <2> QED BY <1>4, <1>9, <1>12, <1>13, <2>2, <2>3 DEF StreamCredit
<1> QED BY <1>10, <1>11, <1>14

LEMMA GrantKeeps ==
  ASSUME StreamTypes, HeadsInv, StreamCredit, GrantStep
  PROVE  StreamTypes' /\ HeadsInv' /\ StreamCredit'
<1>1. /\ snd' = snd /\ snd_cnx' = snd_cnx /\ packets' = packets /\ queue' = queue /\ rtx_frames' = rtx_frames
      /\ arrived' = arrived
  BY DEF GrantStep, client
<1>2. StreamTypes'
  BY <1>1 DEF GrantStep, StreamTypes
<1>3. \A s \in Ids : RcvOk(rcv'[s], snd[s])
  BY ZenonT(40) DEF GrantStep, SameBytes, HeadsInv, RcvOk
<1>4. HeadsInv'
  BY Zenon, <1>1, <1>3 DEF HeadsInv
<1>5. Ahead' = Ahead
  BY <1>1 DEF Ahead, GrantStep, SameBytes
<1>6. \A s \in Ids : /\ snd[s].maxdata_remote \in Nat /\ rcv[s].maxdata_local \in Nat /\ rcv'[s].maxdata_local \in Nat
                     /\ rcv[s].maxdata_local <= rcv'[s].maxdata_local
  BY DEF StreamTypes, GrantStep, SndHeads, RcvHeads, SameBytes
<1>7. \A s \in Ids : snd'[s].maxdata_remote <= rcv'[s].maxdata_local
  BY <1>1, <1>6 DEF StreamCredit
<1>8. /\ snd_cnx.maxdata_remote \in Nat /\ rcv_cnx.maxdata_local \in Nat /\ rcv_cnx'.maxdata_local \in Nat
      /\ rcv_cnx.maxdata_local <= rcv_cnx'.maxdata_local /\ snd_cnx.maxdata_remote <= rcv_cnx.maxdata_local
  BY DEF StreamTypes, GrantStep, StreamCredit
<1>9. \A g \in control' : /\ g.type = "MAX_DATA" => g.value <= rcv_cnx'.maxdata_local
                          /\ g.type = "MAX_STREAM_DATA" => g.value <= rcv'[g.id].maxdata_local
  <2> TAKE g \in control'
  <2>1. g.value \in Nat /\ (g.type = "MAX_STREAM_DATA" => g.id \in Ids)
    BY DEF GrantStep, ControlFrames
  <2>2. CASE g \in control
    BY <1>6, <1>8, <2>1, <2>2 DEF StreamCredit
  <2>3. CASE g \notin control
    BY <1>6, <1>8, <2>1, <2>3 DEF GrantStep
  <2> QED BY <2>2, <2>3
<1>10. StreamCredit'
  <2>1. IsSum(Ahead', snd_cnx'.data_sent - rcv_cnx'.data_received)
    BY <1>1, <1>5 DEF StreamCredit, GrantStep
  <2>2. snd_cnx'.data_sent <= snd_cnx'.maxdata_remote /\ rcv_cnx'.data_received <= snd_cnx'.data_sent
    BY <1>1 DEF StreamCredit, GrantStep
  <2>3. snd_cnx'.maxdata_remote <= rcv_cnx'.maxdata_local
    BY <1>1, <1>8
  <2> QED BY <1>7, <1>9, <2>1, <2>2, <2>3 DEF StreamCredit
<1> QED BY <1>2, <1>4, <1>10

LEMMA MaxDataKeeps ==
  ASSUME StreamTypes, HeadsInv, StreamCredit, NEW f \in control, process_max_data_frame(f)
  PROVE  StreamTypes' /\ HeadsInv' /\ StreamCredit'
<1>1. /\ snd' = snd /\ packets' = packets /\ queue' = queue /\ rtx_frames' = rtx_frames
      /\ rcv' = rcv /\ rcv_cnx' = rcv_cnx /\ arrived' = arrived /\ control' = control
      /\ snd_cnx' = [snd_cnx EXCEPT !.maxdata_remote = f.value]
      /\ f.value > snd_cnx.maxdata_remote /\ f.type = "MAX_DATA"
  BY DEF process_max_data_frame, server
<1>2. f.value \in Nat /\ f.value <= rcv_cnx.maxdata_local
  BY <1>1 DEF StreamTypes, ControlFrames, StreamCredit
<1>3. snd_cnx \in [maxdata_remote : Nat, data_sent : Nat, last_visited : Int]
  BY DEF StreamTypes
<1>4. /\ snd_cnx' \in [maxdata_remote : Nat, data_sent : Nat, last_visited : Int]
      /\ snd_cnx'.maxdata_remote = f.value /\ snd_cnx'.data_sent = snd_cnx.data_sent
  BY <1>1, <1>2, <1>3
<1>5. snd_cnx.data_sent \in Nat /\ snd_cnx.maxdata_remote \in Nat
  BY <1>3
<1>6. StreamTypes'
  BY <1>1, <1>4 DEF StreamTypes
<1>7. HeadsInv'
  BY <1>1 DEF HeadsInv
<1>8. Ahead' = Ahead
  BY <1>1 DEF Ahead
<1>9. snd_cnx'.data_sent <= snd_cnx'.maxdata_remote
  <2>1. snd_cnx.data_sent <= snd_cnx.maxdata_remote
    BY DEF StreamCredit
  <2> QED BY <1>1, <1>2, <1>4, <1>5, <2>1
<1>10. StreamCredit'
  <2>1. IsSum(Ahead', snd_cnx'.data_sent - rcv_cnx'.data_received)
    BY <1>1, <1>4, <1>8 DEF StreamCredit
  <2> QED BY <1>1, <1>2, <1>4, <1>9, <2>1 DEF StreamCredit
<1> QED BY <1>6, <1>7, <1>10

-----------------------------------------------------------------------------

(***************************************************************************)
(* The frames that wait for an acknowledgement.                             *)
(***************************************************************************)
Inside(a, f) == a.id = f.id /\ f.offset <= a.offset /\ End(a) <= End(f)

LEMMA ApartBothWays ==
  ASSUME NEW f, NEW g, Apart(f, g)
  PROVE  Apart(g, f)
BY DEF Apart

LEMMA WithinItself ==
  ASSUME NEW f \in StreamFrames
  PROVE  Within(f, f)
BY FrameTypes DEF Within

LEMMA InsideKeeps ==
  ASSUME NEW a \in StreamFrames, NEW f \in StreamFrames, Inside(a, f), f.length > 0
  PROVE  /\ \A g \in StreamFrames : (Apart(f, g) => Apart(a, g)) /\ (Within(f, g) => Within(a, g))
         /\ \A r : Whole(f, r) => Whole(a, r)
         /\ Bytes(a) \subseteq Bytes(f)
<1> DEFINE x == a.offset
           e == End(a)
           y == f.offset
           z == End(f)
<1>1. x \in Nat /\ e \in Nat /\ y \in Nat /\ z \in Nat /\ a.length \in Nat /\ f.length \in Nat
  BY FrameTypes
<1>2. y <= x /\ e <= z /\ a.id = f.id
  BY DEF Inside
<1>3. Bytes(a) \subseteq Bytes(f)
  <2>1. Bytes(a) = x..(e - 1) /\ Bytes(f) = y..(z - 1)
    BY DEF Bytes
  <2> HIDE DEF x, e, y, z
  <2> QED BY <1>1, <1>2, <2>1
<1>4. \A r : Whole(f, r) => Whole(a, r)
  BY <1>3 DEF Whole
<1>5. ASSUME NEW g \in StreamFrames
      PROVE  (Apart(f, g) => Apart(a, g)) /\ (Within(f, g) => Within(a, g))
  <2> DEFINE u == g.offset
             v == End(g)
  <2>1. u \in Nat /\ v \in Nat
    BY FrameTypes
  <2>2. Apart(f, g) <=> (f.id = g.id /\ g.length > 0 => z <= u \/ v <= y)
    BY DEF Apart
  <2>3. Apart(a, g) <=> (a.id = g.id /\ a.length > 0 /\ g.length > 0 => e <= u \/ v <= x)
    BY DEF Apart
  <2>4. Within(f, g) <=> f.id = g.id /\ u <= y /\ z <= v
    BY DEF Within
  <2>5. Within(a, g) <=> (a.length > 0 => a.id = g.id /\ u <= x /\ e <= v)
    BY DEF Within
  <2> HIDE DEF x, e, y, z, u, v
  <2> QED BY <1>1, <1>2, <2>1, <2>2, <2>3, <2>4, <2>5
<1> QED BY <1>3, <1>4, <1>5

(***************************************************************************)
(* Steps that change no frame, and leave what the server holds.             *)
(***************************************************************************)
LEMMA SameFramesStayLive ==
  ASSUME StreamTypes, LiveInv, packets' = packets, rtx_frames' = rtx_frames, arrived' = arrived,
         queue' \subseteq queue,
         \A s \in Ids : Held(rcv'[s]) = Held(rcv[s]) /\ rcv'[s].fin_received = rcv[s].fin_received
  PROVE  LiveInv'
<1>1. /\ \A n \in queue : packets[n] \in StreamFrames /\ packets[n].id \in Ids
      /\ \A i \in DOMAIN rtx_frames : rtx_frames[i] \in StreamFrames /\ rtx_frames[i].id \in Ids
  BY FramesAreTyped, FrameTypes
<1>2. ASSUME NEW f, f.id \in Ids, Live(f)
      PROVE  /\ Whole(f, rcv'[f.id])
             /\ \A n \in DOMAIN packets' : Within(f, packets'[n]) \/ Apart(f, packets'[n])
  BY Zenon, <1>2 DEF Live, Whole
<1>3. \A m \in queue' : Live(packets[m])'
  BY Zenon, <1>1, <1>2 DEF LiveInv, Live
<1>4. \A i \in DOMAIN rtx_frames' : Live(rtx_frames[i])'
  BY Zenon, <1>1, <1>2 DEF LiveInv, Live
<1>5. \A n \in queue' \cap arrived' : /\ Bytes(packets'[n]) \subseteq Held(rcv'[packets'[n].id])
                                      /\ packets'[n].fin => rcv'[packets'[n].id].fin_received
  BY <1>1 DEF LiveInv
<1> QED BY Zenon, <1>3, <1>4, <1>5 DEF LiveInv

(***************************************************************************)
(* A packet more: its frame is live already, and apart from the others.     *)
(***************************************************************************)
LEMMA JoinsTheLive ==
  ASSUME StreamTypes, LiveInv, NEW g \in StreamFrames, packets' = Append(packets, g),
         rcv' = rcv, arrived' = arrived,
         NEW Q \in SUBSET queue, queue' = Q \cup {Len(packets) + 1},
         rtx_frames' \in Seq(StreamFrames),
         \A i \in DOMAIN rtx_frames' : Live(rtx_frames'[i]) /\ Apart(g, rtx_frames'[i]),
         \A i, j \in DOMAIN rtx_frames' : i # j => Apart(rtx_frames'[i], rtx_frames'[j]),
         \A m \in Q, i \in DOMAIN rtx_frames' : Apart(packets[m], rtx_frames'[i]),
         Live(g), \A m \in Q : Apart(g, packets[m])
  PROVE  LiveInv'
<1> DEFINE N == Len(packets) + 1
<1>1. /\ DOMAIN packets' = DOMAIN packets \cup {N} /\ N \notin DOMAIN packets
      /\ \A n \in DOMAIN packets : packets'[n] = packets[n]
      /\ packets'[N] = g
  BY Zenon, SentPacket
<1>2. queue \subseteq DOMAIN packets /\ arrived \subseteq DOMAIN packets
  BY Zenon DEF StreamTypes
<1> HIDE DEF N
<1>3. queue' = Q \cup {N} /\ \A m \in Q : m \in DOMAIN packets /\ m # N /\ m \in queue /\ packets'[m] = packets[m]
  BY <1>1, <1>2 DEF N
<1>4. ASSUME NEW f, Live(f), Apart(f, g) \/ f = g
      PROVE  /\ Whole(f, rcv'[f.id])
             /\ \A n \in DOMAIN packets' : Within(f, packets'[n]) \/ Apart(f, packets'[n])
  <2>1. Within(g, g)
    BY WithinItself
  <2> QED BY Zenon, <1>1, <1>4, <2>1 DEF Live
<1>5. \A m \in Q : Live(packets[m]) /\ Apart(packets[m], g)
  BY Zenon, <1>3, ApartBothWays DEF LiveInv
<1>6. \A m \in queue' : Live(packets[m])'
  <2> SUFFICES ASSUME NEW m \in queue'
               PROVE  /\ Whole(packets'[m], rcv'[packets'[m].id])
                      /\ \A n \in DOMAIN packets' : Within(packets'[m], packets'[n]) \/ Apart(packets'[m], packets'[n])
    BY Zenon DEF Live
  <2>1. CASE m \in Q
    BY Zenon, <1>3, <1>4, <1>5, <2>1
  <2>2. CASE m = N
    BY Zenon, <1>1, <1>4, <2>2
  <2> QED BY <1>3, <2>1, <2>2
<1>7. \A i \in DOMAIN rtx_frames' : Live(rtx_frames[i])'
  <2> SUFFICES ASSUME NEW i \in DOMAIN rtx_frames'
               PROVE  /\ Whole(rtx_frames'[i], rcv'[rtx_frames'[i].id])
                      /\ \A n \in DOMAIN packets' : Within(rtx_frames'[i], packets'[n]) \/ Apart(rtx_frames'[i], packets'[n])
    BY DEF Live
  <2>1. Live(rtx_frames'[i]) /\ Apart(rtx_frames'[i], g)
    BY ApartBothWays
  <2> QED BY Zenon, <1>4, <2>1
<1>8. \A m, n \in queue' : m # n => Apart(packets'[m], packets'[n])
  <2>1. \A m, n \in Q : m # n => Apart(packets'[m], packets'[n])
    BY <1>3 DEF LiveInv
  <2>2. \A m \in Q : Apart(packets'[m], packets'[N]) /\ Apart(packets'[N], packets'[m])
    BY <1>1, <1>3, <1>5
  <2> QED BY Zenon, <1>3, <2>1, <2>2
<1>9. \A n \in queue', i \in DOMAIN rtx_frames' : Apart(packets'[n], rtx_frames'[i])
  BY Zenon, <1>1, <1>3
<1>10. \A n \in queue' \cap arrived' : /\ Bytes(packets'[n]) \subseteq Held(rcv'[packets'[n].id])
                                       /\ packets'[n].fin => rcv'[packets'[n].id].fin_received
  <2> TAKE n \in queue' \cap arrived'
  <2>1. n \in Q /\ n \in queue \cap arrived
    BY <1>1, <1>2, <1>3
  <2>2. packets'[n] = packets[n]
    BY <1>3, <2>1
  <2> QED BY Zenon, <2>1, <2>2 DEF LiveInv
<1> QED BY Zenon, <1>6, <1>7, <1>8, <1>9, <1>10 DEF LiveInv

(***************************************************************************)
(* A frame that starts where the stream ended so far.                       *)
(***************************************************************************)
LEMMA FreshIsLive ==
  ASSUME StreamTypes, HeadsInv, NEW g \in StreamFrames, g.offset = snd[g.id].sent_offset
  PROVE  /\ Live(g)
         /\ \A n \in DOMAIN packets : Apart(g, packets[n])
         /\ \A i \in DOMAIN rtx_frames : Apart(g, rtx_frames[i])
<1>1. ASSUME NEW f \in StreamFrames, FrameOk(f, snd[f.id]) PROVE Apart(g, f)
  <2> DEFINE e == End(f)
             x == g.offset
  <2>1. e \in Nat /\ x \in Nat
    BY FrameTypes
  <2>2. f.id = g.id => e <= x
    BY <1>1 DEF FrameOk
  <2> QED BY <2>2 DEF Apart
<1>2. \A n \in DOMAIN packets : Apart(g, packets[n])
  BY Zenon, <1>1, FramesAreTyped DEF HeadsInv
<1>3. \A i \in DOMAIN rtx_frames : Apart(g, rtx_frames[i])
  BY <1>1, FramesAreTyped DEF HeadsInv
<1>4. Whole(g, rcv[g.id])
  <2> DEFINE x == g.offset
             e == End(g)
             H == Held(rcv[g.id])
  <2>1. x \in Nat /\ e \in Nat /\ g.id \in Ids
    BY FrameTypes
  <2>2. H \subseteq 0..(x - 1)
    BY Zenon, <2>1 DEF HeadsInv, RcvOk, HeldBy, Held
  <2>3. Bytes(g) = x..(e - 1)
    BY DEF Bytes
  <2>4. Whole(g, rcv[g.id]) <=> (Bytes(g) \subseteq H \/ Bytes(g) \cap H = {})
    BY DEF Whole
  <2> HIDE DEF x, e, H
  <2>5. Bytes(g) \cap H = {}
    BY <2>1, <2>2, <2>3
  <2> QED BY <2>4, <2>5
<1> QED BY <1>2, <1>3, <1>4 DEF Live

LEMMA FreshKeepsLive ==
  ASSUME StreamTypes, HeadsInv, LiveInv, NEW g \in StreamFrames, g.offset = snd[g.id].sent_offset, Send(g),
         rcv' = rcv, arrived' = arrived, rtx_frames' = rtx_frames
  PROVE  LiveInv'
<1>1. /\ Live(g)
      /\ \A n \in DOMAIN packets : Apart(g, packets[n])
      /\ \A i \in DOMAIN rtx_frames : Apart(g, rtx_frames[i])
  BY FreshIsLive
<1>2. packets' = Append(packets, g) /\ queue' = queue \cup {Len(packets) + 1}
  BY DEF Send
<1>3. rtx_frames' \in Seq(StreamFrames) /\ queue \in SUBSET queue /\ queue \subseteq DOMAIN packets
  BY DEF StreamTypes
<1>4. /\ \A i \in DOMAIN rtx_frames' : Live(rtx_frames'[i]) /\ Apart(g, rtx_frames'[i])
      /\ \A i, j \in DOMAIN rtx_frames' : i # j => Apart(rtx_frames'[i], rtx_frames'[j])
      /\ \A m \in queue, i \in DOMAIN rtx_frames' : Apart(packets[m], rtx_frames'[i])
      /\ \A m \in queue : Apart(g, packets[m])
  BY Zenon, <1>1, <1>3 DEF LiveInv
<1> QED BY Zenon, <1>1, <1>2, <1>3, <1>4, JoinsTheLive

LEMMA RepeatKeepsLive ==
  ASSUME StreamTypes, HeadsInv, LiveInv, RepeatStep
  PROVE  LiveInv'
<1>0. snd' = snd /\ rcv' = rcv /\ arrived' = arrived
  BY DEF RepeatStep, server
<1>1. ASSUME queue' \subseteq queue, packets' = packets, rtx_frames' = rtx_frames PROVE LiveInv'
  BY <1>0, <1>1, SameFramesStayLive
<1>2. ASSUME NEW lost \in queue, SentAgain(lost) PROVE LiveInv'
  <2> DEFINE g == packets[lost]
             Q == queue \ {lost}
  <2>1. g \in StreamFrames /\ rtx_frames' \in Seq(StreamFrames) /\ rtx_frames' = rtx_frames
    BY <1>2, FramesAreTyped DEF SentAgain, StreamTypes
  <2>2. /\ packets' = Append(packets, g) /\ Q \in SUBSET queue /\ queue' = Q \cup {Len(packets) + 1}
    BY Zenon, <1>2 DEF SentAgain
  <2>3. /\ \A i \in DOMAIN rtx_frames' : Live(rtx_frames'[i]) /\ Apart(g, rtx_frames'[i])
        /\ \A i, j \in DOMAIN rtx_frames' : i # j => Apart(rtx_frames'[i], rtx_frames'[j])
        /\ \A m \in Q, i \in DOMAIN rtx_frames' : Apart(packets[m], rtx_frames'[i])
        /\ Live(g) /\ \A m \in Q : Apart(g, packets[m])
    BY <2>1 DEF LiveInv
  <2> HIDE DEF g, Q
  <2> QED BY Zenon, <1>0, <2>1, <2>2, <2>3, JoinsTheLive
<1>3. ASSUME NEW lost \in queue, NEW room \in Nat, SentInParts(lost, room) PROVE LiveInv'
  <2> DEFINE f == packets[lost]
             a == FirstPart(f, room)
             b == SecondPart(f, room)
             Q == queue \ {lost}
             L == Len(rtx_frames) + 1
  <2>1. f \in StreamFrames /\ FrameOk(f, snd[f.id]) /\ snd[f.id] \in SndHeads
    BY FramesAreTyped, FrameTypes DEF HeadsInv, StreamTypes
  <2>2. f.length > room /\ room > 0
    BY Zenon, <1>3 DEF SentInParts
  <2>3. /\ a \in StreamFrames /\ b \in StreamFrames
        /\ a.id = f.id /\ b.id = f.id /\ f.type = "STREAM"
        /\ a.offset = f.offset /\ End(a) = f.offset + room /\ a.length = room
        /\ b.offset = f.offset + room /\ End(b) = End(f) /\ b.length = f.length - room /\ b.length > 0
    <3> HIDE DEF f
    <3> QED BY <2>1, <2>2, PartsOfFrame
  <2>4. f.offset \in Nat /\ f.length \in Nat /\ End(f) = f.offset + f.length
    BY <2>1, FrameTypes
  <2>5. /\ packets' = Append(packets, a) /\ rtx_frames' = Append(rtx_frames, b)
        /\ Q \in SUBSET queue /\ queue' = Q \cup {Len(packets) + 1}
    BY <1>3 DEF SentInParts
  <2>6. Live(f) /\ (\A m \in Q : Apart(f, packets[m])) /\ \A i \in DOMAIN rtx_frames : Apart(f, rtx_frames[i])
    BY DEF LiveInv
  <2> HIDE DEF f, a, b
  <2>7. Inside(a, f) /\ Inside(b, f) /\ f.length > 0
    BY <2>2, <2>3, <2>4 DEF Inside
  <2>8. Apart(a, b)
    BY <2>2, <2>3, <2>4 DEF Apart
  <2>9. \A m \in DOMAIN packets : packets[m] \in StreamFrames
    BY FramesAreTyped
  <2>10. \A i \in DOMAIN rtx_frames : rtx_frames[i] \in StreamFrames
    BY FramesAreTyped
  <2>11. ASSUME NEW c \in StreamFrames, Inside(c, f)
         PROVE  /\ Live(c) /\ \A m \in Q : Apart(c, packets[m])
                /\ \A i \in DOMAIN rtx_frames : Apart(c, rtx_frames[i])
    <3>1. /\ \A g \in StreamFrames : (Apart(f, g) => Apart(c, g)) /\ (Within(f, g) => Within(c, g))
          /\ \A r : Whole(f, r) => Whole(c, r)
      BY Zenon, <2>1, <2>7, <2>11, InsideKeeps
    <3>2. c.id = f.id /\ queue \subseteq DOMAIN packets
      BY <2>11 DEF Inside, StreamTypes
    <3>3. Live(c)
      BY <2>6, <2>9, <3>1, <3>2 DEF Live
    <3> QED BY <2>6, <2>9, <2>10, <3>1, <3>2, <3>3
  <2>12. /\ rtx_frames' \in Seq(StreamFrames)
         /\ DOMAIN rtx_frames' = DOMAIN rtx_frames \cup {L}
         /\ L \notin DOMAIN rtx_frames
         /\ \A n \in DOMAIN rtx_frames : rtx_frames'[n] = rtx_frames[n]
         /\ rtx_frames'[L] = b
    BY <2>3, <2>5, QueueOfParts
  <2> HIDE DEF L, Q
  <2>13. \A i \in DOMAIN rtx_frames' : Live(rtx_frames'[i]) /\ Apart(a, rtx_frames'[i])
    BY Zenon, <2>3, <2>7, <2>8, <2>11, <2>12 DEF LiveInv
  <2>14. \A i \in DOMAIN rtx_frames : Apart(b, rtx_frames[i]) /\ Apart(rtx_frames[i], b)
    BY Zenon, <2>3, <2>7, <2>11, ApartBothWays
  <2>15. \A i, j \in DOMAIN rtx_frames' : i # j => Apart(rtx_frames'[i], rtx_frames'[j])
    BY Zenon, <2>12, <2>14 DEF LiveInv
  <2>16. \A m \in Q : Apart(packets[m], b)
    BY <2>3, <2>7, <2>11, ApartBothWays
  <2>17. \A m \in Q, i \in DOMAIN rtx_frames' : Apart(packets[m], rtx_frames'[i])
    BY Zenon, <2>5, <2>12, <2>16 DEF LiveInv
  <2>18. Live(a) /\ \A m \in Q : Apart(a, packets[m])
    BY <2>3, <2>7, <2>11
  <2> QED BY Zenon, <1>0, <2>3, <2>5, <2>12, <2>13, <2>15, <2>17, <2>18, JoinsTheLive
<1>4. ASSUME Moved PROVE LiveInv'
  <2> DEFINE g == rtx_frames[1]
  <2>1. rtx_frames # <<>> /\ rtx_frames' = Tail(rtx_frames)
    BY <1>4 DEF Moved
  <2>2. /\ rtx_frames' \in Seq(StreamFrames) /\ Head(rtx_frames) = g
        /\ 1 \in DOMAIN rtx_frames /\ g \in StreamFrames
        /\ \A i \in DOMAIN rtx_frames' : /\ i + 1 \in DOMAIN rtx_frames /\ i + 1 # 1
                                         /\ rtx_frames'[i] = rtx_frames[i + 1]
    BY <2>1, QueueIsServed
  <2>3. packets' = Append(packets, g) /\ queue' = queue \cup {Len(packets) + 1} /\ queue \in SUBSET queue
    BY <1>4, <2>2 DEF Moved, Send
  <2>4. \A i \in DOMAIN rtx_frames' : Live(rtx_frames'[i]) /\ Apart(g, rtx_frames'[i])
    BY <2>2 DEF LiveInv
  <2>5. \A i, j \in DOMAIN rtx_frames' : i # j => Apart(rtx_frames'[i], rtx_frames'[j])
    <3> TAKE i, j \in DOMAIN rtx_frames'
    <3> HAVE i # j
    <3>1. i \in Nat /\ j \in Nat
      BY <2>2
    <3>2. i + 1 # j + 1
      BY <3>1
    <3> QED BY <2>2, <3>2 DEF LiveInv
  <2>6. \A m \in queue, i \in DOMAIN rtx_frames' : Apart(packets[m], rtx_frames'[i])
    BY Zenon, <2>2 DEF LiveInv
  <2>7. Live(g) /\ \A m \in queue : Apart(g, packets[m])
    BY <2>2, ApartBothWays DEF LiveInv
  <2> HIDE DEF g
  <2> QED BY Zenon, <1>0, <2>2, <2>3, <2>4, <2>5, <2>6, <2>7, JoinsTheLive
<1>5. ASSUME NEW lost \in queue, NEW room \in Nat, GivenUp(lost, room) PROVE LiveInv'
  BY <1>1, <1>5 DEF GivenUp
<1>6. ASSUME NEW n \in queue, Acked(n) PROVE LiveInv'
  BY <1>1, <1>6 DEF Acked
<1> QED BY <1>2, <1>3, <1>4, <1>5, <1>6 DEF RepeatStep

(***************************************************************************)
(* A frame that arrives fills one stretch, which a frame that waits for its *)
(* acknowledgement lies inside or outside of; the frame itself, when it     *)
(* still waits, is held from then on.                                       *)
(***************************************************************************)
LEMMA IntervalStaysWhole ==
  ASSUME NEW a \in Nat, NEW b \in Nat, NEW c \in Nat, NEW d \in Nat, NEW P \in Nat, NEW Q \in Nat, NEW H,
         a < b => (c <= a /\ b <= d) \/ b <= c \/ d <= a,
         c <= P, P < Q, Q <= d, c..(P - 1) \subseteq H, P..(Q - 1) \cap H = {}, Q = d \/ Q \in H,
         a..(b - 1) \subseteq H \/ a..(b - 1) \cap H = {}
  PROVE  a..(b - 1) \subseteq H \cup P..(Q - 1) \/ a..(b - 1) \cap (H \cup P..(Q - 1)) = {}
<1>1. CASE a >= b \/ a..(b - 1) \subseteq H
  BY <1>1
<1>2. CASE a < b /\ (b <= c \/ d <= a) /\ a..(b - 1) \cap H = {}
  <2>1. \A x \in a..(b - 1) : x \notin P..(Q - 1)
    BY <1>2
  <2> QED BY <1>2, <2>1
<1>3. CASE a < b /\ c <= a /\ b <= d /\ a..(b - 1) \cap H = {}
  <2>1. a \notin H
    <3>1. a \in a..(b - 1)
      BY <1>3
    <3> QED BY <1>3, <3>1
  <2>2. a >= P
    <3>1. a < P => a \in c..(P - 1)
      BY <1>3
    <3> QED BY <2>1, <3>1
  <2>3. CASE Q < d /\ Q < b /\ a <= Q
    <3>1. Q \in a..(b - 1) /\ Q \in H
      BY <2>3
    <3> QED BY <1>3, <3>1
  <2>4. CASE b <= Q
    <3>1. a..(b - 1) \subseteq P..(Q - 1)
      BY <2>2, <2>4
    <3> QED BY <3>1
  <2>5. CASE Q < a
    <3>1. \A x \in a..(b - 1) : x \notin P..(Q - 1)
      BY <2>5
    <3> QED BY <1>3, <3>1
  <2>6. Q < b => Q < d
    BY <1>3
  <2> QED BY <2>3, <2>4, <2>5, <2>6
<1> QED BY <1>1, <1>2, <1>3

LEMMA StretchKeepsWhole ==
  ASSUME NEW f \in StreamFrames, NEW g \in StreamFrames, NEW H, NEW H2, Stretch(f, H, H2), f.id = g.id,
         Within(g, f) \/ Apart(g, f), Bytes(g) \subseteq H \/ Bytes(g) \cap H = {}
  PROVE  H \subseteq H2 /\ (Bytes(g) \subseteq H2 \/ Bytes(g) \cap H2 = {})
<1>1. CASE H2 = H
  BY <1>1
<1>2. CASE H2 # H
  <2> DEFINE a == g.offset
             b == End(g)
             c == f.offset
             d == End(f)
  <2>1. /\ a \in Nat /\ b \in Nat /\ c \in Nat /\ d \in Nat
        /\ g.length \in Nat /\ f.length \in Nat /\ b = a + g.length /\ d = c + f.length
    BY FrameTypes DEF End
  <2>2. Bytes(g) = a..(b - 1)
    BY DEF Bytes
  <2>3. PICK P, Q \in Nat : /\ c <= P /\ P < Q /\ Q <= d
                            /\ c..(P - 1) \subseteq H
                            /\ P..(Q - 1) \cap H = {}
                            /\ Q = d \/ Q \in H
                            /\ H2 = H \cup P..(Q - 1)
    BY <1>2 DEF Stretch
  <2>4. \/ g.length > 0 => c <= a /\ b <= d
        \/ f.length > 0 /\ g.length > 0 => b <= c \/ d <= a
    BY DEF Within, Apart
  <2>5. a..(b - 1) \subseteq H \/ a..(b - 1) \cap H = {}
    BY <2>2
  <2> HIDE DEF a, b, c, d
  <2>6. a < b => (c <= a /\ b <= d) \/ b <= c \/ d <= a
    BY <2>1, <2>3, <2>4
  <2>7. a..(b - 1) \subseteq H2 \/ a..(b - 1) \cap H2 = {}
    BY <2>1, <2>3, <2>5, <2>6, IntervalStaysWhole
  <2> QED BY <2>2, <2>3, <2>7
<1> QED BY <1>1, <1>2

LEMMA WholeFrameIsHeld ==
  ASSUME NEW f \in StreamFrames, NEW H, NEW H2, Stretch(f, H, H2),
         Bytes(f) \subseteq H \/ Bytes(f) \cap H = {}
  PROVE  Bytes(f) \subseteq H2
<1>1. CASE H2 = H /\ Bytes(f) \subseteq H
  BY <1>1
<1>2. CASE ~ (H2 = H /\ Bytes(f) \subseteq H)
  <2> DEFINE c == f.offset
             d == End(f)
  <2>1. c \in Nat /\ d \in Nat /\ Bytes(f) = c..(d - 1)
    BY FrameTypes DEF Bytes
  <2>2. PICK P, Q \in Nat : /\ c <= P /\ P < Q /\ Q <= d
                            /\ c..(P - 1) \subseteq H
                            /\ P..(Q - 1) \cap H = {}
                            /\ Q = d \/ Q \in H
                            /\ H2 = H \cup P..(Q - 1)
    BY <1>2 DEF Stretch
  <2> HIDE DEF c, d
  <2>3. P \in c..(d - 1) /\ P \notin H
    BY <2>1, <2>2
  <2>4. c..(d - 1) \cap H = {}
    BY <2>1, <2>3
  <2>5. c = P
    <3>1. c < P => c \in c..(P - 1) /\ c \in c..(d - 1)
      BY <2>1, <2>2
    <3> QED BY <2>1, <2>2, <2>4, <3>1
  <2>6. Q = d
    <3>1. Q < d => Q \in c..(d - 1)
      BY <2>1, <2>2
    <3> QED BY <2>1, <2>2, <2>4, <3>1
  <2> QED BY <2>1, <2>2, <2>5, <2>6
<1> QED BY <1>1, <1>2

LEMMA ArrivalKeepsLive ==
  ASSUME StreamTypes, HeadsInv, LiveInv, NEW n \in DOMAIN packets, NEW r2, ArrivalStep(n, r2)
  PROVE  LiveInv'
<1> DEFINE f == packets[n]
           s == f.id
           H == Held(rcv[s])
           H2 == Held(r2)
<1>1. f \in StreamFrames /\ s \in Ids
  BY FramesAreTyped, FrameTypes
<1>2. /\ Takes(rcv[s], r2, snd[s], f) /\ Stretch(f, H, H2)
      /\ rcv' = [rcv EXCEPT ![s] = r2]
      /\ arrived' = arrived \cup {n}
      /\ packets' = packets /\ queue' = queue /\ rtx_frames' = rtx_frames
  BY DEF ArrivalStep, client, HeldIn, Held, HeldBy
<1>3. \A t \in Ids : rcv'[t] = IF t = s THEN r2 ELSE rcv[t]
  BY <1>2 DEF StreamTypes
<1>4. ASSUME NEW g \in StreamFrames, Live(g)
      PROVE  Live(g)' /\ Held(rcv[g.id]) \subseteq Held(rcv'[g.id])
  <2>1. g.id \in Ids /\ Whole(g, rcv[g.id]) /\ (Within(g, f) \/ Apart(g, f))
    BY Zenon, <1>4, FrameTypes DEF Live
  <2>2. CASE g.id = s
    <3>1. Bytes(g) \subseteq H \/ Bytes(g) \cap H = {}
      BY <2>1, <2>2 DEF Whole
    <3> HIDE DEF H, H2, f
    <3>2. H \subseteq H2 /\ (Bytes(g) \subseteq H2 \/ Bytes(g) \cap H2 = {})
      BY Zenon, <1>1, <1>2, <2>1, <2>2, <3>1, StretchKeepsWhole
    <3>3. rcv'[g.id] = r2
      BY <1>3, <2>1, <2>2
    <3>4. Whole(g, rcv'[g.id]) /\ Held(rcv[g.id]) \subseteq Held(rcv'[g.id])
      BY <2>2, <3>2, <3>3 DEF Whole, H, H2
    <3> QED BY Zenon, <1>2, <1>4, <3>4 DEF Live
  <2>3. CASE g.id # s
    <3>1. rcv'[g.id] = rcv[g.id]
      BY <1>3, <2>1, <2>3
    <3> QED BY Zenon, <1>2, <1>4, <2>1, <3>1 DEF Live
  <2> QED BY Zenon, <2>2, <2>3
<1>5. \A m \in queue : Live(packets[m])'
  BY Zenon, <1>2, <1>4, FramesAreTyped DEF LiveInv, StreamTypes
<1>6. \A i \in DOMAIN rtx_frames : Live(rtx_frames[i])'
  BY Zenon, <1>2, <1>4, FramesAreTyped DEF LiveInv, StreamTypes
<1>7. ASSUME NEW m \in queue \cap arrived'
      PROVE  /\ Bytes(packets[m]) \subseteq Held(rcv'[packets[m].id])
             /\ packets[m].fin => rcv'[packets[m].id].fin_received
  <2> DEFINE g == packets[m]
  <2>1. g \in StreamFrames /\ g.id \in Ids /\ Live(g)
    BY Zenon, <1>7, FramesAreTyped, FrameTypes DEF LiveInv, StreamTypes
  <2>2. CASE m = n
    <3>1. Whole(f, rcv[s])
      BY <2>1, <2>2 DEF Live
    <3>2. Bytes(f) \subseteq H \/ Bytes(f) \cap H = {}
      BY <3>1 DEF Whole
    <3>3. rcv'[s] = r2
      BY <1>1, <1>3
    <3>4. f.fin => r2.fin_received
      BY Zenon, <1>2 DEF Takes
    <3> HIDE DEF H, H2, f
    <3>5. Bytes(f) \subseteq H2
      BY Zenon, <1>1, <1>2, <3>2, WholeFrameIsHeld
    <3>6. Bytes(f) \subseteq Held(rcv'[s]) /\ (f.fin => rcv'[s].fin_received)
      BY Zenon, <3>3, <3>4, <3>5 DEF H2
    <3> QED BY Zenon, <2>2, <3>6 DEF f
  <2>3. CASE m # n
    <3>1. m \in queue \cap arrived
      BY <1>2, <1>7, <2>3
    <3>2. Bytes(g) \subseteq Held(rcv[g.id]) /\ (g.fin => rcv[g.id].fin_received)
      BY Zenon, <3>1 DEF LiveInv
    <3>3. Held(rcv[g.id]) \subseteq Held(rcv'[g.id])
      BY <1>4, <2>1
    <3>4. rcv[g.id].fin_received => rcv'[g.id].fin_received
      <4>1. rcv[s].fin_received => r2.fin_received
        BY Zenon, <1>2 DEF Takes
      <4> QED BY Zenon, <1>3, <2>1, <4>1
    <3> QED BY Zenon, <3>2, <3>3, <3>4
  <2> QED BY Zenon, <2>2, <2>3
<1> QED BY Zenon, <1>2, <1>5, <1>6, <1>7 DEF LiveInv

-----------------------------------------------------------------------------

(***************************************************************************)
(* Nothing is lost, byte by byte: a step may drop a frame only if its bytes *)
(* and its FIN are covered otherwise, or if its stream was reset.           *)
(***************************************************************************)
Covered(s, x) ==
  x \in Held(rcv[s]) \/ \E f \in Outstanding : f.id = s /\ f.type = "STREAM" /\ x \in Bytes(f)

EndCovered(s) == rcv[s].fin_received \/ \E f \in Outstanding : f.id = s /\ f.fin

AllCovered(s) ==
  /\ \A x \in 0..(snd[s].sent_offset - 1) : Covered(s, x)
  /\ snd[s].fin_sent => EndCovered(s)

LEMMA LostNowhere ==
  /\ NothingIsLost <=> \A s \in Ids : ~ snd[s].reset_sent => AllCovered(s)
  /\ NothingIsLost' <=> \A s \in Ids : ~ snd'[s].reset_sent => AllCovered(s)'
<1>1. NothingIsLost <=> \A s \in Ids : ~ snd[s].reset_sent => AllCovered(s)
  BY DEF NothingIsLost, AllCovered, Covered, EndCovered
<1>2. NothingIsLost' <=> \A s \in Ids : ~ snd'[s].reset_sent => AllCovered(s)'
  BY DEF NothingIsLost, AllCovered, Covered, EndCovered
<1> QED BY Zenon, <1>1, <1>2

StillHeld ==
  \A s \in Ids : /\ Held(rcv[s]) \subseteq Held(rcv'[s])
                 /\ rcv[s].fin_received => rcv'[s].fin_received

StillCovered ==
  \A f \in Outstanding : ~ snd'[f.id].reset_sent =>
     \/ f \in Outstanding'
     \/ /\ f.type = "STREAM" => \A x \in Bytes(f) : Covered(f.id, x)'
        /\ f.fin => EndCovered(f.id)'

NewIsCovered ==
  \A s \in Ids : ~ snd'[s].reset_sent =>
     /\ ~ snd[s].reset_sent
     /\ \A x \in 0..(snd'[s].sent_offset - 1) : x \in 0..(snd[s].sent_offset - 1) \/ Covered(s, x)'
     /\ snd'[s].fin_sent => snd[s].fin_sent \/ EndCovered(s)'

LEMMA StepLosesNothing ==
  ASSUME NothingIsLost, StillHeld, StillCovered, NewIsCovered
  PROVE  NothingIsLost'
<1> SUFFICES ASSUME NEW s \in Ids, ~ snd'[s].reset_sent PROVE AllCovered(s)'
  BY LostNowhere
<1>1. AllCovered(s)
  BY LostNowhere DEF NewIsCovered
<1>2. ASSUME NEW x, Covered(s, x) PROVE Covered(s, x)'
  <2>1. CASE x \in Held(rcv[s])
    BY <2>1 DEF StillHeld, Covered
  <2>2. CASE x \notin Held(rcv[s])
    <3>1. PICK f \in Outstanding : f.id = s /\ f.type = "STREAM" /\ x \in Bytes(f)
      BY <1>2, <2>2 DEF Covered
    <3>2. CASE f \in Outstanding'
      BY <3>1, <3>2 DEF Covered
    <3>3. CASE f \notin Outstanding'
      BY <3>1, <3>3 DEF StillCovered
    <3> QED BY <3>2, <3>3
  <2> QED BY <2>1, <2>2
<1>3. ASSUME EndCovered(s) PROVE EndCovered(s)'
  <2>1. CASE rcv[s].fin_received
    BY <2>1 DEF StillHeld, EndCovered
  <2>2. CASE ~ rcv[s].fin_received
    <3>1. PICK f \in Outstanding : f.id = s /\ f.fin
      BY <1>3, <2>2 DEF EndCovered
    <3>2. CASE f \in Outstanding'
      BY <3>1, <3>2 DEF EndCovered
    <3>3. CASE f \notin Outstanding'
      BY Zenon, <3>1, <3>3 DEF StillCovered
    <3> QED BY <3>2, <3>3
  <2> QED BY <2>1, <2>2
<1>4. \A x \in 0..(snd'[s].sent_offset - 1) : Covered(s, x)'
  BY <1>1, <1>2 DEF AllCovered, NewIsCovered
<1>5. snd'[s].fin_sent => EndCovered(s)'
  BY <1>1, <1>3 DEF AllCovered, NewIsCovered
<1> QED BY Zenon, <1>4, <1>5 DEF AllCovered

LEMMA OutstandingMeans ==
  /\ \A f : f \in Outstanding <=> \/ \E n \in queue : f = packets[n]
                                  \/ \E i \in DOMAIN rtx_frames : f = rtx_frames[i]
  /\ \A f : f \in Outstanding' <=> \/ \E n \in queue' : f = packets'[n]
                                   \/ \E i \in DOMAIN rtx_frames' : f = rtx_frames'[i]
BY DEF Outstanding, Range

LEMMA SentIsOutstanding ==
  ASSUME StreamTypes, NEW g \in StreamFrames, packets' = Append(packets, g),
         NEW Q \in SUBSET queue, queue' = Q \cup {Len(packets) + 1}
  PROVE  g \in Outstanding' /\ \A m \in Q : packets[m] \in Outstanding'
<1>1. /\ packets'[Len(packets) + 1] = g
      /\ \A n \in DOMAIN packets : packets'[n] = packets[n]
  BY SentPacket
<1>2. queue \subseteq DOMAIN packets
  BY DEF StreamTypes
<1> QED BY <1>1, <1>2, OutstandingMeans

LEMMA SameSenders ==
  ASSUME \A s \in Ids : Keeps(snd[s], snd'[s])
  PROVE  NewIsCovered
BY DEF Keeps, NewIsCovered

LEMMA QuietLosesNothing ==
  ASSUME NothingIsLost, StillHeld, \A s \in Ids : Keeps(snd[s], snd'[s]),
         UNCHANGED <<packets, queue, rtx_frames>>
  PROVE  NothingIsLost'
<1>1. Outstanding' = Outstanding
  BY DEF Outstanding
<1>2. StillCovered
  BY <1>1 DEF StillCovered
<1> QED BY <1>2, SameSenders, StepLosesNothing

LEMMA FreshLosesNothing ==
  ASSUME StreamTypes, NothingIsLost, NEW g \in StreamFrames, Send(g), rtx_frames' = rtx_frames, rcv' = rcv,
         NEW s \in Ids, NEW st, snd' = [snd EXCEPT ![s] = st],
         \/ st.reset_sent
         \/ /\ ~ snd[s].reset_sent
            /\ g.type = "STREAM" /\ g.id = s /\ g.offset = snd[s].sent_offset /\ End(g) = st.sent_offset
            /\ st.fin_sent => g.fin
  PROVE  NothingIsLost'
<1>1. packets' = Append(packets, g) /\ queue' = queue \cup {Len(packets) + 1} /\ queue \in SUBSET queue
  BY DEF Send
<1>2. g \in Outstanding' /\ \A m \in queue : packets[m] \in Outstanding'
  BY <1>1, SentIsOutstanding
<1>3. Outstanding \subseteq Outstanding'
  BY <1>2, OutstandingMeans
<1>4. StillCovered
  BY Zenon, <1>3 DEF StillCovered
<1>5. StillHeld
  BY DEF StillHeld
<1>6. \A t \in Ids : snd'[t] = IF t = s THEN st ELSE snd[t]
  BY DEF StreamTypes
<1>7. NewIsCovered
  <2> SUFFICES ASSUME NEW t \in Ids, ~ snd'[t].reset_sent
               PROVE  /\ ~ snd[t].reset_sent
                      /\ \A x \in 0..(snd'[t].sent_offset - 1) : x \in 0..(snd[t].sent_offset - 1) \/ Covered(t, x)'
                      /\ snd'[t].fin_sent => snd[t].fin_sent \/ EndCovered(t)'
    BY Zenon DEF NewIsCovered
  <2>1. CASE t # s
    BY <1>6, <2>1
  <2>2. CASE t = s
    <3>1. snd'[t] = st /\ ~ st.reset_sent
      BY <1>6, <2>2
    <3>2. /\ ~ snd[s].reset_sent /\ g.type = "STREAM" /\ g.id = s /\ g.offset = snd[s].sent_offset
          /\ End(g) = st.sent_offset /\ (st.fin_sent => g.fin)
      BY Zenon, <3>1
    <3>3. ASSUME NEW x \in 0..(st.sent_offset - 1) PROVE x \in 0..(snd[s].sent_offset - 1) \/ Covered(s, x)'
      <4> DEFINE a == snd[s].sent_offset
                 b == st.sent_offset
      <4>1. a \in Nat /\ b \in Nat
        BY <3>2, FrameTypes
      <4>2. Bytes(g) = a..(b - 1)
        BY Zenon, <3>2 DEF Bytes
      <4>3. x \in Bytes(g) => Covered(s, x)'
        BY <1>2, <3>2 DEF Covered
      <4> HIDE DEF a, b
      <4>4. x \in 0..(a - 1) \/ x \in a..(b - 1)
        <5>1. x \in 0..(b - 1)
          BY Zenon, <3>3 DEF b
        <5> QED BY <4>1, <5>1
      <4> QED BY Zenon, <4>2, <4>3, <4>4 DEF a
    <3>4. st.fin_sent => EndCovered(s)'
      BY <1>2, <3>2 DEF EndCovered
    <3> QED BY Zenon, <2>2, <3>1, <3>2, <3>3, <3>4
  <2> QED BY Zenon, <2>1, <2>2
<1> QED BY <1>4, <1>5, <1>7, StepLosesNothing

LEMMA RepeatLosesNothing ==
  ASSUME MinRoom > 0, StreamTypes, HeadsInv, LiveInv, NothingIsLost, RepeatStep
  PROVE  NothingIsLost'
<1>0. snd' = snd /\ rcv' = rcv
  BY DEF RepeatStep, server
<1>1. StillHeld
  BY <1>0 DEF StillHeld
<1>2. NewIsCovered
  <2>1. \A s \in Ids : Keeps(snd[s], snd'[s])
    BY <1>0 DEF Keeps
  <2> QED BY <2>1, SameSenders
<1>3. SUFFICES StillCovered
  BY Zenon, <1>1, <1>2, StepLosesNothing
<1>4. ASSUME NEW lost \in queue, NEW room \in Nat, room >= MinRoom, GivenUp(lost, room) PROVE StillCovered
  <2>1. room # 0
    BY <1>4, StreamsAssumption
  <2>2. snd'[packets[lost].id].reset_sent
    BY Zenon, <1>0, <1>4, <2>1 DEF GivenUp, NotRepeated
  <2>3. packets' = packets /\ rtx_frames' = rtx_frames /\ queue' = queue \ {lost}
    BY <1>4 DEF GivenUp
  <2>4. \A f \in Outstanding : f = packets[lost] \/ f \in Outstanding'
    BY <2>3, OutstandingMeans
  <2> QED BY <2>2, <2>4 DEF StillCovered
<1>5. ASSUME NEW lost \in queue, SentAgain(lost) PROVE StillCovered
  <2> DEFINE g == packets[lost]
             Q == queue \ {lost}
  <2>1. g \in StreamFrames /\ rtx_frames' = rtx_frames
    BY <1>5, FramesAreTyped DEF SentAgain
  <2>2. packets' = Append(packets, g) /\ Q \in SUBSET queue /\ queue' = Q \cup {Len(packets) + 1}
    BY <1>5 DEF SentAgain
  <2>3. g \in Outstanding' /\ \A m \in Q : packets[m] \in Outstanding'
    <3> HIDE DEF g, Q
    <3> QED BY <2>1, <2>2, SentIsOutstanding
  <2>4. \A f \in Outstanding : f \in Outstanding'
    BY <2>1, <2>3, OutstandingMeans
  <2> QED BY <2>4 DEF StillCovered
<1>6. ASSUME NEW lost \in queue, NEW room \in Nat, SentInParts(lost, room) PROVE StillCovered
  <2>0. PICK f : f = packets[lost]
    OBVIOUS
  <2> DEFINE a == FirstPart(f, room)
             b == SecondPart(f, room)
             Q == queue \ {lost}
             L == Len(rtx_frames) + 1
  <2>1. f \in StreamFrames /\ FrameOk(f, snd[f.id]) /\ snd[f.id] \in SndHeads
    BY Zenon, <2>0, FramesAreTyped, FrameTypes DEF HeadsInv, StreamTypes
  <2>2. f.length > room /\ room > 0
    BY <1>6, <2>0 DEF SentInParts
  <2>3. /\ a \in StreamFrames /\ b \in StreamFrames /\ a.id = f.id /\ b.id = f.id
        /\ a.type = "STREAM" /\ b.type = "STREAM"
        /\ a.offset = f.offset /\ End(a) = f.offset + room
        /\ b.offset = f.offset + room /\ End(b) = End(f) /\ b.fin = f.fin
    BY Zenon, <2>1, <2>2, PartsOfFrame
  <2>4. f.offset \in Nat /\ End(f) \in Nat
    BY <2>1, FrameTypes
  <2>5. /\ packets' = Append(packets, a) /\ rtx_frames' = Append(rtx_frames, b)
        /\ Q \in SUBSET queue /\ queue' = Q \cup {Len(packets) + 1}
    BY <1>6, <2>0 DEF SentInParts
  <2>6. /\ DOMAIN rtx_frames' = DOMAIN rtx_frames \cup {L}
        /\ \A n \in DOMAIN rtx_frames : rtx_frames'[n] = rtx_frames[n]
        /\ rtx_frames'[L] = b
    <3> HIDE DEF b
    <3> QED BY <2>3, <2>5, QueueOfParts
  <2>7. a \in Outstanding' /\ \A m \in Q : packets[m] \in Outstanding'
    <3> HIDE DEF a, Q
    <3> QED BY <2>3, <2>5, SentIsOutstanding
  <2> HIDE DEF a, b, L
  <2>8. b \in Outstanding'
    BY <2>6, OutstandingMeans
  <2>9. \A g \in Outstanding : g = f \/ g \in Outstanding'
    BY <2>0, <2>6, <2>7, OutstandingMeans
  <2>10. Bytes(f) \subseteq Bytes(a) \cup Bytes(b)
    <3> DEFINE x == f.offset
               y == End(f)
    <3>1. /\ f.offset = x /\ End(f) = y /\ a.offset = x /\ End(a) = x + room
          /\ b.offset = x + room /\ End(b) = y
      BY <2>3
    <3>2. x \in Nat /\ y \in Nat
      BY <2>4
    <3> HIDE DEF x, y
    <3>3. Bytes(f) = x..(y - 1) /\ Bytes(a) = x..(x + room - 1) /\ Bytes(b) = (x + room)..(y - 1)
      BY <3>1, <3>2 DEF Bytes
    <3> QED BY <3>2, <3>3
  <2>11. \A x \in Bytes(f) : Covered(f.id, x)'
    BY <2>3, <2>7, <2>8, <2>10 DEF Covered
  <2>12. f.fin => EndCovered(f.id)'
    BY Zenon, <2>3, <2>8 DEF EndCovered
  <2> QED BY <2>9, <2>11, <2>12 DEF StillCovered
<1>7. ASSUME Moved PROVE StillCovered
  <2> DEFINE g == rtx_frames[1]
  <2>1. rtx_frames # <<>> /\ rtx_frames' = Tail(rtx_frames)
    BY <1>7 DEF Moved
  <2>2. /\ Head(rtx_frames) = g /\ g \in StreamFrames
        /\ \A i \in DOMAIN rtx_frames : i # 1 => i - 1 \in DOMAIN rtx_frames' /\ rtx_frames'[i - 1] = rtx_frames[i]
    BY <2>1, QueueIsServed
  <2>3. packets' = Append(packets, g) /\ queue' = queue \cup {Len(packets) + 1} /\ queue \in SUBSET queue
    BY <1>7, <2>2 DEF Moved, Send
  <2>4. g \in Outstanding' /\ \A m \in queue : packets[m] \in Outstanding'
    <3> HIDE DEF g
    <3> QED BY <2>2, <2>3, SentIsOutstanding
  <2>5. \A i \in DOMAIN rtx_frames : rtx_frames[i] \in Outstanding'
    <3> TAKE i \in DOMAIN rtx_frames
    <3>1. CASE i = 1
      BY <2>4, <3>1
    <3>2. CASE i # 1
      BY <2>2, <3>2, OutstandingMeans
    <3> QED BY <3>1, <3>2
  <2>6. \A f \in Outstanding : f \in Outstanding'
    BY <2>4, <2>5, OutstandingMeans
  <2> QED BY <2>6 DEF StillCovered
<1>8. ASSUME NEW n \in queue, Acked(n) PROVE StillCovered
  <2>0. PICK f : f = packets[n]
    OBVIOUS
  <2>1. n \in queue \cap arrived /\ queue' = queue \ {n} /\ packets' = packets /\ rtx_frames' = rtx_frames
    BY <1>8 DEF Acked
  <2>2. \A g \in Outstanding : g = f \/ g \in Outstanding'
    BY ZenonT(40), <2>0, <2>1, OutstandingMeans
  <2>3. Bytes(f) \subseteq Held(rcv'[f.id]) /\ (f.fin => rcv'[f.id].fin_received)
    BY <1>0, <2>0, <2>1 DEF LiveInv
  <2>4. \A x \in Bytes(f) : Covered(f.id, x)'
    BY <2>3 DEF Covered
  <2>5. f.fin => EndCovered(f.id)'
    BY <2>3 DEF EndCovered
  <2> QED BY <2>2, <2>4, <2>5 DEF StillCovered
<1> QED BY <1>4, <1>5, <1>6, <1>7, <1>8 DEF RepeatStep

=============================================================================
