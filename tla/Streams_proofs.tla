--------------------------- MODULE Streams_proofs ---------------------------
(***************************************************************************)
(* Proofs about the streams: a client never breaks the limits of a server  *)
(* of the same code, what the server holds is in order, the end it signals *)
(* is the end, no byte is lost, and the streams take turns.                *)
(***************************************************************************)
EXTENDS StreamSteps_proofs, StreamActions_proofs

\* The time the provers are given for a step.
USE SMTT(20), ZenonT(30)

(***************************************************************************)
(* A finite set can be numbered without repetition: the shortest list that  *)
(* names every element names each one once.                                *)
(***************************************************************************)
LEMMA FiniteSetIsNumbered ==
  ASSUME NEW S, IsFiniteSet(S)
  PROVE  \E n \in Nat : \E h : h \in Bijection(1..n, S)
<1> DEFINE Lists(n) == {q \in [1..n -> S] : \A s \in S : \E i \in 1..n : q[i] = s}
           Lengths == {n \in Nat : Lists(n) # {}}
<1>1. PICK seq \in Seq(S) : \A s \in S : \E i \in 1..Len(seq) : seq[i] = s
  BY DEF IsFiniteSet
<1>2. Len(seq) \in Nat /\ seq \in [1..Len(seq) -> S]
  OBVIOUS
<1>3. Len(seq) \in Lengths
  BY <1>1, <1>2
<1>4. Min(Lengths) \in Lengths /\ \A m \in Lengths : Min(Lengths) <= m
  BY Zenon, <1>3, MinOfPositions
<1>5. PICK n : n \in Lengths /\ \A m \in Lengths : n <= m
  BY Zenon, <1>4
<1>6. PICK q \in [1..n -> S] : \A s \in S : \E i \in 1..n : q[i] = s
  BY <1>5
<1>7. ASSUME NEW i \in 1..n, NEW j \in 1..n, i < j, q[i] = q[j]
      PROVE  FALSE
  <2>1. n \in Nat /\ n - 1 \in Nat /\ ~ n <= n - 1
    BY <1>5
  <2> DEFINE r == [k \in 1..(n - 1) |-> IF k = j THEN q[n] ELSE q[k]]
  <2>2. r \in [1..(n - 1) -> S]
    BY <1>6, <2>1
  <2>3. ASSUME NEW s \in S
        PROVE  \E k \in 1..(n - 1) : r[k] = s
    <3>1. PICK k \in 1..n : q[k] = s
      BY <1>6
    <3>2. CASE k = n /\ j < n
      BY <3>1, <3>2, <2>1, <1>7
    <3>3. CASE k # n /\ k # j
      BY <3>1, <3>3, <2>1, <1>7
    <3>4. CASE k = j
      <4>1. i \in 1..(n - 1) /\ r[i] = q[i]
        BY <1>7, <2>1
      <4> QED BY <3>1, <3>4, <4>1, <1>7
    <3> QED BY <3>2, <3>3, <3>4, <1>7, <2>1
  <2>4. n - 1 \in Lengths
    BY Zenon, <2>1, <2>2, <2>3
  <2> QED BY Zenon, <1>5, <2>1, <2>4
<1>8. \A i, j \in 1..n : q[i] = q[j] => i = j
  BY <1>5, <1>7
<1>9. q \in Bijection(1..n, S)
  BY <1>6, <1>8 DEF Bijection, Injection, Surjection, IsInjective
<1> QED BY <1>5, <1>9

LEMMA SumOfNothing ==
  ASSUME NEW d \in [Ids -> Nat], \A s \in Ids : d[s] = 0
  PROVE  IsSum(d, 0)
<1>1. PICK n \in Nat : \E h : h \in Bijection(1..n, Ids)
  BY StreamsAssumption, FiniteSetIsNumbered
<1>2. PICK h : h \in Bijection(1..n, Ids)
  BY <1>1
<1> DEFINE T == [i \in 0..n |-> 0]
<1>3. \A i \in 1..n : h[i] \in Ids
  BY <1>2 DEF Bijection, Injection
<1>4. /\ T \in [0..n -> Nat] /\ T[0] = 0 /\ T[n] = 0
      /\ \A i \in 1..n : T[i] = T[i - 1] + d[h[i]]
      /\ \A i, j \in 0..n : i <= j => T[i] <= T[j]
  BY <1>3
<1> HIDE DEF T
<1> QED BY <1>2, <1>4 DEF IsSum

(***************************************************************************)
(* The invariant holds at first, and every step keeps it.                   *)
(***************************************************************************)
LEMMA BeginsSound ==
  ASSUME Init PROVE StreamsInv /\ NothingIsLost
<1>1. /\ snd = [s \in Ids |-> create_stream_snd] /\ rcv = [s \in Ids |-> create_stream_rcv]
      /\ snd_cnx = [maxdata_remote |-> InitialMaxData, data_sent |-> 0, last_visited |-> -1]
      /\ rcv_cnx = [maxdata_local |-> InitialMaxData, data_received |-> 0, error |-> FALSE]
      /\ packets = <<>> /\ queue = {} /\ rtx_frames = <<>> /\ arrived = {} /\ control = {}
  BY DEF Init
<1>2. InitialMaxData \in Nat /\ InitialMaxStreamData \in Nat
  BY StreamsAssumption
<1>3. create_stream_snd \in SndHeads /\ create_stream_rcv \in RcvHeads
  BY <1>2 DEF create_stream_snd, create_stream_rcv, SndHeads, RcvHeads
<1>4. packets \in Seq(StreamFrames) /\ rtx_frames \in Seq(StreamFrames)
      /\ DOMAIN packets = {} /\ DOMAIN rtx_frames = {}
  BY <1>1
<1>5. StreamTypes
  BY <1>1, <1>2, <1>3, <1>4 DEF StreamTypes
<1>6. SndOk(create_stream_snd)
  BY <1>2 DEF SndOk, create_stream_snd
<1>7. RcvOk(create_stream_rcv, create_stream_snd)
  <2>1. Ordered(<<>>, 0) /\ Len(<<>>) = 0 /\ HeldBy(<<>>, 0) = {}
    BY DEF Ordered, HeldBy
  <2> QED BY <2>1 DEF RcvOk, create_stream_rcv, create_stream_snd
<1>8. HeadsInv
  BY Zenon, <1>1, <1>4, <1>6, <1>7 DEF HeadsInv
<1>9. StreamCredit
  <2>1. \A s \in Ids : /\ snd[s].maxdata_remote = InitialMaxStreamData
                       /\ rcv[s].maxdata_local = InitialMaxStreamData
                       /\ snd[s].sent_offset = 0 /\ rcv[s].fin_offset = 0
    BY Zenon, <1>1 DEF create_stream_snd, create_stream_rcv
  <2>2. Ahead \in [Ids -> Nat] /\ \A s \in Ids : Ahead[s] = 0
    BY <2>1 DEF Ahead
  <2>3. IsSum(Ahead, 0)
    <3> HIDE DEF Ahead
    <3> QED BY <2>2, SumOfNothing
  <2> QED BY <1>1, <1>2, <2>1, <2>3 DEF StreamCredit
<1>10. LiveInv
  BY Zenon, <1>1, <1>4 DEF LiveInv
<1>11. NoErrorIsRaised
  BY <1>1 DEF NoErrorIsRaised
<1>12. NothingIsLost
  <2>1. \A s \in Ids : snd[s].sent_offset = 0 /\ snd[s].fin_sent = FALSE
    BY Zenon, <1>1 DEF create_stream_snd
  <2> QED BY <2>1, LostNowhere DEF AllCovered
<1> QED BY Zenon, <1>5, <1>8, <1>9, <1>10, <1>11, <1>12 DEF StreamsInv

-----------------------------------------------------------------------------

LEMMA RetransmissionSteps ==
  ASSUME StreamTypes,
         \/ \E room \in MinRoom..MaxRoom : retransmit_needed(room)
         \/ write_rtx_frame
         \/ \E n \in queue : packet_acknowledged(n)
  PROVE  RepeatStep
<1>1. ASSUME NEW room \in MinRoom..MaxRoom, retransmit_needed(room) PROVE RepeatStep
  <2> DEFINE lost == Min(queue)
  <2>1. lost \in queue
    <3>1. DOMAIN packets = 1..Len(packets) /\ queue \subseteq DOMAIN packets
      BY DEF StreamTypes
    <3>2. queue \in SUBSET Nat
      BY <3>1
    <3>3. queue # {}
      BY <1>1 DEF retransmit_needed
    <3> QED BY <3>2, <3>3, MinOfPositions
  <2>2. room \in Nat /\ room >= MinRoom
    BY StreamsAssumption
  <2>3. /\ UNCHANGED <<snd, snd_cnx, server>>
        /\ \/ GivenUp(lost, room)
           \/ /\ Repeat(packets[lost], room)
              /\ queue' = (queue \ {lost}) \cup {Len(packets) + 1}
    BY <1>1 DEF retransmit_needed, GivenUp
  <2> HIDE DEF lost
  <2>4. GivenUp(lost, room) \/ SentAgain(lost) \/ SentInParts(lost, room)
    <3>0. packets[lost] \in StreamFrames
      BY <2>1, FramesAreTyped
    <3>1. packets[lost].length \in Nat
      BY <3>0, FrameTypes
    <3>2. ~ (packets[lost].length <= room) => packets[lost].length > room
      BY <2>2, <3>1
    <3> QED BY <2>3, <3>2 DEF Repeat, SentAgain, SentInParts
  <2> QED BY <2>1, <2>2, <2>3, <2>4 DEF RepeatStep
<1>2. write_rtx_frame => RepeatStep
  BY DEF write_rtx_frame, RepeatStep, Moved
<1>3. ASSUME NEW n \in queue, packet_acknowledged(n) PROVE RepeatStep
  BY <1>3 DEF packet_acknowledged, RepeatStep, Acked
<1> QED BY <1>1, <1>2, <1>3

LEMMA ArrivalIsTaken ==
  ASSUME StreamTypes, HeadsInv, StreamCredit, NoErrorIsRaised, NEW n \in DOMAIN packets, Arrive(n)
  PROVE  /\ rcv_cnx'.error = FALSE
         /\ \E r2 : ArrivalStep(n, r2)
<1> DEFINE f == packets[n]
           s == f.id
           r == rcv[s]
           st == snd[s]
<1>1. f \in StreamFrames /\ FrameOk(f, st)
  BY FramesAreTyped DEF HeadsInv
<1>2. s \in Ids /\ End(f) \in Nat /\ f.offset \in Nat /\ f.fin \in BOOLEAN
  BY <1>1, FrameTypes
<1>3. r \in RcvHeads /\ st \in SndHeads /\ RcvOk(r, st)
  BY <1>2 DEF StreamTypes, HeadsInv
<1>4. End(f) > r.fin_offset => WithinCredit(r, End(f))
  BY <1>1, CreditSuffices
<1> DEFINE o == r.fin_offset
           z == st.sent_offset
           e == End(f)
<1>5. o \in Nat /\ z \in Nat /\ e \in Nat /\ e <= z
  BY <1>1, <1>2, <1>3 DEF RcvHeads, SndHeads, FrameOk
<1>6. (r.fin_received \/ r.reset_received => o = z) /\ (f.fin => e = z)
  BY Zenon, <1>1, <1>3 DEF RcvOk, FrameOk
<1>7. /\ (rcv_cnx' = [rcv_cnx EXCEPT !.data_received = @ + Counted(r, End(f))])
           => rcv_cnx'.error = FALSE
  BY DEF StreamTypes, NoErrorIsRaised
<1>8. ASSUME NEW r2, rcv' = [rcv EXCEPT ![s] = r2],
             rcv_cnx' = [rcv_cnx EXCEPT !.data_received = @ + Counted(r, End(f))],
             Takes(r, r2, st, f), Stretch(f, HeldIn(r), HeldIn(r2))
      PROVE  rcv_cnx'.error = FALSE /\ ArrivalStep(n, r2)
  <2>1. rcv_cnx'.error = FALSE
    BY <1>7, <1>8
  <2>2. arrived' = arrived \cup {n} /\ UNCHANGED <<client, control>>
    BY <2>1 DEF Arrive
  <2> QED BY <1>8, <2>1, <2>2 DEF ArrivalStep
<1>9. CASE f.type = "STREAM"
  <2>1. stream_network_input(f)
    BY <1>9 DEF Arrive
  <2>2. ~ (r.fin_received /\ (IF f.fin THEN e # o ELSE e > o))
    <3> HIDE DEF e, o, z
    <3> QED BY <1>5, <1>6
  <2>3. /\ rcv' = [rcv EXCEPT ![s] = TakenIn(r, f)]
        /\ rcv_cnx' = [rcv_cnx EXCEPT !.data_received = @ + Counted(r, End(f))]
    BY <1>4, <2>1, <2>2 DEF stream_network_input, TakenIn, StoredIn
  <2>4. Takes(r, TakenIn(r, f), st, f) /\ Stretch(f, HeldIn(r), HeldIn(TakenIn(r, f)))
    BY Zenon, <1>1, <1>3, TakesFrame
  <2> QED BY Zenon, <1>8, <2>3, <2>4
<1>10. CASE f.type # "STREAM"
  <2>0. f.type = "RESET_STREAM"
    BY <1>1, <1>10 DEF StreamFrames
  <2>1. process_stream_reset_frame(f)
    BY <1>10 DEF Arrive
  <2>2. f.offset = z /\ e = f.offset
    <3>1. f.length = 0 /\ f.offset = z
      BY <1>1, <2>0 DEF FrameOk
    <3> QED BY <1>2, <3>1 DEF End
  <2>3. ~ ((r.fin_received \/ r.reset_received) /\ f.offset # r.fin_offset)
    BY <1>6, <2>2
  <2>4. /\ rcv' = [rcv EXCEPT ![s] = ResetIn(r, f)]
        /\ rcv_cnx' = [rcv_cnx EXCEPT !.data_received = @ + Counted(r, End(f))]
    BY <1>4, <2>1, <2>2, <2>3 DEF process_stream_reset_frame, ResetIn
  <2>5. Takes(r, ResetIn(r, f), st, f) /\ Stretch(f, HeldIn(r), HeldIn(ResetIn(r, f)))
    BY Zenon, <1>1, <1>3, <2>0, TakesReset
  <2> QED BY Zenon, <1>8, <2>4, <2>5
<1> QED BY Zenon, <1>9, <1>10

LEMMA EveryStep ==
  ASSUME OneWay, StreamsInv, Next
  PROVE  StreamsStep
<1>0. StreamTypes /\ HeadsInv /\ StreamCredit /\ NoErrorIsRaised
  BY DEF StreamsInv
<1>1. ASSUME NEW s \in Ids,
             \/ \E n \in 0..MaxBytes, fin \in BOOLEAN : add_to_stream(s, n, fin)
             \/ mark_active_stream(s) \/ reset_stream(s)
      PROVE  StreamsStep
  BY <1>0, <1>1, ApiIsQuiet DEF StreamsStep
<1>2. ASSUME (\E s \in Ids : stop_sending(s)) \/ prepare_server_packet PROVE StreamsStep
  BY <1>0, <1>2, ServerGrants DEF StreamsStep
<1>3. ASSUME prepare_stream_frame PROVE StreamsStep
  BY <1>0, <1>3, FrameIsPrepared DEF StreamsStep
<1>4. ASSUME \/ \E room \in MinRoom..MaxRoom : retransmit_needed(room)
             \/ write_rtx_frame
             \/ \E n \in queue : packet_acknowledged(n)
      PROVE  StreamsStep
  BY <1>0, <1>4, RetransmissionSteps DEF StreamsStep
<1>5. ASSUME NEW n \in DOMAIN packets, Arrive(n) PROVE StreamsStep
  BY Zenon, <1>0, <1>5, ArrivalIsTaken DEF StreamsStep
<1>6. ASSUME NEW f \in control, process_max_data_frame(f) PROVE StreamsStep
  BY <1>6 DEF StreamsStep
<1>7. ASSUME NEW f \in control, process_max_stream_data_frame(f) \/ process_stop_sending_frame(f)
      PROVE  StreamsStep
  BY <1>0, <1>7, ControlIsQuiet DEF StreamsStep
<1> QED BY Zenon, <1>1, <1>2, <1>3, <1>4, <1>5, <1>6, <1>7 DEF Next

-----------------------------------------------------------------------------

LEMMA FramesSent ==
  ASSUME StreamTypes, NEW s \in Ids, NEW n \in Nat, NEW fin \in BOOLEAN
  PROVE  LET f == StreamFrame(s, snd[s].sent_offset, n, fin)
             g == ResetFrame(s, snd[s].sent_offset)
         IN /\ f \in StreamFrames /\ f.type = "STREAM" /\ f.id = s /\ f.offset = snd[s].sent_offset
            /\ End(f) = snd[s].sent_offset + n /\ f.fin = fin
            /\ g \in StreamFrames /\ g.id = s /\ g.offset = snd[s].sent_offset
<1>1. snd[s].sent_offset \in Nat
  BY DEF StreamTypes, SndHeads
<1> QED BY <1>1 DEF StreamFrame, ResetFrame, StreamFrames, End

LEMMA StepKeepsInv ==
  ASSUME OneWay, StreamsInv, [Next]_vars
  PROVE  StreamsInv'
<1>0. StreamTypes /\ HeadsInv /\ StreamCredit /\ LiveInv /\ NoErrorIsRaised
  BY DEF StreamsInv
<1>1. CASE UNCHANGED vars
  BY Zenon, <1>1 DEF StreamsInv, StreamTypes, HeadsInv, StreamCredit, Ahead, LiveInv, Live, NoErrorIsRaised, vars
<1>2. ASSUME NEW s \in Ids, NEW st, QuietStep(s, st) PROVE StreamsInv'
  <2>1. StreamTypes' /\ HeadsInv' /\ StreamCredit'
    BY <1>0, <1>2, QuietKeeps
  <2>2. packets' = packets /\ rtx_frames' = rtx_frames /\ arrived' = arrived /\ queue' = queue
        /\ rcv' = rcv /\ rcv_cnx' = rcv_cnx
    BY <1>2 DEF QuietStep, server
  <2>3. LiveInv'
    BY <1>0, <2>2, SameFramesStayLive
  <2> QED BY <1>0, <2>1, <2>2, <2>3 DEF StreamsInv, NoErrorIsRaised
<1>3. ASSUME NEW s \in Ids, NEW st, NEW n, NEW fin, DataStep(s, st, n, fin) PROVE StreamsInv'
  <2>1. StreamTypes' /\ HeadsInv' /\ StreamCredit'
    BY <1>0, <1>3, DataKeeps
  <2>2. /\ Send(StreamFrame(s, snd[s].sent_offset, n, fin)) /\ n \in Nat /\ fin \in BOOLEAN
        /\ rtx_frames' = rtx_frames /\ rcv' = rcv /\ rcv_cnx' = rcv_cnx /\ arrived' = arrived
    BY <1>3 DEF DataStep, Sends, server
  <2> DEFINE g == StreamFrame(s, snd[s].sent_offset, n, fin)
  <2>3. g \in StreamFrames /\ g.offset = snd[g.id].sent_offset
    BY <1>0, <2>2, FramesSent
  <2> HIDE DEF g
  <2>4. LiveInv'
    BY Zenon, <1>0, <2>2, <2>3, FreshKeepsLive DEF g
  <2> QED BY Zenon, <1>0, <2>1, <2>2, <2>4 DEF StreamsInv, NoErrorIsRaised
<1>4. ASSUME NEW s \in Ids, NEW st, ResetStep(s, st) PROVE StreamsInv'
  <2>1. StreamTypes' /\ HeadsInv' /\ StreamCredit'
    BY <1>0, <1>4, ResetKeeps
  <2> DEFINE g == ResetFrame(s, snd[s].sent_offset)
  <2>2. /\ Send(g)
        /\ rtx_frames' = rtx_frames /\ rcv' = rcv /\ rcv_cnx' = rcv_cnx /\ arrived' = arrived
    BY <1>4 DEF ResetStep, server
  <2>3. g \in StreamFrames /\ g.offset = snd[g.id].sent_offset
    BY Zenon, <1>0, FramesSent
  <2> HIDE DEF g
  <2>4. LiveInv'
    BY Zenon, <1>0, <2>2, <2>3, FreshKeepsLive
  <2> QED BY <1>0, <2>1, <2>2, <2>4 DEF StreamsInv, NoErrorIsRaised
<1>5. ASSUME RepeatStep PROVE StreamsInv'
  <2>1. StreamTypes' /\ HeadsInv' /\ StreamCredit' /\ LiveInv'
    BY <1>0, <1>5, RepeatKeeps, RepeatKeepsLive
  <2>2. rcv_cnx' = rcv_cnx
    BY <1>5 DEF RepeatStep, server
  <2> QED BY <1>0, <2>1, <2>2 DEF StreamsInv, NoErrorIsRaised
<1>6. ASSUME NEW n \in DOMAIN packets, NEW r2, ArrivalStep(n, r2) PROVE StreamsInv'
  <2>1. StreamTypes' /\ HeadsInv' /\ StreamCredit' /\ LiveInv'
    BY Zenon, <1>0, <1>6, ArrivalKeeps, ArrivalKeepsLive
  <2>2. rcv_cnx'.error = rcv_cnx.error
    BY <1>0, <1>6 DEF ArrivalStep, StreamTypes
  <2> QED BY <1>0, <2>1, <2>2 DEF StreamsInv, NoErrorIsRaised
<1>7. ASSUME GrantStep PROVE StreamsInv'
  <2>1. StreamTypes' /\ HeadsInv' /\ StreamCredit'
    BY <1>0, <1>7, GrantKeeps
  <2>2. /\ packets' = packets /\ rtx_frames' = rtx_frames /\ arrived' = arrived /\ queue' = queue
        /\ rcv_cnx'.error = rcv_cnx.error
    BY Zenon, <1>7 DEF GrantStep, client
  <2>3. \A s \in Ids : Held(rcv'[s]) = Held(rcv[s]) /\ rcv'[s].fin_received = rcv[s].fin_received
    BY <1>7 DEF GrantStep, SameBytes, Held
  <2>4. LiveInv'
    BY <1>0, <2>2, <2>3, SameFramesStayLive
  <2> QED BY <1>0, <2>1, <2>2, <2>4 DEF StreamsInv, NoErrorIsRaised
<1>8. ASSUME NEW f \in control, process_max_data_frame(f) PROVE StreamsInv'
  <2>1. StreamTypes' /\ HeadsInv' /\ StreamCredit'
    BY <1>0, <1>8, MaxDataKeeps
  <2>2. /\ packets' = packets /\ rtx_frames' = rtx_frames /\ arrived' = arrived /\ queue' = queue
        /\ rcv' = rcv /\ rcv_cnx' = rcv_cnx
    BY <1>8 DEF process_max_data_frame, server
  <2>3. LiveInv'
    BY <1>0, <2>2, SameFramesStayLive
  <2> QED BY <1>0, <2>1, <2>2, <2>3 DEF StreamsInv, NoErrorIsRaised
<1>9. CASE Next
  <2>1. StreamsStep
    BY <1>9, EveryStep
  <2> QED BY Zenon, <1>2, <1>3, <1>4, <1>5, <1>6, <1>7, <1>8, <2>1 DEF StreamsStep
<1> QED BY <1>1, <1>9

LEMMA StepLosesNoByte ==
  ASSUME OneWay, MinRoom > 0, StreamsInv, NothingIsLost, [Next]_vars
  PROVE  NothingIsLost'
<1>0. StreamTypes /\ HeadsInv /\ LiveInv
  BY DEF StreamsInv
<1>1. CASE UNCHANGED vars
  BY <1>1 DEF NothingIsLost, Outstanding, vars
<1>2. ASSUME NEW s \in Ids, NEW st, QuietStep(s, st) PROVE NothingIsLost'
  <2>1. /\ snd' = [snd EXCEPT ![s] = st] /\ Keeps(snd[s], st) /\ rcv' = rcv
        /\ UNCHANGED <<packets, queue, rtx_frames>>
    BY Zenon, <1>2 DEF QuietStep, server
  <2>2. \A t \in Ids : Keeps(snd[t], snd'[t])
    BY <1>0, <2>1 DEF StreamTypes, Keeps
  <2>3. StillHeld
    BY Zenon, <2>1 DEF StillHeld
  <2> QED BY <2>1, <2>2, <2>3, QuietLosesNothing
<1>3. ASSUME NEW s \in Ids, NEW st, NEW n, NEW fin, DataStep(s, st, n, fin) PROVE NothingIsLost'
  <2> DEFINE g == StreamFrame(s, snd[s].sent_offset, n, fin)
  <2>1. /\ Send(g) /\ rtx_frames' = rtx_frames /\ rcv' = rcv /\ snd' = [snd EXCEPT ![s] = st]
        /\ Sends(snd[s], st, n, fin)
    BY <1>3 DEF DataStep, server
  <2>2. n \in Nat /\ fin \in BOOLEAN
    BY <2>1 DEF Sends
  <2>3. /\ g \in StreamFrames /\ g.type = "STREAM" /\ g.id = s /\ g.offset = snd[s].sent_offset
        /\ End(g) = snd[s].sent_offset + n /\ g.fin = fin
    BY <1>0, <2>2, FramesSent
  <2>4. ~ snd[s].reset_sent /\ End(g) = st.sent_offset /\ (st.fin_sent => g.fin)
    <3>1. /\ st.sent_offset = snd[s].sent_offset + n /\ ~ st.reset_sent /\ (st.fin_sent => fin)
          /\ snd[s].reset_sent => st.reset_sent = snd[s].reset_sent
      BY <2>1 DEF Sends, Grows
    <3> HIDE DEF g
    <3> QED BY <2>3, <3>1
  <2> HIDE DEF g
  <2> QED BY Zenon, <1>0, <2>1, <2>3, <2>4, FreshLosesNothing
<1>4. ASSUME NEW s \in Ids, NEW st, ResetStep(s, st) PROVE NothingIsLost'
  <2> DEFINE g == ResetFrame(s, snd[s].sent_offset)
  <2>1. Send(g) /\ rtx_frames' = rtx_frames /\ rcv' = rcv /\ snd' = [snd EXCEPT ![s] = st] /\ st.reset_sent
    BY <1>4 DEF ResetStep, server
  <2>2. g \in StreamFrames
    BY Zenon, <1>0, FramesSent
  <2> HIDE DEF g
  <2> QED BY Zenon, <1>0, <2>1, <2>2, FreshLosesNothing
<1>5. ASSUME RepeatStep PROVE NothingIsLost'
  BY <1>0, <1>5, RepeatLosesNothing
<1>6. ASSUME NEW n \in DOMAIN packets, NEW r2, ArrivalStep(n, r2) PROVE NothingIsLost'
  <2> DEFINE s == packets[n].id
  <2>1. /\ Takes(rcv[s], r2, snd[s], packets[n]) /\ Stretch(packets[n], Held(rcv[s]), Held(r2))
        /\ rcv' = [rcv EXCEPT ![s] = r2] /\ snd' = snd
        /\ UNCHANGED <<packets, queue, rtx_frames>>
    BY <1>6 DEF ArrivalStep, client, HeldIn, Held, HeldBy
  <2>2. Held(rcv[s]) \subseteq Held(r2)
    <3> DEFINE H == Held(rcv[s])
               H2 == Held(r2)
    <3> HIDE DEF H, H2
    <3>1. H \subseteq H2
      BY Zenon, <2>1 DEF Stretch, H, H2
    <3> QED BY <3>1 DEF H, H2
  <2>3. rcv[s].fin_received => r2.fin_received
    BY Zenon, <2>1 DEF Takes
  <2>4. StillHeld
    BY <1>0, <2>1, <2>2, <2>3 DEF StillHeld, StreamTypes
  <2>5. \A t \in Ids : Keeps(snd[t], snd'[t])
    BY Zenon, <2>1 DEF Keeps
  <2> QED BY Zenon, <2>1, <2>4, <2>5, QuietLosesNothing
<1>7. ASSUME GrantStep PROVE NothingIsLost'
  <2>1. snd' = snd /\ UNCHANGED <<packets, queue, rtx_frames>>
    BY <1>7 DEF GrantStep, client
  <2>2. StillHeld
    BY ZenonT(40), <1>7 DEF GrantStep, SameBytes, Held, StillHeld
  <2>3. \A t \in Ids : Keeps(snd[t], snd'[t])
    BY <2>1 DEF Keeps
  <2> QED BY Zenon, <2>1, <2>2, <2>3, QuietLosesNothing
<1>8. ASSUME NEW f \in control, process_max_data_frame(f) PROVE NothingIsLost'
  <2>1. snd' = snd /\ rcv' = rcv /\ UNCHANGED <<packets, queue, rtx_frames>>
    BY <1>8 DEF process_max_data_frame, server
  <2>2. StillHeld
    BY <2>1 DEF StillHeld
  <2>3. \A t \in Ids : Keeps(snd[t], snd'[t])
    BY <2>1 DEF Keeps
  <2> QED BY <2>1, <2>2, <2>3, QuietLosesNothing
<1>9. CASE Next
  <2>1. StreamsStep
    BY Zenon, <1>9, EveryStep
  <2> QED BY Zenon, <1>2, <1>3, <1>4, <1>5, <1>6, <1>7, <1>8, <2>1 DEF StreamsStep
<1> QED BY <1>1, <1>9

-----------------------------------------------------------------------------

LEMMA InvIsEnough ==
  ASSUME StreamsInv
  PROVE  BlocksAreInOrder /\ EndIsTheEnd
<1>0. StreamTypes /\ HeadsInv
  BY DEF StreamsInv
<1>1. EndIsTheEnd
  BY Zenon, <1>0 DEF HeadsInv, RcvOk, EndIsTheEnd
<1>2. ASSUME NEW s \in Ids, NEW i \in DOMAIN rcv[s].stream_data
      PROVE  LET b == rcv[s].stream_data
             IN /\ b[i].length > 0 /\ End(b[i]) <= snd[s].sent_offset
                /\ b[i].offset > (IF i = 1 THEN rcv[s].consumed_offset ELSE End(b[i - 1]) - 1)
  <2> DEFINE b == rcv[s].stream_data
             c == rcv[s].consumed_offset
             z == snd[s].sent_offset
             o == b[i].offset
             e == End(b[i])
  <2>1. b \in Seq(DataBlocks) /\ c \in Nat /\ z \in Nat /\ DOMAIN b = 1..Len(b) /\ Len(b) \in Nat
    BY <1>0 DEF StreamTypes, RcvHeads, SndHeads
  <2>2. Ordered(b, c) /\ HeldBy(b, c) \subseteq 0..(z - 1) /\ (Len(b) > 0 => b[1].offset > c)
    BY Zenon, <1>0 DEF HeadsInv, RcvOk
  <2>3. i \in 1..Len(b)
    BY Zenon, <1>2, <2>1
  <2> HIDE DEF b, c, z
  <2>4. /\ o \in Nat /\ b[i].length \in Nat /\ e \in Nat /\ o < e
        /\ \A k, j \in 1..Len(b) : k < j => End(b[k]) <= b[j].offset
        /\ \A k \in 1..Len(b) : End(b[k]) \in Nat
    BY Zenon, <2>1, <2>2, <2>3, OrderedBlocks
  <2>5. e = o + b[i].length
    BY DEF End
  <2> HIDE DEF o, e
  <2>6. b[i].length > 0
    BY <2>4, <2>5
  <2>7. e <= z
    <3>1. e - 1 \in Nat /\ o <= e - 1 /\ e - 1 < e
      BY <2>4
    <3>2. e - 1 \in HeldBy(b, c)
      <4> DEFINE y == e - 1
      <4>2. y \in Nat /\ b[i].offset <= y /\ y < End(b[i])
        BY <3>1 DEF o, e
      <4> HIDE DEF y
      <4>3. y \in HeldBy(b, c)
        BY Zenon, <2>1, <2>2, <2>3, <4>2, HeldMeans
      <4> QED BY <4>3 DEF y
    <3> QED BY <2>1, <2>2, <2>4, <3>2
  <2>8. o > (IF i = 1 THEN c ELSE End(b[i - 1]) - 1)
    <3>1. CASE i = 1
      BY <2>1, <2>2, <2>3, <3>1 DEF o
    <3>2. CASE i # 1
      <4>1. i - 1 \in 1..Len(b) /\ i - 1 < i
        BY <2>1, <2>3, <3>2
      <4>2. End(b[i - 1]) <= o /\ End(b[i - 1]) \in Nat
        BY <2>3, <2>4, <4>1 DEF o
      <4> QED BY <2>4, <3>2, <4>2
    <3> QED BY <3>1, <3>2
  <2> QED BY Zenon, <2>6, <2>7, <2>8 DEF b, c, z, o, e
<1>3. BlocksAreInOrder
  BY <1>2 DEF BlocksAreInOrder
<1> QED BY <1>1, <1>3

(***************************************************************************)
(* Whatever is lost, split, delayed and repeated, a server that runs this   *)
(* code never finds fault with a client that does (neither the limits of    *)
(* flow_control_check_stream_offset nor the checks of the final size in     *)
(* stream_network_input and process_stream_reset_frame are ever broken),    *)
(* as long as no stream is both polled and reset.                          *)
(***************************************************************************)
THEOREM ServerFindsNoFault ==
  ASSUME OneWay PROVE Spec => []NoErrorIsRaised
<1>1. Init => StreamsInv
  BY BeginsSound
<1>2. StreamsInv /\ [Next]_vars => StreamsInv'
  BY StepKeepsInv
<1>3. StreamsInv => NoErrorIsRaised
  BY DEF StreamsInv
<1> QED BY <1>1, <1>2, <1>3, PTL DEF Spec

(***************************************************************************)
(* What queue_network_input and stream_data_callback leave in stream_data   *)
(* are disjoint blocks in order, above what was delivered, and within what  *)
(* was sent.                                                               *)
(***************************************************************************)
THEOREM BlocksStayInOrder ==
  ASSUME OneWay PROVE Spec => []BlocksAreInOrder
<1>1. Init => StreamsInv
  BY BeginsSound
<1>2. StreamsInv /\ [Next]_vars => StreamsInv'
  BY StepKeepsInv
<1>3. StreamsInv => BlocksAreInOrder
  BY InvIsEnough
<1> QED BY <1>1, <1>2, <1>3, PTL DEF Spec

(***************************************************************************)
(* stream_data_callback signals the end of a stream only once everything    *)
(* up to the FIN that was sent has been delivered.                          *)
(***************************************************************************)
THEOREM EndSignalledIsTheEnd ==
  ASSUME OneWay PROVE Spec => []EndIsTheEnd
<1>1. Init => StreamsInv
  BY BeginsSound
<1>2. StreamsInv /\ [Next]_vars => StreamsInv'
  BY StepKeepsInv
<1>3. StreamsInv => EndIsTheEnd
  BY InvIsEnough
<1> QED BY <1>1, <1>2, <1>3, PTL DEF Spec

(***************************************************************************)
(* If a lost frame always finds room for one byte in the packet that        *)
(* repeats it (retransmit_needed gives the frame up otherwise), every byte  *)
(* sent on a stream that was not reset, and its FIN, is held by the server  *)
(* or carried by a frame that waits for its acknowledgement.                *)
(***************************************************************************)
THEOREM NoByteIsLost ==
  ASSUME OneWay, MinRoom > 0 PROVE Spec => []NothingIsLost
<1>1. Init => StreamsInv /\ NothingIsLost
  BY BeginsSound
<1>2. StreamsInv /\ [Next]_vars => StreamsInv'
  BY StepKeepsInv
<1>3. StreamsInv /\ NothingIsLost /\ [Next]_vars => NothingIsLost'
  BY StepLosesNoByte
<1> QED BY <1>1, <1>2, <1>3, PTL DEF Spec

-----------------------------------------------------------------------------

(***************************************************************************)
(* Data goes out twice in a row on one stream only if no other is ready.    *)
(***************************************************************************)
LEMMA OnlyOneReady ==
  ASSUME NEW R \in SUBSET Nat, R # {}, NEW last \in Int, NextInTurn(R, last) = last
  PROVE  R \subseteq {last}
<1> DEFINE after == {s \in R : s > last}
<1>1. CASE after # {}
  <2>1. after \in SUBSET Nat
    BY Zenon
  <2>2. Min(after) \in after
    <3> HIDE DEF after
    <3> QED BY Zenon, <1>1, <2>1, MinOfPositions
  <2>3. NextInTurn(R, last) = Min(after)
    BY <1>1 DEF NextInTurn
  <2> HIDE DEF after
  <2>4. last \in after
    BY <2>2, <2>3
  <2> QED BY <2>4 DEF after
<1>2. CASE after = {}
  <2>1. NextInTurn(R, last) = Min(R)
    BY <1>2 DEF NextInTurn
  <2>2. \A s \in R : last <= s
    BY <2>1, MinOfPositions
  <2>3. \A s \in R : ~ (s > last) /\ s \in Nat
    BY <1>2
  <2> QED BY <2>2, <2>3
<1> QED BY <1>1, <1>2

LEMMA StepTakesTurns ==
  ASSUME StreamTypes, [Next]_vars, snd_cnx'.data_sent > snd_cnx.data_sent,
         snd_cnx'.last_visited = snd_cnx.last_visited
  PROVE  Ready \subseteq {snd_cnx.last_visited}
<1>1. snd_cnx \in [maxdata_remote : Nat, data_sent : Nat, last_visited : Int]
  BY DEF StreamTypes
<1>2. snd_cnx.data_sent \in Nat /\ snd_cnx.last_visited \in Int
  BY <1>1
<1>3. ~ (snd_cnx.data_sent > snd_cnx.data_sent)
  BY <1>2
<1>4. snd_cnx' # snd_cnx /\ \A v : snd_cnx' # [snd_cnx EXCEPT !.maxdata_remote = v]
  BY <1>1, <1>3
<1> DEFINE s == NextInTurn(Ready, snd_cnx.last_visited)
<1>5. prepare_stream_frame
  BY Zenon, <1>4 DEF Next, vars, add_to_stream, mark_active_stream, reset_stream, stop_sending, retransmit_needed,
              write_rtx_frame, packet_acknowledged, Arrive, prepare_server_packet, process_max_data_frame,
              process_max_stream_data_frame, process_stop_sending_frame, client, server
<1>6. /\ Ready # {}
      /\ \/ prepare_stream_reset_frame(s)
         \/ \E n, fin : DataSent(s, n, fin)
  BY Zenon, <1>5 DEF prepare_stream_frame, prepare_queued_frame, prepare_polled_frame
<1>7. ~ prepare_stream_reset_frame(s)
  BY <1>4 DEF prepare_stream_reset_frame
<1>8. snd_cnx'.last_visited = s
  BY Zenon, <1>1, <1>6, <1>7 DEF DataSent
<1>9. Ready \in SUBSET Nat
  BY Zenon, StreamsAssumption DEF Ready
<1> HIDE DEF s
<1>10. NextInTurn(Ready, snd_cnx.last_visited) = snd_cnx.last_visited
  BY <1>8 DEF s
<1> QED BY Zenon, <1>2, <1>6, <1>9, <1>10, OnlyOneReady

(***************************************************************************)
(* find_ready_stream_round_robin lets the streams take turns: no stream is  *)
(* served twice in a row while another one has data and credit.             *)
(***************************************************************************)
THEOREM StreamsTakeTurns ==
  ASSUME OneWay PROVE Spec => TurnsAreTaken
<1>1. Init => StreamsInv
  BY BeginsSound
<1>2. StreamsInv /\ [Next]_vars => StreamsInv'
  BY StepKeepsInv
<1>3. StreamsInv /\ [Next]_vars
        => [snd_cnx'.data_sent > snd_cnx.data_sent /\ snd_cnx'.last_visited = snd_cnx.last_visited
              => Ready \subseteq {snd_cnx.last_visited}]_vars
  BY StepTakesTurns DEF StreamsInv
<1> QED BY <1>1, <1>2, <1>3, PTL DEF Spec, TurnsAreTaken

=============================================================================
