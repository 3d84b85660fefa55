------------------------ MODULE StreamActions_proofs ------------------------
(***************************************************************************)
(* What the actions of the streams do: the calls of the application and the *)
(* frames the client prepares, and what a frame and a grant of credit do to a *)
(* stream of the server.                                                   *)
(***************************************************************************)
EXTENDS StreamsInvariant, CommonLemmas

\* The time the provers are given for a step.
USE SMTT(20), ZenonT(30)

(***************************************************************************)
(* A head of which only fields that tell nothing of what was sent change.   *)
(***************************************************************************)
Added(st, n, fin) ==
  LET refused == st.reset_sent \/ st.stop_sending_received
      noted == [st EXCEPT !.fin_requested = @ \/ fin]
      queued == IF n = 0 THEN noted
                ELSE [noted EXCEPT !.send_queue = Append(@, n), !.sending_offset = @ + n]
  IN IF refused THEN noted ELSE [queued EXCEPT !.is_active = FALSE]

LEMMA AddToHead ==
  ASSUME NEW st \in SndHeads, SndOk(st), NEW n \in Nat, NEW fin \in BOOLEAN, ~ st.fin_requested,
         NEW st2, st2 = Added(st, n, fin)
  PROVE  /\ st2 \in SndHeads /\ SndOk(st2) /\ Grows(st, st2) /\ Keeps(st, st2)
         /\ st2.maxdata_remote = st.maxdata_remote
<1> USE DEF Added
<1>1. st.sent_offset \in Nat /\ st.send_queue \in Seq(Nat \ {0})
  BY DEF SndHeads
<1>2. n # 0 => Append(st.send_queue, n) \in Seq(Nat \ {0})
  BY <1>1
<1>3. st2 \in SndHeads
  <2> DEFINE noted == [st EXCEPT !.fin_requested = @ \/ fin]
             longer == [noted EXCEPT !.send_queue = Append(@, n), !.sending_offset = @ + n]
  <2>1. noted \in SndHeads /\ noted.send_queue = st.send_queue
    BY Zenon DEF SndHeads
  <2>2. noted.sending_offset \in Nat
    BY <2>1 DEF SndHeads
  <2> HIDE DEF noted
  <2>3. n # 0 => longer \in SndHeads
    <3>1. n # 0 => Append(noted.send_queue, n) \in Seq(Nat \ {0})
      BY <1>2, <2>1
    <3>2. noted.sending_offset + n \in Nat
      BY <2>2
    <3> QED BY Zenon, <2>1, <3>1, <3>2 DEF SndHeads
  <2> HIDE DEF longer
  <2>4. /\ [noted EXCEPT !.is_active = FALSE] \in SndHeads
        /\ n # 0 => [longer EXCEPT !.is_active = FALSE] \in SndHeads
    BY Zenon, <2>1, <2>3 DEF SndHeads
  <2>5. st2 = IF st.reset_sent \/ st.stop_sending_received THEN noted
              ELSE IF n = 0 THEN [noted EXCEPT !.is_active = FALSE] ELSE [longer EXCEPT !.is_active = FALSE]
    BY Zenon DEF noted, longer
  <2> QED BY Zenon, <2>1, <2>4, <2>5
<1>4. /\ st2.sent_offset = st.sent_offset /\ st2.maxdata_remote = st.maxdata_remote
      /\ st2.fin_sent = st.fin_sent /\ st2.reset_sent = st.reset_sent
      /\ st2.reset_requested = st.reset_requested
      /\ st2.is_active => st.is_active /\ st2.send_queue = st.send_queue
      /\ st.reset_sent => st2.send_queue = st.send_queue
      /\ st.fin_requested => st2.fin_requested
  BY DEF SndHeads
<1>5. ~ (st.fin_sent /\ ~ st.reset_sent)
  BY DEF SndOk
<1> QED BY <1>1, <1>3, <1>4, <1>5 DEF SndOk, Grows, Keeps

LEMMA FlagsOfHead ==
  ASSUME NEW st \in SndHeads, SndOk(st), NEW st2,
         \/ /\ "active" \in Calls /\ st.send_queue = <<>> /\ ~ st.fin_requested
            /\ st2 = [st EXCEPT !.is_active = TRUE]
         \/ /\ "reset" \in Calls /\ ~ st.fin_sent /\ ~ st.reset_requested
            /\ st2 = [st EXCEPT !.reset_requested = TRUE]
         \/ st2 = [st EXCEPT !.stop_sending_received = TRUE]
         \/ \E v \in Nat : v > st.maxdata_remote /\ st2 = [st EXCEPT !.maxdata_remote = v]
  PROVE  st2 \in SndHeads /\ SndOk(st2) /\ Grows(st, st2) /\ Keeps(st, st2)
<1>1. st.sent_offset \in Nat /\ st.maxdata_remote \in Nat
  BY DEF SndHeads
<1>2. st2 \in SndHeads
  BY Zenon DEF SndHeads
<1>3. /\ st2.sent_offset = st.sent_offset
      /\ st2.fin_sent = st.fin_sent /\ st2.reset_sent = st.reset_sent
      /\ st2.send_queue = st.send_queue /\ st2.fin_requested = st.fin_requested
      /\ st2.reset_requested => st.reset_requested \/ ("reset" \in Calls /\ ~ st.fin_sent)
      /\ st.reset_requested => st2.reset_requested
      /\ st2.is_active => st.is_active \/ ("active" \in Calls /\ st.send_queue = <<>>)
  BY DEF SndHeads
<1>4. st2.sent_offset <= st2.maxdata_remote
  <2>1. st2.maxdata_remote \in Nat /\ st.maxdata_remote <= st2.maxdata_remote
    BY <1>1 DEF SndHeads
  <2>2. st.sent_offset <= st.maxdata_remote
    BY DEF SndOk
  <2> DEFINE a == st.sent_offset
             b == st.maxdata_remote
             c == st2.maxdata_remote
  <2>3. a \in Nat /\ b \in Nat /\ c \in Nat /\ a <= b /\ b <= c
    BY <1>1, <2>1, <2>2
  <2> HIDE DEF a, b, c
  <2>4. a <= c
    BY <2>3
  <2> QED BY <2>4, <1>3 DEF a, c
<1> QED BY <1>1, <1>2, <1>3, <1>4 DEF SndOk, Grows, Keeps

LEMMA ResetOfHead ==
  ASSUME NEW st \in SndHeads, SndOk(st), SendReset(st), NEW st2,
         st2 = [st EXCEPT !.reset_sent = TRUE, !.fin_sent = TRUE, !.send_queue = <<>>]
  PROVE  /\ st2 \in SndHeads /\ SndOk(st2) /\ Grows(st, st2)
         /\ st2.sent_offset = st.sent_offset /\ st2.reset_sent /\ st2.maxdata_remote = st.maxdata_remote
<1>1. st.sent_offset \in Nat /\ <<>> \in Seq(Nat \ {0})
  BY DEF SndHeads
<1>2. st2 \in SndHeads
  BY Zenon, <1>1 DEF SndHeads
<1>3. /\ st2.sent_offset = st.sent_offset /\ st2.maxdata_remote = st.maxdata_remote
      /\ st2.reset_sent /\ st2.fin_sent /\ st2.send_queue = <<>>
      /\ st2.reset_requested = st.reset_requested /\ st2.is_active = st.is_active
  BY DEF SndHeads
<1>4. ~ st.fin_sent /\ ~ st.reset_sent /\ st.reset_requested
  BY DEF SndOk, SendReset
<1>5. SndOk(st2)
  BY <1>3, <1>4 DEF SndOk
<1>6. Grows(st, st2)
  <2>1. st.sent_offset <= st2.sent_offset
    BY <1>1, <1>3
  <2>2. ~ (st.fin_sent \/ st.reset_sent)
    BY <1>4, Zenon
  <2> QED BY <2>1, <2>2, Zenon DEF Grows
<1> QED BY <1>2, <1>3, <1>5, <1>6

(***************************************************************************)
(* The bytes a frame takes from the queue or from the application.  An      *)
(* application that both polls streams and resets them may send data after  *)
(* a RESET_STREAM; it makes one of these calls only.                        *)
(***************************************************************************)
OneWay == ~ ({"active", "reset"} \subseteq Calls)

LEMMA QueuedHead ==
  ASSUME OneWay, NEW st \in SndHeads, SndOk(st), ~ SendReset(st), HasData(st),
         NEW space \in Nat \ {0}, st.sent_offset + space <= st.maxdata_remote,
         NEW n, n = IF st.send_queue = <<>> THEN 0 ELSE Min({Head(st.send_queue), space}),
         NEW left, left = TakenFrom(st.send_queue, n),
         NEW fin, fin = (left = <<>> /\ st.fin_requested), NEW st2,
         st2 = [st EXCEPT !.send_queue = left, !.sent_offset = @ + n, !.fin_sent = @ \/ fin]
  PROVE  Sends(st, st2, n, fin) /\ n <= space
<1> DEFINE q == st.send_queue
<1>1. q \in Seq(Nat \ {0}) /\ st.sent_offset \in Nat /\ st.maxdata_remote \in Nat
      /\ st.fin_requested \in BOOLEAN /\ st.fin_sent \in BOOLEAN
  BY DEF SndHeads
<1>2. ~ st.reset_sent /\ ~ st.reset_requested
  BY DEF OneWay, SndOk, HasData, SendReset
<1>3. n \in Nat /\ n <= space /\ left \in Seq(Nat \ {0}) /\ (q = <<>> => n = 0 /\ left = <<>>)
  <2>1. CASE q = <<>>
    BY <2>1 DEF TakenFrom
  <2>2. CASE q # <<>>
    <3>1. Head(q) \in Nat \ {0} /\ Tail(q) \in Seq(Nat \ {0}) /\ q[1] = Head(q) /\ 1 \in 1..Len(q)
      BY <1>1, <2>2
    <3>2. n = IF Head(q) <= space THEN Head(q) ELSE space
      <4> DEFINE h == Head(q)
      <4>1. h \in Int /\ space \in Int /\ n = Min({h, space})
        BY <2>2, <3>1
      <4> HIDE DEF h
      <4> QED BY Zenon, <4>1, MinOfTwo DEF h
    <3>3. n \in Nat /\ n <= space /\ n <= Head(q)
      BY <3>1, <3>2
    <3>4. n # Head(q) => Head(q) - n \in Nat \ {0}
      BY <3>1, <3>3
    <3>5. n # Head(q) => [q EXCEPT ![1] = Head(q) - n] \in Seq(Nat \ {0})
      BY <1>1, <3>1, <3>4
    <3>6. n # Head(q) => left = [q EXCEPT ![1] = Head(q) - n]
      BY <2>2, <3>1 DEF TakenFrom
    <3>7. n = Head(q) => left = Tail(q)
      BY Zenon, <2>2 DEF TakenFrom
    <3> QED BY Zenon, <2>2, <3>1, <3>3, <3>5, <3>6, <3>7
  <2> QED BY <2>1, <2>2
<1>4. fin \in BOOLEAN
  OBVIOUS
<1>5. st2 \in SndHeads
  <2>1. st.sent_offset + n \in Nat
    BY <1>1, <1>3
  <2>2. (st.fin_sent \/ fin) \in BOOLEAN
    OBVIOUS
  <2> QED BY Zenon, <1>3, <2>1, <2>2 DEF SndHeads
<1>6. /\ st2.sent_offset = st.sent_offset + n /\ st2.maxdata_remote = st.maxdata_remote
      /\ st2.send_queue = left /\ st2.fin_sent = (st.fin_sent \/ fin)
      /\ st2.fin_requested = st.fin_requested /\ st2.reset_requested = st.reset_requested
      /\ st2.reset_sent = st.reset_sent /\ st2.is_active = st.is_active
  BY DEF SndHeads
<1>7. st.fin_sent => n = 0 /\ left = <<>> /\ fin
  BY Zenon, <1>2, <1>3 DEF SndOk
<1>8. st2.sent_offset <= st2.maxdata_remote
  <2> DEFINE a == st.sent_offset
             b == st.maxdata_remote
  <2>1. a \in Nat /\ b \in Nat /\ a + space <= b
    BY <1>1
  <2> HIDE DEF a, b
  <2>2. a + n <= b
    BY <2>1, <1>3
  <2> QED BY <2>2, <1>6 DEF a, b
<1>9. SndOk(st2)
  BY Zenon, <1>2, <1>3, <1>6, <1>7, <1>8 DEF SndOk
<1>10. Grows(st, st2)
  <2>1. st.sent_offset <= st2.sent_offset
    BY <1>1, <1>3, <1>6
  <2>2. st.fin_sent => st2.sent_offset = st.sent_offset /\ st2.fin_sent
    BY <1>1, <1>6, <1>7
  <2> QED BY <2>1, <2>2, <1>1, <1>2, <1>6 DEF Grows
<1> QED BY Zenon, <1>2, <1>3, <1>4, <1>5, <1>6, <1>7, <1>9, <1>10 DEF Sends

LEMMA PolledHead ==
  ASSUME OneWay, NEW st \in SndHeads, SndOk(st), st.is_active, ~ st.fin_requested,
         NEW space \in Nat, st.sent_offset + space <= st.maxdata_remote,
         NEW n \in Nat, n <= space, NEW fin \in BOOLEAN, NEW still \in BOOLEAN, NEW st2,
         st2 = [st EXCEPT !.sent_offset = @ + n, !.sending_offset = @ + n,
                          !.is_active = still /\ ~ fin, !.fin_requested = fin, !.fin_sent = fin]
  PROVE  Sends(st, st2, n, fin)
<1>1. st.send_queue = <<>> /\ st.sent_offset \in Nat /\ st.maxdata_remote \in Nat
      /\ st.sending_offset \in Nat /\ st.fin_sent \in BOOLEAN
  BY DEF SndHeads, SndOk
<1>2. ~ st.reset_sent /\ ~ st.reset_requested /\ ~ st.fin_sent /\ "active" \in Calls
  BY DEF OneWay, SndOk
<1>3. st2 \in SndHeads
  <2>1. st.sent_offset + n \in Nat /\ st.sending_offset + n \in Nat /\ (still /\ ~ fin) \in BOOLEAN
    BY <1>1
  <2> QED BY Zenon, <2>1 DEF SndHeads
<1>4. /\ st2.sent_offset = st.sent_offset + n /\ st2.maxdata_remote = st.maxdata_remote
      /\ st2.send_queue = st.send_queue /\ st2.fin_sent = fin /\ st2.fin_requested = fin
      /\ st2.reset_requested = st.reset_requested /\ st2.reset_sent = st.reset_sent
  BY DEF SndHeads
<1>5. st2.sent_offset <= st2.maxdata_remote /\ st.sent_offset <= st2.sent_offset
  <2> DEFINE a == st.sent_offset
             b == st.maxdata_remote
  <2>1. a \in Nat /\ b \in Nat /\ a + space <= b
    BY <1>1
  <2> HIDE DEF a, b
  <2>2. a + n <= b /\ a <= a + n
    BY <2>1
  <2> QED BY <2>2, <1>4 DEF a, b
<1> QED BY <1>1, <1>2, <1>3, <1>4, <1>5 DEF SndOk, Grows, Sends

-----------------------------------------------------------------------------

LEMMA ApiIsQuiet ==
  ASSUME StreamTypes, HeadsInv, StreamCredit, NEW s \in Ids,
         \/ \E n \in 0..MaxBytes, fin \in BOOLEAN : add_to_stream(s, n, fin)
         \/ mark_active_stream(s) \/ reset_stream(s)
  PROVE  \E st : QuietStep(s, st)
<1>1. snd[s] \in SndHeads /\ SndOk(snd[s]) /\ snd[s].maxdata_remote <= rcv[s].maxdata_local
  BY DEF StreamTypes, HeadsInv, StreamCredit
<1>2. CASE \E n \in 0..MaxBytes, fin \in BOOLEAN : add_to_stream(s, n, fin)
  <2>1. PICK n \in 0..MaxBytes, fin \in BOOLEAN : add_to_stream(s, n, fin)
    BY <1>2
  <2>2. n \in Nat
    BY StreamsAssumption
  <2> DEFINE st == Added(snd[s], n, fin)
  <2>3. ~ snd[s].fin_requested /\ snd' = [snd EXCEPT ![s] = st]
        /\ UNCHANGED <<snd_cnx, packets, queue, rtx_frames, server>>
    BY <2>1, Zenon DEF add_to_stream, Added
  <2>4. st \in SndHeads /\ SndOk(st) /\ Grows(snd[s], st) /\ Keeps(snd[s], st)
        /\ st.maxdata_remote = snd[s].maxdata_remote
    BY <1>1, <2>2, <2>3, AddToHead
  <2> HIDE DEF st
  <2> QED BY Zenon, <1>1, <2>3, <2>4 DEF QuietStep
<1>3. CASE mark_active_stream(s)
  <2> DEFINE st == [snd[s] EXCEPT !.is_active = TRUE]
  <2>1. snd' = [snd EXCEPT ![s] = st] /\ UNCHANGED <<snd_cnx, packets, queue, rtx_frames, server>>
    BY <1>3 DEF mark_active_stream
  <2>2. "active" \in Calls /\ snd[s].send_queue = <<>> /\ ~ snd[s].fin_requested
    BY <1>3 DEF mark_active_stream
  <2>3. st \in SndHeads /\ SndOk(st) /\ Grows(snd[s], st) /\ Keeps(snd[s], st)
    BY <1>1, <2>2, FlagsOfHead, Zenon
  <2>4. st.maxdata_remote = snd[s].maxdata_remote
    BY <1>1 DEF SndHeads
  <2> HIDE DEF st
  <2> QED BY Zenon, <1>1, <2>1, <2>3, <2>4 DEF QuietStep
<1>4. CASE reset_stream(s)
  <2> DEFINE st == [snd[s] EXCEPT !.reset_requested = TRUE]
  <2>1. snd' = [snd EXCEPT ![s] = st] /\ UNCHANGED <<snd_cnx, packets, queue, rtx_frames, server>>
    BY <1>4 DEF reset_stream
  <2>2. "reset" \in Calls /\ ~ snd[s].fin_sent /\ ~ snd[s].reset_requested
    BY <1>4 DEF reset_stream
  <2>3. st \in SndHeads /\ SndOk(st) /\ Grows(snd[s], st) /\ Keeps(snd[s], st)
    BY <1>1, <2>2, FlagsOfHead, Zenon
  <2>4. st.maxdata_remote = snd[s].maxdata_remote
    BY <1>1 DEF SndHeads
  <2> HIDE DEF st
  <2> QED BY Zenon, <1>1, <2>1, <2>3, <2>4 DEF QuietStep
<1> QED BY <1>2, <1>3, <1>4

LEMMA ControlIsQuiet ==
  ASSUME StreamTypes, HeadsInv, StreamCredit, NEW f \in control,
         process_max_stream_data_frame(f) \/ process_stop_sending_frame(f)
  PROVE  \E s \in Ids : \E st : QuietStep(s, st)
<1> DEFINE s == f.id
<1>1. s \in Ids /\ f.value \in Nat
  BY DEF StreamTypes, ControlFrames, process_max_stream_data_frame, process_stop_sending_frame
<1>2. snd[s] \in SndHeads /\ SndOk(snd[s]) /\ snd[s].maxdata_remote <= rcv[s].maxdata_local
  BY <1>1 DEF StreamTypes, HeadsInv, StreamCredit
<1>3. CASE process_max_stream_data_frame(f)
  <2> DEFINE st == [snd[s] EXCEPT !.maxdata_remote = f.value]
  <2>1. snd' = [snd EXCEPT ![s] = st] /\ UNCHANGED <<snd_cnx, packets, queue, rtx_frames, server>>
    BY <1>3 DEF process_max_stream_data_frame
  <2>2. f.value > snd[s].maxdata_remote /\ f.value <= rcv[s].maxdata_local
    BY <1>3 DEF process_max_stream_data_frame, StreamCredit
  <2>3. st \in SndHeads /\ SndOk(st) /\ Grows(snd[s], st) /\ Keeps(snd[s], st)
    BY <1>1, <1>2, <2>2, FlagsOfHead, Zenon
  <2>4. st.maxdata_remote = f.value
    BY <1>2 DEF SndHeads
  <2> HIDE DEF st
  <2> QED BY Zenon, <1>1, <2>1, <2>2, <2>3, <2>4 DEF QuietStep
<1>4. CASE process_stop_sending_frame(f)
  <2> DEFINE st == [snd[s] EXCEPT !.stop_sending_received = TRUE]
  <2>1. snd' = [snd EXCEPT ![s] = st] /\ UNCHANGED <<snd_cnx, packets, queue, rtx_frames, server>>
    BY <1>4 DEF process_stop_sending_frame
  <2>3. st \in SndHeads /\ SndOk(st) /\ Grows(snd[s], st) /\ Keeps(snd[s], st)
    BY <1>2, FlagsOfHead, Zenon
  <2>4. st.maxdata_remote = snd[s].maxdata_remote
    BY <1>2 DEF SndHeads
  <2> HIDE DEF st
  <2> QED BY Zenon, <1>1, <1>2, <2>1, <2>3, <2>4 DEF QuietStep
<1> QED BY <1>3, <1>4

-----------------------------------------------------------------------------

LEMMA SpaceIsWithinCredit ==
  ASSUME StreamTypes, NEW s \in Ids, HasCredit(snd[s]), NEW room \in Nat \ {0}
  PROVE  LET space == AllowedSpace(snd[s], room)
         IN /\ space \in Nat \ {0} /\ snd[s].sent_offset + space <= snd[s].maxdata_remote
            /\ snd_cnx.data_sent + space <= snd_cnx.maxdata_remote
<1> DEFINE a == snd[s].maxdata_remote
           b == snd[s].sent_offset
           c == snd_cnx.maxdata_remote
           d == snd_cnx.data_sent
           S == {room, a - b, c - d}
<1>1. a \in Nat /\ b \in Nat /\ c \in Nat /\ d \in Nat /\ b < a /\ c > d
  BY DEF StreamTypes, SndHeads, HasCredit
<1>2. AllowedSpace(snd[s], room) = Min(S)
  BY DEF AllowedSpace
<1> HIDE DEF a, b, c, d
<1>3. S \in SUBSET (Nat \ {0}) /\ S # {}
  BY <1>1
<1>4. Min(S) \in S /\ \A y \in S : Min(S) <= y
  BY <1>3, MinOfPositions
<1> DEFINE m == Min(S)
<1>5. m \in Nat \ {0} /\ m <= a - b /\ m <= c - d
  BY <1>3, <1>4
<1> HIDE DEF m
<1>6. b + m <= a /\ d + m <= c
  BY <1>1, <1>5
<1> QED BY <1>2, <1>5, <1>6 DEF a, b, c, d, m

LEMMA TurnIsReady ==
  ASSUME Ready # {}
  PROVE  NextInTurn(Ready, snd_cnx.last_visited) \in Ready
<1> DEFINE after == {s \in Ready : s > snd_cnx.last_visited}
<1>1. Ready \in SUBSET Nat /\ after \in SUBSET Nat /\ after \subseteq Ready
  BY StreamsAssumption DEF Ready
<1>2. after # {} => Min(after) \in after
  BY <1>1, MinOfPositions
<1>3. Min(Ready) \in Ready
  BY <1>1, MinOfPositions
<1>4. NextInTurn(Ready, snd_cnx.last_visited) = IF after # {} THEN Min(after) ELSE Min(Ready)
  BY DEF NextInTurn
<1> HIDE DEF after
<1> QED BY Zenon, <1>1, <1>2, <1>3, <1>4

LEMMA FrameIsPrepared ==
  ASSUME OneWay, StreamTypes, HeadsInv, prepare_stream_frame
  PROVE  \E s \in Ids : \E st : ResetStep(s, st) \/ \E n, fin : DataStep(s, st, n, fin)
<1> DEFINE s == NextInTurn(Ready, snd_cnx.last_visited)
<1>1. /\ s \in Ids /\ (SendReset(snd[s]) \/ (HasCredit(snd[s]) /\ HasData(snd[s])))
      /\ snd[s] \in SndHeads /\ SndOk(snd[s])
  <2>1. s \in Ready
    BY TurnIsReady DEF prepare_stream_frame
  <2> HIDE DEF s
  <2> QED BY <2>1 DEF Ready, StreamTypes, HeadsInv
<1>2. \/ prepare_stream_reset_frame(s)
      \/ \E room \in 1..MaxRoom :
           \/ prepare_queued_frame(s, room)
           \/ \E n \in 0..room, fin, still \in BOOLEAN : prepare_polled_frame(s, room, n, fin, still)
  BY DEF prepare_stream_frame
<1> HIDE DEF s
<1>3. CASE prepare_stream_reset_frame(s)
  <2> DEFINE st == [snd[s] EXCEPT !.reset_sent = TRUE, !.fin_sent = TRUE, !.send_queue = <<>>]
  <2>1. /\ SendReset(snd[s]) /\ snd' = [snd EXCEPT ![s] = st]
        /\ Send(ResetFrame(s, snd[s].sent_offset)) /\ UNCHANGED <<snd_cnx, rtx_frames, server>>
    BY <1>3 DEF prepare_stream_reset_frame
  <2>2. /\ st \in SndHeads /\ SndOk(st) /\ Grows(snd[s], st)
        /\ st.sent_offset = snd[s].sent_offset /\ st.reset_sent /\ st.maxdata_remote = snd[s].maxdata_remote
    BY <1>1, <2>1, ResetOfHead, Zenon
  <2> HIDE DEF st
  <2> QED BY Zenon, <1>1, <2>1, <2>2 DEF ResetStep
<1>4. ASSUME NEW room \in 1..MaxRoom, prepare_queued_frame(s, room)
      PROVE  \E st : \E n, fin : DataStep(s, st, n, fin)
  <2> DEFINE space == AllowedSpace(snd[s], room)
             n == IF snd[s].send_queue = <<>> THEN 0 ELSE Min({Head(snd[s].send_queue), space})
             left == TakenFrom(snd[s].send_queue, n)
             fin == left = <<>> /\ snd[s].fin_requested
             st == [snd[s] EXCEPT !.send_queue = left, !.sent_offset = @ + n, !.fin_sent = @ \/ fin]
  <2>1. ~ SendReset(snd[s]) /\ DataSent(s, n, fin) /\ snd' = [snd EXCEPT ![s] = st]
    BY <1>4 DEF prepare_queued_frame
  <2>2. /\ space \in Nat \ {0} /\ snd[s].sent_offset + space <= snd[s].maxdata_remote
        /\ snd_cnx.data_sent + space <= snd_cnx.maxdata_remote
    <3>1. room \in Nat \ {0} /\ HasCredit(snd[s])
      BY <1>1, <2>1, StreamsAssumption
    <3> QED BY <1>1, <3>1, SpaceIsWithinCredit
  <2> HIDE DEF space
  <2>3. Sends(snd[s], st, n, fin) /\ n <= space
    <3>1. HasData(snd[s]) /\ n = (IF snd[s].send_queue = <<>> THEN 0 ELSE Min({Head(snd[s].send_queue), space}))
          /\ left = TakenFrom(snd[s].send_queue, n) /\ fin = (left = <<>> /\ snd[s].fin_requested)
          /\ st = [snd[s] EXCEPT !.send_queue = left, !.sent_offset = @ + n, !.fin_sent = @ \/ fin]
      BY <1>1, <2>1
    <3> HIDE DEF n, left, fin, st
    <3> QED BY Zenon, <1>1, <2>1, <2>2, <3>1, QueuedHead
  <2> HIDE DEF n, left, fin, st
  <2>4. snd_cnx.data_sent + n <= snd_cnx.maxdata_remote
    <3> DEFINE a == snd_cnx.data_sent
               b == snd_cnx.maxdata_remote
    <3>1. a \in Nat /\ b \in Nat /\ a + space <= b /\ n \in Nat
      BY <2>2, <2>3 DEF StreamTypes, Sends
    <3> HIDE DEF a, b
    <3>2. a + n <= b
      BY <2>2, <2>3, <3>1
    <3> QED BY <3>2 DEF a, b
  <2> QED BY Zenon, <2>1, <2>3, <2>4 DEF DataStep, DataSent
<1>5. ASSUME NEW room \in 1..MaxRoom, NEW n \in 0..room, NEW fin \in BOOLEAN, NEW still \in BOOLEAN,
             prepare_polled_frame(s, room, n, fin, still)
      PROVE  \E st : DataStep(s, st, n, fin)
  <2> DEFINE space == AllowedSpace(snd[s], room)
             st == [snd[s] EXCEPT !.sent_offset = @ + n, !.sending_offset = @ + n,
                                  !.is_active = still /\ ~ fin, !.fin_requested = fin, !.fin_sent = fin]
  <2>1. /\ ~ SendReset(snd[s]) /\ snd[s].is_active /\ ~ snd[s].fin_requested /\ n <= space
        /\ DataSent(s, n, fin) /\ snd' = [snd EXCEPT ![s] = st]
    BY <1>5 DEF prepare_polled_frame
  <2>2. /\ space \in Nat \ {0} /\ snd[s].sent_offset + space <= snd[s].maxdata_remote
        /\ snd_cnx.data_sent + space <= snd_cnx.maxdata_remote
    <3>1. room \in Nat \ {0} /\ HasCredit(snd[s])
      BY <1>1, <2>1, StreamsAssumption
    <3> QED BY <1>1, <3>1, SpaceIsWithinCredit
  <2> HIDE DEF space
  <2>3. Sends(snd[s], st, n, fin)
    <3>1. n \in Nat /\ space \in Nat
      BY <2>2
    <3>2. st = [snd[s] EXCEPT !.sent_offset = @ + n, !.sending_offset = @ + n,
                              !.is_active = still /\ ~ fin, !.fin_requested = fin, !.fin_sent = fin]
      OBVIOUS
    <3> HIDE DEF st
    <3> QED BY Zenon, <1>1, <2>1, <2>2, <3>1, <3>2, PolledHead
  <2> HIDE DEF st
  <2>4. snd_cnx.data_sent + n <= snd_cnx.maxdata_remote
    <3> DEFINE a == snd_cnx.data_sent
               b == snd_cnx.maxdata_remote
    <3>1. a \in Nat /\ b \in Nat /\ a + space <= b /\ n \in Nat
      BY <2>2, <2>3 DEF StreamTypes, Sends
    <3> HIDE DEF a, b
    <3>2. a + n <= b
      BY <2>1, <2>2, <3>1
    <3> QED BY <3>2 DEF a, b
  <2> QED BY Zenon, <2>1, <2>3, <2>4 DEF DataStep, DataSent
<1> QED BY Zenon, <1>1, <1>2, <1>3, <1>4, <1>5

-----------------------------------------------------------------------------

LEMMA CallbackOfHead ==
  ASSUME NEW r \in RcvHeads, Ordered(r.stream_data, r.consumed_offset)
  PROVE  LET r2 == stream_data_callback(r)
         IN /\ r2 \in RcvHeads /\ Ordered(r2.stream_data, r2.consumed_offset)
            /\ Len(r2.stream_data) > 0 => r2.stream_data[1].offset > r2.consumed_offset
            /\ HeldIn(r2) = HeldIn(r) /\ r.consumed_offset <= r2.consumed_offset
            /\ r2.fin_offset = r.fin_offset /\ r2.maxdata_local = r.maxdata_local
            /\ r2.fin_received = r.fin_received /\ r2.reset_received = r.reset_received
            /\ r2.fin_signalled => r.fin_signalled \/ (r2.consumed_offset >= r.fin_offset /\ r.fin_received)
<1> DEFINE b == r.stream_data
           c == r.consumed_offset
           m == Contiguous(b, c)
           b2 == SubSeq(b, m + 1, Len(b))
           c2 == ConsumedAfter(b, c, m)
           sig == r.fin_signalled \/ ReachesEnd(r, c2)
           r2 == [r EXCEPT !.stream_data = b2, !.consumed_offset = c2, !.fin_signalled = sig]
<1>1. c \in Nat
  BY DEF RcvHeads
<1>2. /\ c2 \in Nat /\ c <= c2 /\ Ordered(b2, c2) /\ HeldBy(b2, c2) = HeldBy(b, c)
      /\ Len(b2) > 0 => b2[1].offset > c2
  <2> HIDE DEF b, c
  <2> QED BY Zenon, <1>1, Delivery DEF b, c
<1>3. stream_data_callback(r) = r2
  BY DEF stream_data_callback
<1>4. b2 \in Seq(DataBlocks)
  BY <1>2 DEF Ordered
<1>5. sig \in BOOLEAN
  BY DEF RcvHeads, ReachesEnd
<1> HIDE DEF b2, c2, sig
<1>6. r2 \in RcvHeads
  BY Zenon, <1>2, <1>4, <1>5 DEF RcvHeads
<1>7. /\ r2.stream_data = b2 /\ r2.consumed_offset = c2 /\ r2.fin_signalled = sig
      /\ r2.fin_offset = r.fin_offset /\ r2.maxdata_local = r.maxdata_local
      /\ r2.fin_received = r.fin_received /\ r2.reset_received = r.reset_received
  BY DEF RcvHeads
<1> HIDE DEF r2
<1>8. sig => r.fin_signalled \/ (c2 >= r.fin_offset /\ r.fin_received)
  BY DEF sig, ReachesEnd
<1> QED BY <1>2, <1>3, <1>6, <1>7, <1>8 DEF HeldIn

StoredIn(r, f, blocks) ==
  LET new_fin == f.fin /\ ~ r.fin_received
      noted == IF new_fin THEN CreditedWhenComplete([r EXCEPT !.fin_received = TRUE]) ELSE r
      counted == [noted EXCEPT !.fin_offset = Max({@, End(f)})]
  IN [counted EXCEPT !.stream_data = blocks]

TakenIn(r, f) ==
  LET blocks == queue_network_input(r.stream_data, r.consumed_offset, f)
  IN IF (f.fin /\ ~ r.fin_received) \/ blocks # r.stream_data
       THEN stream_data_callback(StoredIn(r, f, blocks)) ELSE StoredIn(r, f, blocks)

LEMMA StoredInHead ==
  ASSUME NEW r \in RcvHeads, NEW f \in StreamFrames, NEW blocks \in Seq(DataBlocks)
  PROVE  LET stored == StoredIn(r, f, blocks)
         IN /\ stored \in RcvHeads
            /\ stored.fin_offset = IF r.fin_offset >= End(f) THEN r.fin_offset ELSE End(f)
            /\ stored.stream_data = blocks /\ stored.consumed_offset = r.consumed_offset
            /\ stored.maxdata_local = r.maxdata_local /\ stored.fin_signalled = r.fin_signalled
            /\ stored.fin_received = (r.fin_received \/ f.fin) /\ stored.reset_received = r.reset_received
<1> DEFINE new_fin == f.fin /\ ~ r.fin_received
           noted == IF new_fin THEN CreditedWhenComplete([r EXCEPT !.fin_received = TRUE]) ELSE r
           counted == [noted EXCEPT !.fin_offset = Max({@, End(f)})]
           stored == [counted EXCEPT !.stream_data = blocks]
<1>1. r.fin_offset \in Nat /\ r.fin_received \in BOOLEAN /\ f.fin \in BOOLEAN /\ End(f) \in Nat
  BY DEF StreamFrames, End, RcvHeads
<1>2. /\ noted \in RcvHeads /\ noted.fin_offset = r.fin_offset /\ noted.consumed_offset = r.consumed_offset
      /\ noted.maxdata_local = r.maxdata_local /\ noted.fin_signalled = r.fin_signalled
      /\ noted.fin_received = (r.fin_received \/ f.fin) /\ noted.reset_received = r.reset_received
  <2>1. CASE new_fin
    <3> DEFINE q == [r EXCEPT !.fin_received = TRUE]
               up == q.max_stream_updated \/ (q.consumed_offset >= q.fin_offset /\ (q.fin_received \/ q.reset_received))
    <3>1. q \in RcvHeads /\ q.fin_offset = r.fin_offset /\ q.consumed_offset = r.consumed_offset
          /\ q.maxdata_local = r.maxdata_local /\ q.fin_signalled = r.fin_signalled
          /\ q.fin_received /\ q.fin_received \in BOOLEAN /\ q.reset_received = r.reset_received
      BY Zenon DEF RcvHeads
    <3> HIDE DEF q
    <3>2. noted = [q EXCEPT !.max_stream_updated = up]
      BY <2>1 DEF CreditedWhenComplete, q
    <3>3. up \in BOOLEAN
      BY <3>1 DEF RcvHeads
    <3> HIDE DEF up, noted
    <3>4. /\ noted \in RcvHeads /\ noted.fin_offset = q.fin_offset /\ noted.consumed_offset = q.consumed_offset
          /\ noted.maxdata_local = q.maxdata_local /\ noted.fin_signalled = q.fin_signalled
          /\ noted.fin_received = q.fin_received /\ noted.reset_received = q.reset_received
      BY Zenon, <3>1, <3>2, <3>3 DEF RcvHeads
    <3> QED BY Zenon, <1>1, <2>1, <3>1, <3>4
  <2>2. CASE ~ new_fin
    BY <1>1, <2>2
  <2> QED BY <2>1, <2>2
<1> HIDE DEF noted
<1>3. Max({noted.fin_offset, End(f)}) = IF r.fin_offset >= End(f) THEN r.fin_offset ELSE End(f)
  BY <1>1, <1>2, MaxOfTwo
<1> DEFINE x == Max({noted.fin_offset, End(f)})
<1>4. x \in Nat
  BY <1>1, <1>3
<1> HIDE DEF x
<1>5. stored = [noted EXCEPT !.fin_offset = x, !.stream_data = blocks]
  BY <1>2 DEF x, RcvHeads
<1> HIDE DEF counted, stored
<1>6. /\ stored \in RcvHeads /\ stored.fin_offset = x /\ stored.stream_data = blocks
      /\ stored.consumed_offset = noted.consumed_offset
      /\ stored.maxdata_local = noted.maxdata_local /\ stored.fin_signalled = noted.fin_signalled
      /\ stored.fin_received = noted.fin_received /\ stored.reset_received = noted.reset_received
  BY Zenon, <1>2, <1>4, <1>5 DEF RcvHeads
<1>7. StoredIn(r, f, blocks) = stored
  BY DEF StoredIn, stored, counted, noted
<1> QED BY <1>2, <1>3, <1>6, <1>7 DEF x

LEMMA TakesFrame ==
  ASSUME NEW r \in RcvHeads, NEW st \in SndHeads, RcvOk(r, st),
         NEW f \in StreamFrames, FrameOk(f, st)
  PROVE  Takes(r, TakenIn(r, f), st, f) /\ Stretch(f, HeldIn(r), HeldIn(TakenIn(r, f)))
<1> DEFINE b == r.stream_data
           c == r.consumed_offset
           blocks == queue_network_input(b, c, f)
           new_fin == f.fin /\ ~ r.fin_received
           stored == StoredIn(r, f, blocks)
           r2 == TakenIn(r, f)
           z == st.sent_offset
           e == End(f)
           o == r.fin_offset
<1>1. c \in Nat /\ b \in Seq(DataBlocks) /\ z \in Nat /\ e \in Nat /\ o \in Nat
  BY DEF StreamFrames, End, RcvHeads, SndHeads
<1>2. f.offset \in Nat /\ f.length \in Nat /\ f.fin \in BOOLEAN /\ f.offset <= e
  BY DEF StreamFrames, End
<1>3. Ordered(b, c) /\ HeldBy(b, c) \subseteq 0..(z - 1) /\ o <= z /\ e <= z
  BY DEF RcvOk, FrameOk
<1>4. /\ Ordered(blocks, c) /\ Stretch(f, HeldBy(b, c), HeldBy(blocks, c))
  <2>1. \/ blocks = b /\ Bytes(f) \subseteq HeldBy(b, c)
        \/ \E P, Q \in Nat :
             /\ f.offset <= P /\ P < Q /\ Q <= End(f)
             /\ f.offset..(P - 1) \subseteq HeldBy(b, c)
             /\ P..(Q - 1) \cap HeldBy(b, c) = {}
             /\ Q = End(f) \/ Q \in HeldBy(b, c)
             /\ Ordered(blocks, c) /\ blocks # b
             /\ HeldBy(blocks, c) = HeldBy(b, c) \cup P..(Q - 1)
    <3> HIDE DEF b, c
    <3> QED BY Zenon, <1>1, <1>2, <1>3, QueueInput
  <2> HIDE DEF b, c, blocks
  <2>2. CASE blocks = b /\ Bytes(f) \subseteq HeldBy(b, c)
    BY <1>3, <2>2 DEF Stretch
  <2>3. CASE ~ (blocks = b /\ Bytes(f) \subseteq HeldBy(b, c))
    <3>1. PICK P, Q \in Nat :
             /\ f.offset <= P /\ P < Q /\ Q <= End(f)
             /\ f.offset..(P - 1) \subseteq HeldBy(b, c)
             /\ P..(Q - 1) \cap HeldBy(b, c) = {}
             /\ Q = End(f) \/ Q \in HeldBy(b, c)
             /\ Ordered(blocks, c) /\ blocks # b
             /\ HeldBy(blocks, c) = HeldBy(b, c) \cup P..(Q - 1)
      BY <2>1, <2>3
    <3> QED BY <3>1, Zenon DEF Stretch
  <2> QED BY <2>2, <2>3
<1>5. blocks \in Seq(DataBlocks)
  BY <1>4 DEF Ordered
<1>6. /\ stored \in RcvHeads
      /\ stored.fin_offset = IF o >= e THEN o ELSE e
      /\ stored.stream_data = blocks /\ stored.consumed_offset = c
      /\ stored.maxdata_local = r.maxdata_local /\ stored.fin_signalled = r.fin_signalled
      /\ stored.fin_received = (r.fin_received \/ f.fin) /\ stored.reset_received = r.reset_received
  <2> HIDE DEF blocks
  <2> QED BY <1>5, StoredInHead
<1>7. r2 = IF new_fin \/ blocks # b THEN stream_data_callback(stored) ELSE stored
  BY DEF TakenIn
<1>8. HeldIn(stored) = HeldBy(blocks, c)
  BY <1>6 DEF HeldIn
<1> HIDE DEF stored, r2
<1>9. /\ r2 \in RcvHeads /\ Ordered(r2.stream_data, r2.consumed_offset)
      /\ Len(r2.stream_data) > 0 => r2.stream_data[1].offset > r2.consumed_offset
      /\ HeldIn(r2) = HeldBy(blocks, c) /\ c <= r2.consumed_offset
      /\ r2.fin_offset = (IF o >= e THEN o ELSE e) /\ r2.maxdata_local = r.maxdata_local
      /\ r2.fin_received = (r.fin_received \/ f.fin) /\ r2.reset_received = r.reset_received
      /\ r2.fin_signalled => r.fin_signalled \/ (r2.consumed_offset >= r2.fin_offset /\ r2.fin_received)
  <2>1. CASE new_fin \/ blocks # b
    <3>1. r2 = stream_data_callback(stored) /\ Ordered(stored.stream_data, stored.consumed_offset)
      BY <1>4, <1>6, <1>7, <2>1
    <3>2. /\ r2 \in RcvHeads /\ Ordered(r2.stream_data, r2.consumed_offset)
          /\ Len(r2.stream_data) > 0 => r2.stream_data[1].offset > r2.consumed_offset
          /\ HeldIn(r2) = HeldIn(stored) /\ stored.consumed_offset <= r2.consumed_offset
          /\ r2.fin_offset = stored.fin_offset /\ r2.maxdata_local = stored.maxdata_local
          /\ r2.fin_received = stored.fin_received /\ r2.reset_received = stored.reset_received
          /\ r2.fin_signalled => stored.fin_signalled
                                   \/ (r2.consumed_offset >= stored.fin_offset /\ stored.fin_received)
      BY <1>6, <3>1, CallbackOfHead
    <3> HIDE DEF blocks, b, c, o, e, new_fin
    <3> QED BY Zenon, <1>6, <1>8, <3>2
  <2>2. CASE ~ (new_fin \/ blocks # b)
    <3>1. r2 = stored /\ blocks = b
      BY <1>7, <2>2
    <3>2. Len(b) > 0 => b[1].offset > c
      BY DEF RcvOk
    <3> HIDE DEF blocks, b, c, o, e, new_fin
    <3> QED BY <1>1, <1>3, <1>6, <1>8, <3>1, <3>2
  <2> QED BY Zenon, <2>1, <2>2
<1>10. HeldIn(r2) \subseteq 0..(z - 1)
  <2> DEFINE H == HeldBy(b, c)
             H2 == HeldIn(r2)
             x == f.offset
  <2>1. H \subseteq 0..(z - 1) /\ x \in Nat
    BY <1>2, <1>3
  <2>2. H2 = H \/ \E P, Q \in Nat : x <= P /\ P < Q /\ Q <= e /\ H2 = H \cup P..(Q - 1)
    BY <1>4, <1>9 DEF Stretch
  <2> HIDE DEF H, H2, x, z, e
  <2>3. ASSUME NEW P \in Nat, NEW Q \in Nat, P < Q, Q <= e PROVE P..(Q - 1) \subseteq 0..(z - 1)
    BY <1>1, <1>3, <2>3
  <2>4. H2 \subseteq 0..(z - 1)
    BY Zenon, <2>1, <2>2, <2>3
  <2> QED BY <2>4 DEF H2
<1> DEFINE o2 == r2.fin_offset
           c2 == r2.consumed_offset
<1>11. o2 \in Nat /\ c2 \in Nat /\ c2 <= z
  <2>1. o2 \in Nat /\ c2 \in Nat
    BY <1>9 DEF RcvHeads
  <2>2. HeldBy(r2.stream_data, c2) \subseteq 0..(z - 1)
    BY <1>10 DEF HeldIn
  <2> HIDE DEF c2
  <2> QED BY <1>1, <1>9, <2>1, <2>2, EndsAreHeld DEF c2
<1>12. o2 <= z /\ (r.fin_received \/ r.reset_received \/ f.fin => o2 = z)
  <2>1. (r.fin_received \/ r.reset_received => o = z) /\ (f.fin => e = z)
    BY DEF RcvOk, FrameOk
  <2>2. o2 = IF o >= e THEN o ELSE e
    BY <1>9
  <2> HIDE DEF o2, o, z, e
  <2> QED BY <1>1, <1>3, <1>11, <2>1, <2>2
<1>13. r2.fin_received => st.fin_sent /\ ~ st.reset_sent
  BY Zenon, <1>9 DEF RcvOk, FrameOk
<1>14. r2.reset_received => st.reset_sent
  BY <1>9 DEF RcvOk
<1>15. r2.fin_signalled => r2.fin_received /\ c2 = z
  <2>1. r.fin_signalled => r.fin_received /\ c = z
    BY DEF RcvOk
  <2>2. c <= c2
    BY <1>9
  <2>3. r2.fin_signalled => r.fin_signalled \/ (c2 >= o2 /\ r2.fin_received)
    BY <1>9
  <2>4. (r.fin_received => r2.fin_received) /\ (r2.fin_received => o2 = z)
    BY Zenon, <1>9, <1>12
  <2> HIDE DEF c, c2, o2, z
  <2> QED BY <1>1, <1>11, <2>1, <2>2, <2>3, <2>4
<1>16. RcvOk(r2, st)
  <2>1. HeldBy(r2.stream_data, r2.consumed_offset) \subseteq 0..(st.sent_offset - 1)
    BY <1>10 DEF HeldIn
  <2> QED BY Zenon, <1>9, <1>12, <1>13, <1>14, <1>15, <2>1 DEF RcvOk
<1>17. Takes(r, r2, st, f)
  BY Zenon, <1>9, <1>16 DEF Takes
<1>18. Stretch(f, HeldIn(r), HeldIn(r2))
  BY <1>4, <1>9 DEF HeldIn
<1> QED BY <1>17, <1>18 DEF r2

ResetIn(r, f) ==
  IF r.reset_received THEN r
  ELSE CreditedWhenComplete([r EXCEPT !.fin_offset = Max({@, f.offset}), !.reset_received = TRUE])

LEMMA TakesReset ==
  ASSUME NEW r \in RcvHeads, NEW st \in SndHeads, RcvOk(r, st),
         NEW f \in StreamFrames, FrameOk(f, st), f.type = "RESET_STREAM"
  PROVE  Takes(r, ResetIn(r, f), st, f) /\ Stretch(f, HeldIn(r), HeldIn(ResetIn(r, f)))
<1> DEFINE r2 == ResetIn(r, f)
           z == st.sent_offset
           o == r.fin_offset
           x == f.offset
           e == End(f)
<1>1. z \in Nat /\ o \in Nat /\ x \in Nat /\ f.length = 0 /\ e = x + f.length /\ e \in Nat /\ ~ f.fin
  BY DEF StreamFrames, End, FrameOk, SndHeads, RcvHeads
<1>2. e = x /\ x = z /\ st.reset_sent /\ o <= z /\ ~ r.fin_received
  BY <1>1 DEF FrameOk, RcvOk
<1>3. Bytes(f) = {}
  <2>1. Bytes(f) = x..(e - 1)
    BY DEF Bytes
  <2> HIDE DEF x, e
  <2> QED BY <1>1, <1>2, <2>1
<1>4. CASE r.reset_received
  <2>1. r2 = r /\ o = z
    BY <1>4 DEF ResetIn, RcvOk
  <2>2. o = IF o >= e THEN o ELSE e
    <3> HIDE DEF o, e, x, z
    <3> QED BY <1>1, <1>2, <2>1
  <2> QED BY <1>1, <1>3, <2>1, <2>2 DEF Takes, Stretch
<1>5. CASE ~ r.reset_received
  <2> DEFINE y == Max({o, x})
             q == [r EXCEPT !.fin_offset = y, !.reset_received = TRUE]
             up == q.max_stream_updated \/ (q.consumed_offset >= q.fin_offset /\ (q.fin_received \/ q.reset_received))
  <2>1. y = z
    BY <1>1, <1>2, MaxOfTwo
  <2>2. r2 = [q EXCEPT !.max_stream_updated = up]
    BY <1>5 DEF ResetIn, CreditedWhenComplete, RcvHeads
  <2> HIDE DEF y
  <2>3. q \in RcvHeads /\ up \in BOOLEAN
    BY Zenon, <1>1, <2>1 DEF RcvHeads
  <2>4. /\ q.fin_offset = z /\ q.stream_data = r.stream_data /\ q.consumed_offset = r.consumed_offset
        /\ q.maxdata_local = r.maxdata_local /\ q.fin_signalled = r.fin_signalled
        /\ q.fin_received = r.fin_received
    BY <2>1 DEF RcvHeads
  <2> HIDE DEF q, up, r2
  <2>5. /\ r2 \in RcvHeads
        /\ r2.fin_offset = q.fin_offset /\ r2.stream_data = q.stream_data /\ r2.consumed_offset = q.consumed_offset
        /\ r2.maxdata_local = q.maxdata_local /\ r2.fin_signalled = q.fin_signalled
        /\ r2.fin_received = q.fin_received
    BY Zenon, <2>2, <2>3 DEF RcvHeads
  <2>6. RcvOk(r2, st)
    BY <1>1, <1>2, <2>4, <2>5 DEF RcvOk
  <2>7. z = IF o >= e THEN o ELSE e
    <3> HIDE DEF o, e, x, z
    <3> QED BY <1>1, <1>2
  <2>8. HeldIn(r2) = HeldIn(r)
    BY <2>4, <2>5 DEF HeldIn
  <2>9. Takes(r, r2, st, f)
    BY <1>1, <2>4, <2>5, <2>6, <2>7 DEF Takes
  <2> QED BY <1>3, <2>8, <2>9 DEF Stretch, r2
<1> QED BY <1>4, <1>5

-----------------------------------------------------------------------------

LEMMA OffsetsGrow ==
  ASSUME NEW r \in RcvHeads, ShouldUpdate(r)
  PROVE  LET new == Min({DesiredOffset(r), LargestOffset(r)}) IN new \in Nat /\ r.maxdata_local <= new
<1> DEFINE m == r.maxdata_local
           c == r.consumed_offset
           w == ReceiveWindow
           d == m + 2 * c
           l == c + w
<1>1. m \in Nat /\ c \in Nat /\ w \in Nat
  BY StreamsAssumption DEF RcvHeads
<1>2. (d < l /\ 2 * c > m) \/ (d >= l /\ 2 * (m - c) < w)
  BY DEF ShouldUpdate, DesiredOffset, LargestOffset
<1>3. DesiredOffset(r) = d /\ LargestOffset(r) = l
  BY DEF DesiredOffset, LargestOffset
<1> HIDE DEF m, c, w
<1>4. d \in Nat /\ l \in Nat /\ d \in Int /\ l \in Int
  BY <1>1
<1>5. Min({d, l}) = IF d <= l THEN d ELSE l
  <2> HIDE DEF d, l
  <2> QED BY Zenon, <1>4, MinOfTwo
<1>6. m <= d /\ (d >= l => m <= l)
  BY <1>1, <1>2
<1> HIDE DEF d, l
<1>7. Min({d, l}) \in Nat /\ m <= Min({d, l})
  BY <1>1, <1>4, <1>5, <1>6
<1> QED BY <1>3, <1>7 DEF m

LEMMA ServerGrants ==
  ASSUME StreamTypes, (\E s \in Ids : stop_sending(s)) \/ prepare_server_packet
  PROVE  GrantStep
<1>0. \A s \in Ids : rcv[s] \in RcvHeads /\ rcv[s].maxdata_local \in Nat
  BY DEF StreamTypes, RcvHeads
<1>1. rcv_cnx \in [maxdata_local : Nat, data_received : Nat, error : BOOLEAN] /\ control \subseteq ControlFrames
  BY DEF StreamTypes
<1>2. rcv_cnx.maxdata_local \in Nat /\ rcv_cnx.data_received \in Nat
  BY <1>1
<1>3. ASSUME NEW s \in Ids, stop_sending(s) PROVE GrantStep
  <2> DEFINE r2 == [rcv[s] EXCEPT !.stop_sending_requested = TRUE]
  <2>1. rcv' = [rcv EXCEPT ![s] = r2] /\ UNCHANGED <<client, rcv_cnx, arrived, control>>
    BY <1>3 DEF stop_sending
  <2>2. r2 \in RcvHeads /\ SameBytes(rcv[s], r2)
    <3> DEFINE r == rcv[s]
    <3>1. r \in RcvHeads /\ r.maxdata_local \in Nat
      BY <1>0
    <3> HIDE DEF r
    <3>2. [r EXCEPT !.stop_sending_requested = TRUE] \in RcvHeads
      BY Zenon, <3>1 DEF RcvHeads
    <3>3. SameBytes(r, [r EXCEPT !.stop_sending_requested = TRUE])
      BY <3>1 DEF RcvHeads, SameBytes
    <3> QED BY <3>2, <3>3 DEF r
  <2> HIDE DEF r2
  <2>3. \A t \in Ids : SameBytes(rcv[t], rcv[t])
    BY <1>0 DEF SameBytes
  <2>4. rcv' \in [Ids -> RcvHeads] /\ \A t \in Ids : SameBytes(rcv[t], rcv'[t])
    BY <2>1, <2>2, <2>3 DEF StreamTypes
  <2>5. rcv_cnx.maxdata_local <= rcv_cnx'.maxdata_local
    BY <1>2, <2>1
  <2> QED BY <1>1, <2>1, <2>4, <2>5 DEF GrantStep
<1>4. ASSUME prepare_server_packet PROVE GrantStep
  <2> DEFINE credited == {s \in Ids : is_max_stream_data_frame_required(s)}
             stopped == {s \in Ids : SendStopSending(rcv[s])}
             NewOffset(s) == Min({DesiredOffset(rcv[s]), LargestOffset(rcv[s])})
             m(s) == IF s \in credited THEN NewOffset(s) ELSE rcv[s].maxdata_local
             q(s) == rcv[s].stop_sending_sent \/ s \in stopped
             ml == IF should_send_max_data THEN NewMaxData ELSE rcv_cnx.maxdata_local
  <2>1. /\ control' = control
             \cup (IF should_send_max_data THEN {Frame("MAX_DATA", -1, NewMaxData)} ELSE {})
             \cup {Frame("MAX_STREAM_DATA", s, NewOffset(s)) : s \in credited}
             \cup {Frame("STOP_SENDING", s, 0) : s \in stopped}
        /\ rcv_cnx' = [rcv_cnx EXCEPT !.maxdata_local = ml]
        /\ rcv' = [s \in Ids |-> [rcv[s] EXCEPT !.maxdata_local = m(s), !.stop_sending_sent = q(s)]]
        /\ UNCHANGED <<client, arrived>>
    BY Zenon, <1>4 DEF prepare_server_packet
  <2>2. \A s \in Ids : m(s) \in Nat /\ rcv[s].maxdata_local <= m(s)
    <3> TAKE s \in Ids
    <3>1. CASE s \in credited
      <4>1. ShouldUpdate(rcv[s])
        BY <3>1 DEF is_max_stream_data_frame_required
      <4> QED BY <1>0, <3>1, <4>1, OffsetsGrow
    <3>2. CASE s \notin credited
      BY <1>0, <3>2
    <3> QED BY <3>1, <3>2
  <2>3. \A s \in credited : s \in Ids /\ m(s) = NewOffset(s)
    OBVIOUS
  <2>4. \A s \in Ids : q(s) \in BOOLEAN
    OBVIOUS
  <2>5. ml \in Nat /\ rcv_cnx.maxdata_local <= ml /\ (should_send_max_data => ml = NewMaxData)
    BY <1>2 DEF NewMaxData
  <2>6. stopped \subseteq Ids
    OBVIOUS
  <2> HIDE DEF credited, stopped, NewOffset, m, q, ml
  <2>7. \A s \in Ids : rcv'[s] = [rcv[s] EXCEPT !.maxdata_local = m(s), !.stop_sending_sent = q(s)]
    BY Zenon, <2>1
  <2>8. \A s \in Ids : /\ rcv'[s] \in RcvHeads /\ SameBytes(rcv[s], rcv'[s]) /\ rcv'[s].maxdata_local = m(s)
    BY ZenonT(40), <1>0, <2>2, <2>4, <2>7 DEF RcvHeads, SameBytes
  <2>9. rcv' \in [Ids -> RcvHeads]
    <3>1. rcv' = [s \in Ids |-> rcv'[s]]
      BY Zenon, <2>1
    <3> QED BY <2>8, <3>1
  <2>10. /\ rcv_cnx' \in [maxdata_local : Nat, data_received : Nat, error : BOOLEAN]
         /\ rcv_cnx'.maxdata_local = ml /\ rcv_cnx'.data_received = rcv_cnx.data_received
         /\ rcv_cnx'.error = rcv_cnx.error
    BY Zenon, <1>1, <2>1, <2>5
  <2>11. ASSUME NEW f \in control'
         PROVE  /\ f \in ControlFrames
                /\ \/ f \in control \/ f.type = "STOP_SENDING"
                   \/ f.type = "MAX_DATA" /\ f.value = rcv_cnx'.maxdata_local
                   \/ f.type = "MAX_STREAM_DATA" /\ f.value = rcv'[f.id].maxdata_local
    <3>1. CASE f \in control
      BY <1>1, <3>1
    <3>2. CASE should_send_max_data /\ f = Frame("MAX_DATA", -1, NewMaxData)
      BY <2>5, <2>10, <3>2 DEF Frame, ControlFrames
    <3>3. ASSUME NEW s \in credited, f = Frame("MAX_STREAM_DATA", s, NewOffset(s))
          PROVE  f \in ControlFrames /\ f.type = "MAX_STREAM_DATA" /\ f.value = rcv'[f.id].maxdata_local
      <4>1. s \in Ids /\ m(s) = NewOffset(s) /\ m(s) \in Nat /\ rcv'[s].maxdata_local = m(s)
        BY <2>2, <2>3, <2>8
      <4> QED BY <3>3, <4>1 DEF Frame, ControlFrames
    <3>4. ASSUME NEW s \in stopped, f = Frame("STOP_SENDING", s, 0)
          PROVE  f \in ControlFrames /\ f.type = "STOP_SENDING"
      BY <2>6, <3>4 DEF Frame, ControlFrames
    <3>5. \/ f \in control
          \/ should_send_max_data /\ f = Frame("MAX_DATA", -1, NewMaxData)
          \/ \E s \in credited : f = Frame("MAX_STREAM_DATA", s, NewOffset(s))
          \/ \E s \in stopped : f = Frame("STOP_SENDING", s, 0)
      <4> DEFINE A == IF should_send_max_data THEN {Frame("MAX_DATA", -1, NewMaxData)} ELSE {}
                 B == {Frame("MAX_STREAM_DATA", s, NewOffset(s)) : s \in credited}
                 C == {Frame("STOP_SENDING", s, 0) : s \in stopped}
      <4>1. f \in A => should_send_max_data /\ f = Frame("MAX_DATA", -1, NewMaxData)
        OBVIOUS
      <4>2. f \in B => \E s \in credited : f = Frame("MAX_STREAM_DATA", s, NewOffset(s))
        OBVIOUS
      <4>3. f \in C => \E s \in stopped : f = Frame("STOP_SENDING", s, 0)
        OBVIOUS
      <4>4. control' = control \cup A \cup B \cup C
        BY Zenon, <2>1
      <4> HIDE DEF A, B, C
      <4>5. f \in control \/ f \in A \/ f \in B \/ f \in C
        BY <2>11, <4>4
      <4> QED BY <4>1, <4>2, <4>3, <4>5, Zenon
    <3> QED BY <3>1, <3>2, <3>3, <3>4, <3>5
  <2> QED BY Zenon, <2>1, <2>5, <2>8, <2>9, <2>10, <2>11 DEF GrantStep
<1> QED BY <1>3, <1>4

=============================================================================
