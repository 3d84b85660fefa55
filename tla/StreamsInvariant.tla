-------------------------- MODULE StreamsInvariant --------------------------
(***************************************************************************)
(* The inductive invariant of the streams, and the kinds of steps their    *)
(* actions are, for the proofs: definitions only.                          *)
(***************************************************************************)
EXTENDS Streams

(***************************************************************************)
(* The inductive invariant.                                                 *)
(***************************************************************************)
SndHeads ==
  [send_queue : Seq(Nat \ {0}), sending_offset : Nat, sent_offset : Nat, maxdata_remote : Nat,
   is_active : BOOLEAN, fin_requested : BOOLEAN, fin_sent : BOOLEAN,
   reset_requested : BOOLEAN, reset_sent : BOOLEAN, stop_sending_received : BOOLEAN]

RcvHeads ==
  [stream_data : Seq(DataBlocks), consumed_offset : Nat, fin_offset : Nat, maxdata_local : Nat,
   fin_received : BOOLEAN, fin_signalled : BOOLEAN, reset_received : BOOLEAN,
   stop_sending_requested : BOOLEAN, stop_sending_sent : BOOLEAN, max_stream_updated : BOOLEAN]

StreamFrames == [type : {"STREAM", "RESET_STREAM"}, id : Ids, offset : Nat, length : Nat, fin : BOOLEAN]

ControlFrames ==
  [type : {"MAX_DATA"}, id : {-1}, value : Nat]
    \cup [type : {"MAX_STREAM_DATA", "STOP_SENDING"}, id : Ids, value : Nat]

StreamTypes ==
  /\ snd \in [Ids -> SndHeads] /\ rcv \in [Ids -> RcvHeads]
  /\ snd_cnx \in [maxdata_remote : Nat, data_sent : Nat, last_visited : Int]
  /\ rcv_cnx \in [maxdata_local : Nat, data_received : Nat, error : BOOLEAN]
  /\ packets \in Seq(StreamFrames) /\ rtx_frames \in Seq(StreamFrames)
  /\ queue \subseteq DOMAIN packets /\ arrived \subseteq DOMAIN packets
  /\ control \subseteq ControlFrames

(***************************************************************************)
(* A stream of the sender: what was sent is within the credit, and once the *)
(* FIN or the RESET_STREAM went out nothing is left to send.                *)
(***************************************************************************)
SndOk(st) ==
  /\ st.sent_offset <= st.maxdata_remote
  /\ st.fin_sent /\ ~ st.reset_sent => st.fin_requested /\ st.send_queue = <<>> /\ ~ st.reset_requested
  /\ st.reset_sent => st.fin_sent /\ st.send_queue = <<>> /\ st.reset_requested
  /\ st.is_active => "active" \in Calls /\ st.send_queue = <<>>
  /\ st.reset_requested => "reset" \in Calls

(***************************************************************************)
(* A frame of a stream tells the truth: it carries bytes that were sent,    *)
(* its FIN is at the end, and a RESET_STREAM gives the final size.          *)
(***************************************************************************)
FrameOk(f, st) ==
  /\ End(f) <= st.sent_offset
  /\ f.fin => st.fin_sent /\ ~ st.reset_sent /\ End(f) = st.sent_offset
  /\ f.type = "RESET_STREAM" => f.length = 0 /\ ~ f.fin /\ st.reset_sent /\ f.offset = st.sent_offset

(***************************************************************************)
(* A stream of the receiver, against the sender's.                          *)
(***************************************************************************)
RcvOk(r, st) ==
  /\ Ordered(r.stream_data, r.consumed_offset)
  /\ Len(r.stream_data) > 0 => r.stream_data[1].offset > r.consumed_offset
  /\ HeldBy(r.stream_data, r.consumed_offset) \subseteq 0..(st.sent_offset - 1)
  /\ r.fin_offset <= st.sent_offset
  /\ r.fin_received => st.fin_sent /\ ~ st.reset_sent /\ r.fin_offset = st.sent_offset
  /\ r.reset_received => st.reset_sent /\ r.fin_offset = st.sent_offset
  /\ r.fin_signalled => r.fin_received /\ r.consumed_offset = st.sent_offset

HeadsInv ==
  /\ \A s \in Ids : SndOk(snd[s]) /\ RcvOk(rcv[s], snd[s])
  /\ \A n \in DOMAIN packets : FrameOk(packets[n], snd[packets[n].id])
  /\ \A i \in DOMAIN rtx_frames : FrameOk(rtx_frames[i], snd[rtx_frames[i].id])

(***************************************************************************)
(* Flow control: what the client takes for its credit the server has given, *)
(* and what the client counted on the connection and the server has not yet *)
(* is the sum, over the streams, of what was sent beyond the highest offset *)
(* the server knows of.                                                    *)
(***************************************************************************)
IsSum(d, total) ==
  \E n \in Nat : \E h \in Bijection(1..n, Ids), T \in [0..n -> Nat] :
    /\ T[0] = 0 /\ T[n] = total
    /\ \A i \in 1..n : T[i] = T[i - 1] + d[h[i]]
    /\ \A i, j \in 0..n : i <= j => T[i] <= T[j]

Ahead == [s \in Ids |-> snd[s].sent_offset - rcv[s].fin_offset]

StreamCredit ==
  /\ \A s \in Ids : snd[s].maxdata_remote <= rcv[s].maxdata_local
  /\ snd_cnx.data_sent <= snd_cnx.maxdata_remote /\ snd_cnx.maxdata_remote <= rcv_cnx.maxdata_local
  /\ \A f \in control : /\ f.type = "MAX_DATA" => f.value <= rcv_cnx.maxdata_local
                        /\ f.type = "MAX_STREAM_DATA" => f.value <= rcv[f.id].maxdata_local
  /\ rcv_cnx.data_received <= snd_cnx.data_sent
  /\ IsSum(Ahead, snd_cnx.data_sent - rcv_cnx.data_received)

(***************************************************************************)
(* The frames that wait for an acknowledgement: no two carry the same byte, *)
(* each lies inside or outside of each frame ever sent, and the server      *)
(* holds all of it or nothing of it; of one that arrived it holds all.      *)
(***************************************************************************)
Apart(f, g) ==
  f.id = g.id /\ f.length > 0 /\ g.length > 0 => End(f) <= g.offset \/ End(g) <= f.offset

Within(f, g) == f.length > 0 => f.id = g.id /\ g.offset <= f.offset /\ End(f) <= End(g)

Whole(f, r) == Bytes(f) \subseteq Held(r) \/ Bytes(f) \cap Held(r) = {}

Live(f) ==
  /\ Whole(f, rcv[f.id])
  /\ \A n \in DOMAIN packets : Within(f, packets[n]) \/ Apart(f, packets[n])

LiveInv ==
  /\ \A m, n \in queue : m # n => Apart(packets[m], packets[n])
  /\ \A i, j \in DOMAIN rtx_frames : i # j => Apart(rtx_frames[i], rtx_frames[j])
  /\ \A n \in queue, i \in DOMAIN rtx_frames : Apart(packets[n], rtx_frames[i])
  /\ \A m \in queue : Live(packets[m])
  /\ \A i \in DOMAIN rtx_frames : Live(rtx_frames[i])
  /\ \A n \in queue \cap arrived : /\ Bytes(packets[n]) \subseteq Held(rcv[packets[n].id])
                                   /\ packets[n].fin => rcv[packets[n].id].fin_received

StreamsInv == StreamTypes /\ HeadsInv /\ StreamCredit /\ LiveInv /\ NoErrorIsRaised

-----------------------------------------------------------------------------

(***************************************************************************)
(* What a frame does to a stream of the server.                             *)
(***************************************************************************)
HeldIn(r) == HeldBy(r.stream_data, r.consumed_offset)

(***************************************************************************)
(* What a head of the server gains from a frame: all of the frame was held, *)
(* or one new stretch of it is.                                            *)
(***************************************************************************)
Stretch(f, H, H2) ==
  \/ H2 = H /\ Bytes(f) \subseteq H
  \/ \E P, Q \in Nat : /\ f.offset <= P /\ P < Q /\ Q <= End(f)
                       /\ f.offset..(P - 1) \subseteq H
                       /\ P..(Q - 1) \cap H = {}
                       /\ Q = End(f) \/ Q \in H
                       /\ H2 = H \cup P..(Q - 1)

Takes(r, r2, st, f) ==
  /\ r2 \in RcvHeads /\ RcvOk(r2, st) /\ r2.maxdata_local = r.maxdata_local
  /\ r2.fin_offset = IF r.fin_offset >= End(f) THEN r.fin_offset ELSE End(f)
  /\ r.fin_received => r2.fin_received
  /\ f.fin => r2.fin_received

(***************************************************************************)
(* The other steps of the server: they raise limits and announce them.      *)
(***************************************************************************)
SameBytes(r, r2) ==
  /\ r2.stream_data = r.stream_data /\ r2.consumed_offset = r.consumed_offset
  /\ r2.fin_offset = r.fin_offset /\ r2.fin_received = r.fin_received
  /\ r2.fin_signalled = r.fin_signalled /\ r2.reset_received = r.reset_received
  /\ r.maxdata_local <= r2.maxdata_local

GrantStep ==
  /\ rcv' \in [Ids -> RcvHeads] /\ \A s \in Ids : SameBytes(rcv[s], rcv'[s])
  /\ rcv_cnx' \in [maxdata_local : Nat, data_received : Nat, error : BOOLEAN]
  /\ rcv_cnx.maxdata_local <= rcv_cnx'.maxdata_local
  /\ rcv_cnx'.data_received = rcv_cnx.data_received /\ rcv_cnx'.error = rcv_cnx.error
  /\ control' \subseteq ControlFrames
  /\ \A f \in control' : \/ f \in control \/ f.type = "STOP_SENDING"
                         \/ f.type = "MAX_DATA" /\ f.value = rcv_cnx'.maxdata_local
                         \/ f.type = "MAX_STREAM_DATA" /\ f.value = rcv'[f.id].maxdata_local
  /\ UNCHANGED <<client, arrived>>

-----------------------------------------------------------------------------

(***************************************************************************)
(* What the steps of the client do to its streams: a stream only grows, and *)
(* no more once its FIN or its RESET_STREAM went out.                       *)
(***************************************************************************)
Grows(st, st2) ==
  /\ st.sent_offset <= st2.sent_offset
  /\ st.fin_sent \/ st.reset_sent => /\ st2.sent_offset = st.sent_offset
                                     /\ st2.fin_sent = st.fin_sent /\ st2.reset_sent = st.reset_sent

Keeps(st, st2) ==
  /\ st2.sent_offset = st.sent_offset
  /\ st2.fin_sent = st.fin_sent /\ st2.reset_sent = st.reset_sent

Advances ==
  /\ snd' \in [Ids -> SndHeads]
  /\ \A s \in Ids : SndOk(snd'[s]) /\ Grows(snd[s], snd'[s])

-----------------------------------------------------------------------------

(***************************************************************************)
(* The steps of the client that write, by what they do to the frames.       *)
(***************************************************************************)
QuietStep(s, st) ==
  /\ st \in SndHeads /\ SndOk(st) /\ Grows(snd[s], st) /\ Keeps(snd[s], st)
  /\ st.maxdata_remote <= rcv[s].maxdata_local
  /\ snd' = [snd EXCEPT ![s] = st]
  /\ UNCHANGED <<snd_cnx, packets, queue, rtx_frames, server>>

Sends(st, st2, n, fin) ==
  /\ n \in Nat /\ fin \in BOOLEAN
  /\ st2 \in SndHeads /\ SndOk(st2) /\ Grows(st, st2)
  /\ st2.sent_offset = st.sent_offset + n
  /\ st2.maxdata_remote = st.maxdata_remote
  /\ ~ st2.reset_sent /\ (fin => st2.fin_sent) /\ (st.fin_sent => st2.fin_sent)
  /\ st2.fin_sent => fin

DataStep(s, st, n, fin) ==
  /\ Sends(snd[s], st, n, fin)
  /\ snd' = [snd EXCEPT ![s] = st]
  /\ Send(StreamFrame(s, snd[s].sent_offset, n, fin))
  /\ snd_cnx' = [snd_cnx EXCEPT !.data_sent = @ + n, !.last_visited = s]
  /\ snd_cnx.data_sent + n <= snd_cnx.maxdata_remote
  /\ UNCHANGED <<rtx_frames, server>>

ResetStep(s, st) ==
  /\ st \in SndHeads /\ SndOk(st) /\ Grows(snd[s], st)
  /\ st.sent_offset = snd[s].sent_offset /\ st.reset_sent /\ st.maxdata_remote = snd[s].maxdata_remote
  /\ snd' = [snd EXCEPT ![s] = st]
  /\ Send(ResetFrame(s, snd[s].sent_offset))
  /\ UNCHANGED <<snd_cnx, rtx_frames, server>>

-----------------------------------------------------------------------------

(***************************************************************************)
(* Retransmission: a frame is given up, sent again whole or in two parts,   *)
(* sent from the queue of split frames, or acknowledged.                    *)
(***************************************************************************)
GivenUp(lost, room) ==
  /\ NotRepeated(packets[lost]) \/ (packets[lost].length > room /\ room = 0)
  /\ queue' = queue \ {lost} /\ UNCHANGED <<packets, rtx_frames>>

SentAgain(lost) ==
  /\ packets' = Append(packets, packets[lost]) /\ queue' = (queue \ {lost}) \cup {Len(packets) + 1}
  /\ UNCHANGED rtx_frames

SentInParts(lost, room) ==
  /\ packets[lost].length > room /\ room > 0
  /\ packets' = Append(packets, FirstPart(packets[lost], room))
  /\ rtx_frames' = Append(rtx_frames, SecondPart(packets[lost], room))
  /\ queue' = (queue \ {lost}) \cup {Len(packets) + 1}

Moved ==
  /\ rtx_frames # <<>> /\ Send(Head(rtx_frames)) /\ rtx_frames' = Tail(rtx_frames)

Acked(n) == n \in queue \cap arrived /\ queue' = queue \ {n} /\ UNCHANGED <<packets, rtx_frames>>

RepeatStep ==
  /\ UNCHANGED <<snd, snd_cnx, server>>
  /\ \/ \E lost \in queue, room \in Nat :
          room >= MinRoom /\ (GivenUp(lost, room) \/ SentAgain(lost) \/ SentInParts(lost, room))
     \/ Moved
     \/ \E n \in queue : Acked(n)

-----------------------------------------------------------------------------

(***************************************************************************)
(* A frame that arrives is never refused: it lies within the limits of the  *)
(* stream and of the connection, and agrees with the final size.            *)
(***************************************************************************)
ArrivalStep(n, r2) ==
  /\ LET f == packets[n]
         r == rcv[f.id]
     IN /\ Takes(r, r2, snd[f.id], f) /\ Stretch(f, HeldIn(r), HeldIn(r2))
        /\ rcv' = [rcv EXCEPT ![f.id] = r2]
        /\ rcv_cnx' = [rcv_cnx EXCEPT !.data_received = @ + Counted(r, End(f))]
  /\ arrived' = arrived \cup {n}
  /\ UNCHANGED <<client, control>>

StreamsStep ==
  \/ \E s \in Ids : \E st : QuietStep(s, st)
  \/ \E s \in Ids : \E st : ResetStep(s, st) \/ \E n, fin : DataStep(s, st, n, fin)
  \/ RepeatStep
  \/ \E n \in DOMAIN packets : \E r2 : ArrivalStep(n, r2)
  \/ GrantStep
  \/ \E f \in control : process_max_data_frame(f)

=============================================================================
