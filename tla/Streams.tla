------------------------------- MODULE Streams ------------------------------
(***************************************************************************)
(* The unidirectional streams a client sends to a server: the sending side  *)
(* (writing, polling, resetting, the choice of the stream to serve, frames, *)
(* retransmission and splitting of frames), the receiving side (reassembly, *)
(* delivery, FIN and RESET_STREAM), and the flow control between the two.   *)
(*                                                                         *)
(* A byte is its offset.  Every packet carries one frame, so that each      *)
(* frame has a fate of its own; the room of a packet, loss and delay are    *)
(* left open.  What the server sends stays available for good: the client   *)
(* sees each frame of it at any time, any number of times.                  *)
(***************************************************************************)
EXTENDS StreamBlocks

CONSTANTS
  Ids,                      \* stream ids, all under the peer's limit on ids
  MaxBytes,                 \* bound: bytes written to a stream
  MaxRoom,                  \* bound: stream bytes that fit in a packet
  MinRoom,                  \* the least room a retransmission finds: 0 leaves none for a split
  MaxLosses,                \* bound: packets declared lost
  MaxPackets,               \* bound: packets sent
  InitialMaxData,           \* initial_max_data of the server
  InitialMaxStreamData,     \* initial_max_stream_data_uni of the server
  ReceiveWindow,            \* max_stream_receive_window_size of the server
  Calls                     \* API calls made: a subset of {"active", "reset", "stop"}

ASSUME StreamsAssumption ==
  /\ Ids \subseteq Nat /\ IsFiniteSet(Ids)
  /\ {MaxBytes, MaxRoom, MinRoom, MaxLosses, MaxPackets} \subseteq Nat
  /\ {InitialMaxData, InitialMaxStreamData, ReceiveWindow} \subseteq Nat

VARIABLES
  snd,                      \* the client's stream heads
  snd_cnx,                  \* the client's connection fields
  rcv,                      \* the server's stream heads
  rcv_cnx,                  \* the server's connection fields
  packets,                  \* packets[n]: the frame the client sent in its n-th packet
  queue,                    \* packets in the client's retransmission queue
  rtx_frames,               \* frames waiting for the next packet
  arrived,                  \* packets the server processed
  losses,                   \* packets declared lost so far
  control                   \* frames the server sent

vars == <<snd, snd_cnx, rcv, rcv_cnx, packets, queue, rtx_frames, arrived, losses, control>>
client == <<snd, snd_cnx, packets, queue, rtx_frames, losses>>
server == <<rcv, rcv_cnx, arrived, control>>

StreamFrame(s, lo, n, fin) == [type |-> "STREAM", id |-> s, offset |-> lo, length |-> n, fin |-> fin]
ResetFrame(s, final) == [type |-> "RESET_STREAM", id |-> s, offset |-> final, length |-> 0, fin |-> FALSE]

create_stream_snd ==
  [send_queue |-> <<>>, sending_offset |-> 0, sent_offset |-> 0, maxdata_remote |-> InitialMaxStreamData,
   is_active |-> FALSE, fin_requested |-> FALSE, fin_sent |-> FALSE,
   reset_requested |-> FALSE, reset_sent |-> FALSE, stop_sending_received |-> FALSE]

create_stream_rcv ==
  [stream_data |-> <<>>, consumed_offset |-> 0, fin_offset |-> 0, maxdata_local |-> InitialMaxStreamData,
   fin_received |-> FALSE, fin_signalled |-> FALSE, reset_received |-> FALSE,
   stop_sending_requested |-> FALSE, stop_sending_sent |-> FALSE, max_stream_updated |-> FALSE]

Init ==
  /\ snd = [s \in Ids |-> create_stream_snd]
  /\ snd_cnx = [maxdata_remote |-> InitialMaxData, data_sent |-> 0, last_visited |-> -1]
  /\ rcv = [s \in Ids |-> create_stream_rcv]
  /\ rcv_cnx = [maxdata_local |-> InitialMaxData, data_received |-> 0, error |-> FALSE]
  /\ packets = <<>> /\ queue = {} /\ rtx_frames = <<>> /\ arrived = {} /\ losses = 0 /\ control = {}

-----------------------------------------------------------------------------
(***************************************************************************)
(* The client application.  It writes nothing after the end of a stream,    *)
(* which add_to_stream leaves to it.  A write that is refused still notes   *)
(* the FIN.                                                                *)
(***************************************************************************)
add_to_stream(s, n, set_fin) ==
  LET st == snd[s]
      refused == st.reset_sent \/ st.stop_sending_received
      noted == [st EXCEPT !.fin_requested = @ \/ set_fin]
      queued == IF n = 0 THEN noted
                ELSE [noted EXCEPT !.send_queue = Append(@, n), !.sending_offset = @ + n]
  IN /\ ~ st.fin_requested
     /\ n > 0 \/ set_fin
     /\ st.sending_offset + n <= MaxBytes
     /\ snd' = [snd EXCEPT ![s] = IF refused THEN noted ELSE [queued EXCEPT !.is_active = FALSE]]
     /\ UNCHANGED <<snd_cnx, packets, queue, rtx_frames, losses, server>>

mark_active_stream(s) ==
  /\ "active" \in Calls
  /\ snd[s].send_queue = <<>> /\ ~ snd[s].fin_requested /\ ~ snd[s].reset_requested
  /\ ~ snd[s].is_active
  /\ snd' = [snd EXCEPT ![s].is_active = TRUE]
  /\ UNCHANGED <<snd_cnx, packets, queue, rtx_frames, losses, server>>

reset_stream(s) ==
  /\ "reset" \in Calls
  /\ ~ snd[s].fin_sent /\ ~ snd[s].reset_requested
  /\ snd' = [snd EXCEPT ![s].reset_requested = TRUE]
  /\ UNCHANGED <<snd_cnx, packets, queue, rtx_frames, losses, server>>

-----------------------------------------------------------------------------
(***************************************************************************)
(* find_ready_stream_round_robin: the next stream after the one served last *)
(* that has something to send and the credit to send it.                    *)
(***************************************************************************)
SendReset(st) == st.reset_requested /\ ~ st.reset_sent
HasData(st) == st.is_active \/ st.send_queue # <<>> \/ (st.fin_requested /\ ~ st.fin_sent)
HasCredit(st) ==
  snd_cnx.maxdata_remote > snd_cnx.data_sent /\ st.sent_offset < st.maxdata_remote

Ready == {s \in Ids : (HasCredit(snd[s]) /\ HasData(snd[s])) \/ SendReset(snd[s])}

NextInTurn_First(set, last) == Min(set)

NextInTurn(set, last) ==
  LET after == {s \in set : s > last}
  IN IF after # {} THEN Min(after) ELSE Min(set)

AllowedSpace_StreamOnly(st, room) == Min({room, st.maxdata_remote - st.sent_offset})

AllowedSpace(st, room) ==
  Min({room, st.maxdata_remote - st.sent_offset, snd_cnx.maxdata_remote - snd_cnx.data_sent})

Send(f) == packets' = Append(packets, f) /\ queue' = queue \cup {Len(packets) + 1}

(***************************************************************************)
(* prepare_stream_frame: a RESET_STREAM comes before data and drops what is *)
(* queued; otherwise what the application provides when it is polled, or    *)
(* the first queued block as far as room and credit allow.  The frame that  *)
(* empties the queue of an ended stream carries the FIN.                    *)
(***************************************************************************)
prepare_stream_reset_frame_Written(s) ==
  /\ SendReset(snd[s])
  /\ Send(ResetFrame(s, snd[s].sending_offset))
  /\ snd' = [snd EXCEPT ![s] = [@ EXCEPT !.reset_sent = TRUE, !.fin_sent = TRUE, !.send_queue = <<>>]]
  /\ UNCHANGED <<snd_cnx, rtx_frames, losses, server>>

prepare_stream_reset_frame(s) ==
  /\ SendReset(snd[s])
  /\ Send(ResetFrame(s, snd[s].sent_offset))
  /\ snd' = [snd EXCEPT ![s] = [@ EXCEPT !.reset_sent = TRUE, !.fin_sent = TRUE, !.send_queue = <<>>]]
  /\ UNCHANGED <<snd_cnx, rtx_frames, losses, server>>

DataSent(s, n, fin) ==
  /\ Send(StreamFrame(s, snd[s].sent_offset, n, fin))
  /\ snd_cnx' = [snd_cnx EXCEPT !.data_sent = @ + n, !.last_visited = s]
  /\ UNCHANGED <<rtx_frames, losses, server>>

prepare_polled_frame(s, room, n, is_fin, is_still_active) ==
  LET st == snd[s]
  IN /\ ~ SendReset(st) /\ st.is_active /\ ~ st.fin_requested
     /\ n <= AllowedSpace(st, room)
     /\ st.sending_offset + n <= MaxBytes
     /\ DataSent(s, n, is_fin)
     /\ snd' = [snd EXCEPT ![s] = [st EXCEPT !.sent_offset = @ + n, !.sending_offset = @ + n,
                                             !.is_active = is_still_active /\ ~ is_fin,
                                             !.fin_requested = is_fin, !.fin_sent = is_fin]]

TakenFrom(send_queue, n) ==
  IF send_queue = <<>> THEN <<>>
  ELSE IF n = Head(send_queue) THEN Tail(send_queue) ELSE [send_queue EXCEPT ![1] = @ - n]

prepare_queued_frame(s, room) ==
  LET st == snd[s]
      n == IF st.send_queue = <<>> THEN 0 ELSE Min({Head(st.send_queue), AllowedSpace(st, room)})
      left == TakenFrom(st.send_queue, n)
      fin == left = <<>> /\ st.fin_requested
  IN /\ ~ SendReset(st) /\ ~ (st.is_active /\ ~ st.fin_requested)
     /\ DataSent(s, n, fin)
     /\ snd' = [snd EXCEPT ![s] = [st EXCEPT !.send_queue = left, !.sent_offset = @ + n,
                                             !.fin_sent = @ \/ fin]]

prepare_stream_frame ==
  /\ Len(packets) < MaxPackets
  /\ Ready # {}
  /\ LET s == NextInTurn(Ready, snd_cnx.last_visited)
     IN \/ prepare_stream_reset_frame(s)
        \/ \E room \in 1..MaxRoom :
             \/ prepare_queued_frame(s, room)
             \/ \E n \in 0..room, fin, still \in BOOLEAN : prepare_polled_frame(s, room, n, fin, still)

(***************************************************************************)
(* retransmit_needed: the oldest packet in flight is declared lost.  Its    *)
(* frame goes into the next packet, is split when it does not fit, and is   *)
(* not repeated once the stream was reset.  A split that finds no room for  *)
(* a header fails, and the packet is given up all the same.                 *)
(***************************************************************************)
NotRepeated(f) == f.type = "STREAM" /\ snd[f.id].reset_sent

\* picoquic_split_stream_frame
FirstPart(f, n) == StreamFrame(f.id, f.offset, n, FALSE)
SecondPart_DropsFin(f, n) == StreamFrame(f.id, f.offset + n, f.length - n, FALSE)

SecondPart(f, n) == StreamFrame(f.id, f.offset + n, f.length - n, f.fin)

Repeat(f, room) ==
  IF f.length <= room
    THEN packets' = Append(packets, f) /\ UNCHANGED rtx_frames
    ELSE /\ room > 0
         /\ packets' = Append(packets, FirstPart(f, room))
         /\ rtx_frames' = Append(rtx_frames, SecondPart(f, room))

retransmit_needed(room) ==
  /\ queue # {} /\ losses < MaxLosses
  /\ LET lost == Min(queue)
         f == packets[lost]
         left == queue \ {lost}
     IN \/ /\ NotRepeated(f) \/ (f.length > room /\ room = 0)
           /\ queue' = left
           /\ UNCHANGED <<packets, rtx_frames>>
        \/ /\ ~ NotRepeated(f)
           /\ Len(packets) < MaxPackets
           /\ Repeat(f, room)
           /\ queue' = left \cup {Len(packets) + 1}
  /\ losses' = losses + 1
  /\ UNCHANGED <<snd, snd_cnx, server>>

\* the part of scheduler_write_new_frames that empties the queue of split frames
write_rtx_frame ==
  /\ rtx_frames # <<>> /\ Len(packets) < MaxPackets
  /\ Send(Head(rtx_frames))
  /\ rtx_frames' = Tail(rtx_frames)
  /\ UNCHANGED <<snd, snd_cnx, losses, server>>

packet_acknowledged(n) ==
  /\ n \in queue \cap arrived
  /\ queue' = queue \ {n}
  /\ UNCHANGED <<snd, snd_cnx, packets, rtx_frames, losses, server>>

-----------------------------------------------------------------------------
(***************************************************************************)
(* stream_data_callback: the blocks that have become contiguous are handed  *)
(* over; the end of the stream is signalled once everything up to it was.   *)
(***************************************************************************)
ReachesEnd_Received(r, consumed) == r.fin_received

ReachesEnd(r, consumed) == consumed >= r.fin_offset /\ r.fin_received

stream_data_callback(r) ==
  LET Handed(n) ==
        [r EXCEPT !.stream_data = SubSeq(@, n + 1, Len(@)),
                  !.consumed_offset = ConsumedAfter(r.stream_data, r.consumed_offset, n),
                  !.fin_signalled = @ \/ ReachesEnd(r, ConsumedAfter(r.stream_data, r.consumed_offset, n))]
  IN  Handed(Contiguous(r.stream_data, r.consumed_offset))

(***************************************************************************)
(* flow_control_check_stream_offset, for a new highest offset.              *)
(***************************************************************************)
WithinCredit(r, offset) ==
  /\ offset <= r.maxdata_local
  /\ rcv_cnx.data_received + (offset - r.fin_offset) <= rcv_cnx.maxdata_local

Counted(r, offset) == IF offset > r.fin_offset THEN offset - r.fin_offset ELSE 0

\* picoquic_update_max_stream_ID_local, for a stream of the peer in one direction
CreditedWhenComplete(r) ==
  [r EXCEPT !.max_stream_updated =
     @ \/ (r.consumed_offset >= r.fin_offset /\ (r.fin_received \/ r.reset_received))]

Refused == rcv_cnx' = [rcv_cnx EXCEPT !.error = TRUE] /\ UNCHANGED rcv

(***************************************************************************)
(* stream_network_input.  A stream that has its FIN takes nothing beyond    *)
(* it; the FIN is noted, and the stream perhaps credited, before the offset *)
(* of the FIN is.                                                           *)
(***************************************************************************)
stream_network_input(f) ==
  LET r == rcv[f.id]
      end == End(f)
      new_fin == f.fin /\ ~ r.fin_received
      beyond == r.fin_received /\ (IF f.fin THEN end # r.fin_offset ELSE end > r.fin_offset)
      noted == IF new_fin THEN CreditedWhenComplete([r EXCEPT !.fin_received = TRUE]) ELSE r
      counted == [noted EXCEPT !.fin_offset = Max({@, end})]
      blocks == queue_network_input(r.stream_data, r.consumed_offset, f)
      stored == [counted EXCEPT !.stream_data = blocks]
  IN IF beyond \/ (end > r.fin_offset /\ ~ WithinCredit(r, end))
       THEN Refused
       ELSE /\ rcv' = [rcv EXCEPT ![f.id] =
                         IF new_fin \/ blocks # r.stream_data THEN stream_data_callback(stored) ELSE stored]
            /\ rcv_cnx' = [rcv_cnx EXCEPT !.data_received = @ + Counted(r, end)]

process_stream_reset_frame(f) ==
  LET r == rcv[f.id]
      counted == [r EXCEPT !.fin_offset = Max({@, f.offset}), !.reset_received = TRUE]
  IN IF \/ (r.fin_received \/ r.reset_received) /\ f.offset # r.fin_offset
        \/ f.offset > r.fin_offset /\ ~ WithinCredit(r, f.offset)
       THEN Refused
       ELSE /\ rcv' = [rcv EXCEPT ![f.id] = IF r.reset_received THEN r ELSE CreditedWhenComplete(counted)]
            /\ rcv_cnx' = [rcv_cnx EXCEPT !.data_received = @ + Counted(r, f.offset)]

Arrive(n) ==
  /\ ~ rcv_cnx.error
  /\ IF packets[n].type = "STREAM" THEN stream_network_input(packets[n])
                                   ELSE process_stream_reset_frame(packets[n])
  /\ arrived' = IF rcv_cnx'.error THEN arrived ELSE arrived \cup {n}
  /\ UNCHANGED <<client, control>>

-----------------------------------------------------------------------------
(***************************************************************************)
(* The server's application, and its packets: MAX_DATA and MAX_STREAM_DATA  *)
(* when they are due, then a frame for each stream its find_ready_stream    *)
(* returns, which can only be a STOP_SENDING.                               *)
(***************************************************************************)
stop_sending(s) ==
  /\ "stop" \in Calls
  /\ ~ rcv[s].reset_received /\ ~ rcv[s].stop_sending_requested
  /\ rcv' = [rcv EXCEPT ![s].stop_sending_requested = TRUE]
  /\ UNCHANGED <<client, rcv_cnx, arrived, control>>

should_send_max_data == 2 * rcv_cnx.data_received > rcv_cnx.maxdata_local
NewMaxData == rcv_cnx.maxdata_local + 2 * rcv_cnx.data_received

DesiredOffset(r) == r.maxdata_local + 2 * r.consumed_offset
LargestOffset(r) == r.consumed_offset + ReceiveWindow
ShouldUpdate_NotLimited(r) ==
  DesiredOffset(r) < LargestOffset(r) /\ 2 * r.consumed_offset > r.maxdata_local

ShouldUpdate(r) ==
  \/ DesiredOffset(r) < LargestOffset(r) /\ 2 * r.consumed_offset > r.maxdata_local
  \/ DesiredOffset(r) >= LargestOffset(r) /\ 2 * (r.maxdata_local - r.consumed_offset) < ReceiveWindow

is_max_stream_data_frame_required(s) ==
  ~ rcv[s].fin_received /\ ~ rcv[s].reset_received /\ ShouldUpdate(rcv[s])

SendStopSending(r) == r.stop_sending_requested /\ ~ r.stop_sending_sent

\* prepare_stop_sending_frame writes nothing, and notes nothing, for a stream that has ended
NothingToStop(r) == SendStopSending(r) /\ (r.fin_received \/ r.reset_received)

Frame(type, s, v) == [type |-> type, id |-> s, value |-> v]

\* While a stream is found that has nothing to send the loop over the streams does not end.
prepare_server_packet ==
  LET credited == {s \in Ids : is_max_stream_data_frame_required(s)}
      stopped == {s \in Ids : SendStopSending(rcv[s])}
      NewOffset(s) == Min({DesiredOffset(rcv[s]), LargestOffset(rcv[s])})
  IN /\ ~ rcv_cnx.error
     /\ should_send_max_data \/ credited # {} \/ stopped # {}
     /\ \A s \in stopped : ~ NothingToStop(rcv[s])
     /\ control' = control
          \cup (IF should_send_max_data THEN {Frame("MAX_DATA", -1, NewMaxData)} ELSE {})
          \cup {Frame("MAX_STREAM_DATA", s, NewOffset(s)) : s \in credited}
          \cup {Frame("STOP_SENDING", s, 0) : s \in stopped}
     /\ rcv_cnx' = [rcv_cnx EXCEPT !.maxdata_local = IF should_send_max_data THEN NewMaxData ELSE @]
     /\ rcv' = [s \in Ids |->
                  [rcv[s] EXCEPT !.maxdata_local = IF s \in credited THEN NewOffset(s) ELSE @,
                                 !.stop_sending_sent = @ \/ s \in stopped]]
     /\ UNCHANGED <<client, arrived>>

process_max_data_frame(f) ==
  /\ f.type = "MAX_DATA" /\ f.value > snd_cnx.maxdata_remote
  /\ snd_cnx' = [snd_cnx EXCEPT !.maxdata_remote = f.value]
  /\ UNCHANGED <<snd, packets, queue, rtx_frames, losses, server>>

process_max_stream_data_frame(f) ==
  /\ f.type = "MAX_STREAM_DATA" /\ f.value > snd[f.id].maxdata_remote
  /\ snd' = [snd EXCEPT ![f.id].maxdata_remote = f.value]
  /\ UNCHANGED <<snd_cnx, packets, queue, rtx_frames, losses, server>>

process_stop_sending_frame(f) ==
  /\ f.type = "STOP_SENDING"
  /\ ~ snd[f.id].stop_sending_received /\ ~ snd[f.id].reset_requested
  /\ snd' = [snd EXCEPT ![f.id].stop_sending_received = TRUE]
  /\ UNCHANGED <<snd_cnx, packets, queue, rtx_frames, losses, server>>

Next ==
  \/ \E s \in Ids :
       \/ \E n \in 0..MaxBytes, fin \in BOOLEAN : add_to_stream(s, n, fin)
       \/ mark_active_stream(s) \/ reset_stream(s) \/ stop_sending(s)
  \/ prepare_stream_frame
  \/ \E room \in MinRoom..MaxRoom : retransmit_needed(room)
  \/ write_rtx_frame
  \/ \E n \in queue : packet_acknowledged(n)
  \/ \E n \in DOMAIN packets : Arrive(n)
  \/ prepare_server_packet
  \/ \E f \in control : process_max_data_frame(f) \/ process_max_stream_data_frame(f)
                          \/ process_stop_sending_frame(f)

Spec == Init /\ [][Next]_vars

(***************************************************************************)
(* Both ends go on sending what they have; a packet in flight arrives in    *)
(* the end unless it is declared lost first, which the bound on losses      *)
(* lets happen a few times to each item.                                    *)
(***************************************************************************)
Fairness ==
  /\ WF_vars(prepare_stream_frame) /\ WF_vars(write_rtx_frame) /\ WF_vars(prepare_server_packet)
  /\ WF_vars(\E n \in queue \ arrived : Arrive(n))
  /\ WF_vars(\E f \in control : process_max_data_frame(f) \/ process_max_stream_data_frame(f))

FairSpec == Spec /\ Fairness

-----------------------------------------------------------------------------
Outstanding == {packets[n] : n \in queue} \cup Range(rtx_frames)
Held(r) == 0..(r.consumed_offset - 1) \cup UNION {Bytes(r.stream_data[i]) : i \in DOMAIN r.stream_data}

\* What the server holds for a stream are disjoint blocks in order, above
\* what it delivered and within what was sent: a block never starts below
\* what was delivered, so the length handed to the application never wraps.
BlocksAreInOrder ==
  \A s \in Ids : LET b == rcv[s].stream_data
                 IN \A i \in DOMAIN b :
                      /\ b[i].length > 0 /\ End(b[i]) <= snd[s].sent_offset
                      /\ b[i].offset > (IF i = 1 THEN rcv[s].consumed_offset ELSE End(b[i - 1]) - 1)

\* No byte is lost for good: what was sent on a stream that was not reset the
\* server holds or a frame that waits for its acknowledgement carries, and so
\* for the FIN, whatever was lost, split and received in which order.
NothingIsLost ==
  \A s \in Ids : ~ snd[s].reset_sent =>
     /\ 0..(snd[s].sent_offset - 1) \subseteq
          Held(rcv[s]) \cup UNION {Bytes(f) : f \in {g \in Outstanding : g.id = s /\ g.type = "STREAM"}}
     /\ snd[s].fin_sent => rcv[s].fin_received \/ \E f \in Outstanding : f.id = s /\ f.fin

\* The application is told the end of a stream only when it was given all of
\* it: the FIN was sent, at the offset the server delivered up to.
EndIsTheEnd ==
  \A s \in Ids : rcv[s].fin_signalled =>
     snd[s].fin_sent /\ ~ snd[s].reset_sent /\ rcv[s].consumed_offset = snd[s].sent_offset

\* A server never finds fault with a client of the same code: neither its
\* flow-control limits nor its checks of the final size are ever broken.
NoErrorIsRaised == ~ rcv_cnx.error

\* Streams take turns: data goes out twice in a row on the same stream only
\* if no other stream is ready.
TurnsAreTaken ==
  [][snd_cnx'.data_sent > snd_cnx.data_sent /\ snd_cnx'.last_visited = snd_cnx.last_visited
       => Ready \subseteq {snd_cnx.last_visited}]_vars

\* A stream that was ended is delivered to its end, through windows smaller
\* than the stream, losses and splits, unless it is reset.
EndedStreamIsDelivered ==
  \A s \in Ids : snd[s].fin_requested ~> (rcv[s].fin_signalled \/ snd[s].reset_requested)

\* frames.c, prepare_stream_frame: "we still send whatever is allowed by flow
\* control. Doing otherwise may cause a loop if the "find_ready_stream"
\* function did not completely replicate the flow control test".  A stream
\* that find_ready_stream returns has something to send.
FoundStreamHasAFrame == \A s \in Ids : ~ NothingToStop(rcv[s])

\* sender.c, add_to_stream: "If our side has sent RST_STREAM or received
\* STOP_SENDING, we should not send anymore data."  After its RESET_STREAM
\* no new data leaves on a stream.
NothingFollowsReset ==
  \A i, j \in DOMAIN packets :
     i < j /\ packets[i].type = "RESET_STREAM" /\ packets[j].id = packets[i].id
       => End(packets[j]) <= packets[i].offset

\* frames.c, picoquic_update_max_stream_ID_local: "Receive is complete".  A
\* stream gives the peer its credit for a new one once all of it was received.
CreditedIsComplete ==
  \A s \in Ids : rcv[s].max_stream_updated /\ snd[s].fin_sent =>
     rcv[s].consumed_offset = snd[s].sent_offset \/ rcv[s].reset_received
=============================================================================
