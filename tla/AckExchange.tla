----------------------------- MODULE AckExchange ----------------------------
(***************************************************************************)
(* Two endpoints exchange numbered packets over a network that loses,       *)
(* reorders and duplicates them, and acknowledge them to each other.  A     *)
(* packet carries an item of data, an ACK frame, or both; an item keeps the *)
(* number of the first packet it was sent in.  An endpoint keeps what it    *)
(* sent in its retransmission queue until an ACK takes it out or it is      *)
(* declared lost, and the ranges it received until an ACK of its own ACK    *)
(* lets it forget them.                                                     *)
(*                                                                         *)
(* Time is left open: an ACK delay may or may not have elapsed, and the     *)
(* oldest packet in flight may be declared lost at any time.  The network   *)
(* is the packets sent so far, received at any time, any number of times.   *)
(***************************************************************************)
EXTENDS Sacks

CONSTANTS
  Endpoints,                \* the two ends
  MaxPackets,               \* bound: MaxPackets[e] packets are sent by e
  ForcedAckGap              \* 8 in the code: an ACK of this many packets is sent unasked

VARIABLES
  packets,                  \* packets[e][pn + 1]: what e sent as number pn
  queue,                    \* numbers of e from retransmit_oldest to retransmit_newest
  sack,                     \* first_sack_item and its successors
  ack_needed,
  highest_ack_sent,
  delivered,                \* history: numbers whose frames e processed
  again                     \* history: numbers whose frames e processed more than once

vars == <<packets, queue, sack, ack_needed, highest_ack_sent, delivered, again>>

Peer(e) == CHOOSE f \in Endpoints : f # e
send_sequence(e) == Len(packets[e])
NoAck == <<>>
NoData == -1
Pns(e) == 0..(send_sequence(e) - 1)
Sent(e, pn) == packets[e][pn + 1]

Init ==
  /\ packets = [e \in Endpoints |-> <<>>]
  /\ queue = [e \in Endpoints |-> {}]
  /\ sack = [e \in Endpoints |-> <<>>]
  /\ ack_needed = [e \in Endpoints |-> FALSE]
  /\ highest_ack_sent = [e \in Endpoints |-> 0]
  /\ delivered = [e \in Endpoints |-> {}]
  /\ again = [e \in Endpoints |-> {}]

-----------------------------------------------------------------------------
prepare_ack_frame(e) == IF sack[e] = <<>> THEN NoAck ELSE AckFrame(sack[e])

(***************************************************************************)
(* The ranges of a received ACK frame that process_ack_frame visits: after  *)
(* the second range and each later one it stops when nothing that is still  *)
(* queued lies below.                                                       *)
(***************************************************************************)
StopsAfter(e, ranges, i) ==
  LET left == queue[e] \ UNION {Numbers(ranges[j]) : j \in 1..i}
  IN i > 1 /\ \A pn \in left : pn > ranges[i].end

Acknowledged(e, ranges) ==
  queue[e] \cap UNION {Numbers(ranges[i]) :
                         i \in {k \in DOMAIN ranges : \A j \in 1..(k - 1) : ~ StopsAfter(e, ranges, j)}}

\* process_possible_ack_of_ack_frame: the ranges the acknowledged packet had reported
ForgetReported(l, f) ==
  IF f = NoAck THEN l
  ELSE FoldLeft(LAMBDA acc, r : process_ack_of_ack_range(acc, r.start, r.end), l, AckRanges(f))

\* the packets of A leave the queue, from the highest, each with its ACK frame
ForgetAll(e, A) ==
  LET after[n \in 0..send_sequence(e)] ==
        IF n = 0 THEN sack[e]
        ELSE LET pn == send_sequence(e) - n
             IN IF pn \in A THEN ForgetReported(after[n - 1], Sent(e, pn).ack) ELSE after[n - 1]
  IN after[send_sequence(e)]

(***************************************************************************)
(* A packet is finished: it takes the next number and is queued.            *)
(***************************************************************************)
Finalize(e, data, ack, left) ==
  /\ send_sequence(e) < MaxPackets[e]
  /\ packets' = [packets EXCEPT ![e] = Append(@, [data |-> data, ack |-> ack])]
  /\ queue' = [queue EXCEPT ![e] = left \cup {send_sequence(e)}]

\* prepare_ack_frame clears ack_needed even when it found nothing to report
AckPrepared(e, ack) ==
  /\ ack_needed' = [ack_needed EXCEPT ![e] = FALSE]
  /\ highest_ack_sent' = [highest_ack_sent EXCEPT ![e] = IF ack = NoAck THEN @ ELSE ack.largest]

is_ack_needed(e, elapsed) ==
  IF ack_needed[e]
    THEN highest_ack_sent[e] + 2 <= HighestReceived(sack[e]) \/ elapsed
    ELSE highest_ack_sent[e] + ForcedAckGap <= HighestReceived(sack[e]) /\ elapsed

(***************************************************************************)
(* prepare_packet_ready with nothing to retransmit: fresh data if there is  *)
(* some, an ACK frame if one is needed; without either no packet is sent.   *)
(***************************************************************************)
SendPacket(e, has_data, elapsed) ==
  LET acking == is_ack_needed(e, elapsed)
      ack == IF acking THEN prepare_ack_frame(e) ELSE NoAck
  IN /\ has_data \/ ack # NoAck
     /\ Finalize(e, IF has_data THEN send_sequence(e) ELSE NoData, ack, queue[e])
     /\ IF acking THEN AckPrepared(e, ack) ELSE UNCHANGED <<ack_needed, highest_ack_sent>>
     /\ UNCHANGED <<sack, delivered, again>>

(***************************************************************************)
(* retransmit_needed: the oldest packet in flight is declared lost and      *)
(* leaves the queue.  Its data goes into a new packet, which also gets an   *)
(* ACK frame, needed or not; one without data is dropped.                   *)
(***************************************************************************)
DeclareLost(e) ==
  /\ queue[e] # {}
  /\ LET lost == Min(queue[e])
         left == queue[e] \ {lost}
         data == Sent(e, lost).data
         ack == prepare_ack_frame(e)
     IN IF data = NoData
          THEN queue' = [queue EXCEPT ![e] = left] /\ UNCHANGED <<packets, ack_needed, highest_ack_sent>>
          ELSE Finalize(e, data, ack, left) /\ AckPrepared(e, ack)
  /\ UNCHANGED <<sack, delivered, again>>

(***************************************************************************)
(* A packet of the peer arrives.  One whose number is recorded is only      *)
(* answered.  Otherwise its frames are processed, its ACK frame first of    *)
(* all forgetting what is no longer worth reporting, and then its number is *)
(* recorded.                                                               *)
(***************************************************************************)
ReceiveDuplicate(e, pn) ==
  /\ is_pn_already_received(sack[e], pn)
  /\ ack_needed' = [ack_needed EXCEPT ![e] = TRUE]
  /\ UNCHANGED <<packets, queue, sack, highest_ack_sent, delivered, again>>

ReceiveNew(e, pn) ==
  LET p == Sent(Peer(e), pn)
      acked == IF p.ack = NoAck THEN {} ELSE Acknowledged(e, AckRanges(p.ack))
  IN /\ ~ is_pn_already_received(sack[e], pn)
     /\ queue' = [queue EXCEPT ![e] = @ \ acked]
     /\ sack' = [sack EXCEPT ![e] = record_pn_received(ForgetAll(e, acked), pn)]
     /\ ack_needed' = [ack_needed EXCEPT ![e] = @ \/ p.data # NoData]
     /\ delivered' = [delivered EXCEPT ![e] = @ \cup {pn}]
     /\ again' = [again EXCEPT ![e] = @ \cup ({pn} \cap delivered[e])]
     /\ UNCHANGED <<packets, highest_ack_sent>>

Next ==
  \E e \in Endpoints :
     \/ \E has_data, elapsed \in BOOLEAN : SendPacket(e, has_data, elapsed)
     \/ DeclareLost(e)
     \/ \E pn \in Pns(Peer(e)) : ReceiveDuplicate(e, pn) \/ ReceiveNew(e, pn)

Spec == Init /\ [][Next]_vars

-----------------------------------------------------------------------------
\* The list of received ranges stays what every reader of it takes it for:
\* from the highest to the lowest, each range nonempty, at least one number
\* missing between two, so that the gap an ACK frame reports never wraps.
RangesAreSeparated ==
  \A e \in Endpoints : \A i \in DOMAIN sack[e] :
     /\ sack[e][i].start <= sack[e][i].end
     /\ i > 1 => sack[e][i].end + 2 <= sack[e][i - 1].start

\* What an ACK frame on the wire reports, decoded by its reader, its sender
\* had received: an ACK never covers a packet that is lost.
AcksAreTruthful ==
  \A e \in Endpoints : \A pn \in Pns(e) :
     Sent(e, pn).ack # NoAck =>
        LET reported == Covered(AckRanges(Sent(e, pn).ack))
        IN reported \subseteq delivered[e]

\* Nothing is lost for good: every item an endpoint ever sent was processed
\* by the peer or is in a packet of the retransmission queue.
EveryItemIsSafe ==
  \A e \in Endpoints : \A pn \in Pns(e) :
     LET item == Sent(e, pn).data
     IN item # NoData =>
          \E n \in Pns(e) : Sent(e, n).data = item /\ n \in queue[e] \cup delivered[Peer(e)]

\* A number that ack-of-ack pruning forgot is settled: the peer no longer
\* holds the packet in its retransmission queue, so it needs no other ACK.
ForgottenIsSettled ==
  \A e \in Endpoints : (delivered[e] \ Covered(sack[e])) \cap queue[Peer(e)] = {}

\* packet.c, before a packet is decrypted: "verify that the packet is new".
\* The frames of a packet are processed at most once.
ProcessedOnce == \A e \in Endpoints : again[e] = {}
=============================================================================
