----------------------------- MODULE WindowFlow -----------------------------
(***************************************************************************)
(* One direction of a connection of the window framework: the sending       *)
(* window (SendWindow), a network that loses and reorders, the receiver's   *)
(* tracker and ring (ReceivedSymbols), and the RWIN frames that             *)
(* go back and give the sender its credit.                                 *)
(*                                                                         *)
(* Source symbols are not retransmitted: a lost one comes back through      *)
(* repair symbols, which protect what the sending window holds when they    *)
(* are generated.  RWIN frames are not retransmitted either: a lost one     *)
(* raises a flag, and a fresh one is reserved, unless its packet has        *)
(* nothing to retransmit: prepare_packet_ready drops such a packet as it    *)
(* drops an acknowledged one, and the frame counts as received.             *)
(*                                                                         *)
(* What the linear system of the FEC scheme needs to decode is left out:    *)
(* Recover says that a symbol of the window can arrive that way.            *)
(***************************************************************************)
EXTENDS SendWindow, ReceivedSymbols

CONSTANTS
  InitialSymbols,           \* symbols that fit in the peer's initial_max_data
  MaxFrames                 \* bound on the RWIN frames outstanding

ASSUME FlowAssumption ==
  /\ MaxSize \in RwinSizes /\ MaxSize >= 2
  /\ InitialSymbols \in RwinSizes /\ InitialSymbols <= MaxSize + 1
  /\ MaxFrames \in Nat \ {0}
  /\ MaxId < IdSpace

VARIABLES
  \* the network
  packets,                  \* source symbols sent and not delivered: in flight, or lost
  rwin_frames,              \* RWIN frames reserved, sent or processed, neither acknowledged nor dropped
  \* the receiver
  intervals, received,      \* (see ReceivedTracker)
  ring,                     \* (see ReceivedSymbols)
  smallest_considered_id_to_advertise,
  smallest_considered_id_for_which_rwin_frame_has_been_sent,
  an_rwin_frame_was_acknowledged, \* last_acknowledged_smallest_considered_id # 0
  a_window_frame_has_been_lost,
  misreported               \* history: the largest id of an RWIN frame lost and reported as received
                            \* while the sender has got none as high, 0 when there is none

buffers == <<intervals, received, ring, smallest_considered_id_to_advertise>>
rwin == <<smallest_considered_id_for_which_rwin_frame_has_been_sent,
          an_rwin_frame_was_acknowledged, a_window_frame_has_been_lost, misreported>>
flow_vars == <<vars, packets, rwin_frames, buffers, rwin>>

FlowInit ==
  /\ Init
  /\ intervals = create_received_symbols_tracker
  /\ received = {0}
  /\ packets = {} /\ rwin_frames = <<>>
  /\ ring = new_ring_based_source_symbols_buffer
  /\ smallest_considered_id_to_advertise = 1
  /\ smallest_considered_id_for_which_rwin_frame_has_been_sent = 0
  /\ an_rwin_frame_was_acknowledged = FALSE
  /\ a_window_frame_has_been_lost = FALSE
  /\ misreported = 0

(***************************************************************************)
(* The sender.  The stream scheduler gives no stream while there is no      *)
(* credit, so that no packet is protected.                                 *)
(***************************************************************************)
can_send_new_source_symbol ==
  \/ max_id = 0 /\ largest_authorized_id_by_peer >= 1
  \/ max_id < largest_authorized_id_by_peer

SendSourceSymbol ==
  /\ can_send_new_source_symbol
  /\ window_protect_packet_payload(UNDEFINED_SYMBOL_DEADLINE)
  /\ packets' = packets \cup {max_id'}
  /\ UNCHANGED <<rwin_frames, buffers, rwin>>

StartSending ==
  /\ connection_state_changed(InitialSymbols)
  /\ UNCHANGED <<packets, rwin_frames, buffers, rwin>>

\* the acknowledgement, or the peer's RECOVERED frame, gets through
AnnounceReceived(id) ==
  /\ id \in received
  /\ packet_has_been_received(id)
  /\ UNCHANGED <<packets, rwin_frames, buffers, rwin>>

ProcessRwin(k) ==
  /\ k \in DOMAIN rwin_frames
  /\ rwin_frames[k].state = "sent"
  /\ process_window_rwin_frame(rwin_frames[k].smallest_id, MaxSize)
  /\ rwin_frames' = [rwin_frames EXCEPT ![k].state = "processed"]
  /\ misreported' = IF misreported > lowest_considered_id_by_peer' THEN misreported ELSE 0
  /\ UNCHANGED <<packets, buffers, smallest_considered_id_for_which_rwin_frame_has_been_sent,
                 an_rwin_frame_was_acknowledged, a_window_frame_has_been_lost>>

(***************************************************************************)
(* The receiver takes a source symbol, from a packet or from the decoder.   *)
(***************************************************************************)
window_update_flow_control_infos_HighestReceived ==
  smallest_considered_id_to_advertise' = Max(received')

window_update_flow_control_infos ==
  smallest_considered_id_to_advertise' =
    get_highest_contiguous_received_source_symbol(intervals')

window_receive_source_symbol(id) ==
  /\ ring' = ring_add(ring, id)
  /\ intervals' = tracker_receive_source_symbol(intervals, id)
  /\ received' = received \cup {id}
  /\ window_update_flow_control_infos

DeliverPacket(id) ==
  /\ id \in packets
  /\ window_receive_source_symbol(id)
  /\ packets' = packets \ {id}
  /\ UNCHANGED <<vars, rwin_frames, rwin>>

Recover(id) ==
  /\ id \in get_current_window \ received
  /\ window_receive_source_symbol(id)
  /\ UNCHANGED <<vars, packets, rwin_frames, rwin>>

(***************************************************************************)
(* RWIN frames.  Before it schedules frames the receiver reserves one when  *)
(* it has news (or a packet to send anyway: an ACK), and the peer's credit  *)
(* runs low, an RWIN was lost, none was acknowledged yet, or a              *)
(* MAX_STREAM_DATA frame goes out too.                                      *)
(***************************************************************************)
needs_a_rwin_frame_IgnoresLoss(max_stream_data) ==
  \/ ~ an_rwin_frame_was_acknowledged
  \/ smallest_considered_id_for_which_rwin_frame_has_been_sent + (MaxSize \div 3)
       < get_highest_contiguous_received_source_symbol(intervals)
  \/ max_stream_data

needs_a_rwin_frame(max_stream_data) ==
  \/ ~ an_rwin_frame_was_acknowledged
  \/ a_window_frame_has_been_lost
  \/ smallest_considered_id_for_which_rwin_frame_has_been_sent + (MaxSize \div 3)
       < get_highest_contiguous_received_source_symbol(intervals)
  \/ max_stream_data

reserve_window_rwin_frame_if_needed(ack_needed, max_stream_data) ==
  /\ \/ a_window_frame_has_been_lost
     \/ smallest_considered_id_for_which_rwin_frame_has_been_sent
          # smallest_considered_id_to_advertise
     \/ ack_needed
  /\ IF needs_a_rwin_frame(max_stream_data)
       THEN /\ Len(rwin_frames) < MaxFrames
            /\ rwin_frames' = Append(rwin_frames, [smallest_id |-> smallest_considered_id_to_advertise,
                                                  state |-> "reserved"])
            /\ smallest_considered_id_for_which_rwin_frame_has_been_sent' =
                 smallest_considered_id_to_advertise
       ELSE UNCHANGED <<rwin_frames, smallest_considered_id_for_which_rwin_frame_has_been_sent>>
  /\ a_window_frame_has_been_lost' = FALSE
  /\ UNCHANGED <<vars, packets, buffers, an_rwin_frame_was_acknowledged, misreported>>

\* the reserved frames are written in their order, with the id of the moment
window_write_window_rwin_frame(k) ==
  /\ k \in DOMAIN rwin_frames
  /\ \A j \in 1..k : rwin_frames[j].state = "reserved" <=> j = k
  /\ rwin_frames' = [rwin_frames EXCEPT ![k] = [smallest_id |-> smallest_considered_id_to_advertise,
                                               state |-> "sent"]]
  /\ UNCHANGED <<vars, packets, buffers, rwin>>

(***************************************************************************)
(* The packet of a frame leaves the retransmission queue: it is             *)
(* acknowledged, or declared lost, rightly or not.  A packet that is        *)
(* declared lost is reported as such, or as received when there is nothing  *)
(* in it to retransmit.                                                     *)
(***************************************************************************)
notify_window_rwin_frame(k, reported) ==
  /\ k \in DOMAIN rwin_frames
  /\ rwin_frames[k].state # "reserved"
  /\ an_rwin_frame_was_acknowledged' =
       (an_rwin_frame_was_acknowledged \/ (reported /\ rwin_frames[k].smallest_id # 0))
  /\ a_window_frame_has_been_lost' = (a_window_frame_has_been_lost \/ ~ reported)
  /\ misreported' = IF /\ reported /\ rwin_frames[k].state = "sent"
                       /\ rwin_frames[k].smallest_id > lowest_considered_id_by_peer
                      THEN Larger(misreported, rwin_frames[k].smallest_id) ELSE misreported
  /\ rwin_frames' = Removed(rwin_frames, k)
  /\ UNCHANGED <<vars, packets, buffers,
                 smallest_considered_id_for_which_rwin_frame_has_been_sent>>

FlowNext ==
  \/ StartSending
  \/ SendSourceSymbol
  \/ \E id \in Ids : AnnounceReceived(id)
  \/ \E k \in 1..MaxFrames : ProcessRwin(k)
  \/ \E id \in Ids : DeliverPacket(id)
  \/ \E id \in Ids : Recover(id)
  \/ \E ack_needed, max_stream_data \in BOOLEAN :
       reserve_window_rwin_frame_if_needed(ack_needed, max_stream_data)
  \/ \E k \in 1..MaxFrames : window_write_window_rwin_frame(k)
  \/ \E k \in 1..MaxFrames, reported \in BOOLEAN : notify_window_rwin_frame(k, reported)

FlowSpec == FlowInit /\ [][FlowNext]_flow_vars

(***************************************************************************)
(* Nothing is assumed of the delivery of packets and of acknowledgements,   *)
(* nor of RECOVERED frames, which are not sent again when they are lost: no *)
(* symbol need ever be announced.  A symbol that stays in the window is     *)
(* recovered in the end: the redundancy controller asks for another repair  *)
(* symbol each time one is lost.  A frame that is reserved is written, RWIN *)
(* frames sent for ever get through, and the packet of each leaves the      *)
(* retransmission queue.  Nothing is assumed of acknowledgements to send or *)
(* of MAX_STREAM_DATA frames.                                               *)
(***************************************************************************)
Fairness ==
  /\ WF_flow_vars(StartSending)
  /\ WF_flow_vars(SendSourceSymbol)
  /\ \A id \in Ids : WF_flow_vars(Recover(id))
  /\ \A k \in 1..MaxFrames : SF_flow_vars(ProcessRwin(k))
  /\ WF_flow_vars(reserve_window_rwin_frame_if_needed(FALSE, FALSE))
  /\ \A k \in 1..MaxFrames : WF_flow_vars(window_write_window_rwin_frame(k))
  /\ WF_flow_vars(\E k \in 1..MaxFrames, reported \in BOOLEAN : notify_window_rwin_frame(k, reported))

FairSpec == FlowSpec /\ Fairness
-----------------------------------------------------------------------------
(***************************************************************************)
(* No symbol is lost for good: whatever was sent is at the receiver, or     *)
(* still in the sending window where repair symbols protect it.             *)
(***************************************************************************)
NothingLostForGood ==
  \A id \in 1..max_id : id \in received \/ id \in get_current_window

(***************************************************************************)
(* The credit protects the receive ring: what a repair symbol of the        *)
(* current window refers to is found in the ring if and only if it was      *)
(* received, and a symbol in flight is never so far above the last one that *)
(* the ring would have to be emptied for it.                               *)
(***************************************************************************)
CreditProtectsRing ==
  /\ \A id \in get_current_window : ring_contains(ring, id) <=> id \in received
  /\ \A id \in packets : received # {0} => id < Max(received) + MaxSize

(***************************************************************************)
(* Every symbol is sent and received, and the sending window is left with   *)
(* the symbols the last RWIN frame need not name.                           *)
(***************************************************************************)
AllArrived ==
  /\ max_id = MaxId /\ received = 0..MaxId
  /\ \A id \in get_current_window : id + (MaxSize \div 3) >= MaxId

(***************************************************************************)
(* The credit dries up for one reason only: although no symbol need be      *)
(* announced and RWIN frames are lost, late and never retransmitted, every  *)
(* symbol arrives and leaves the window in the end, unless an RWIN frame    *)
(* was lost in a packet with nothing to retransmit, and the sender got none *)
(* with as high an id.                                                      *)
(***************************************************************************)
EverythingArrives == <>[](AllArrived \/ misreported # 0)

(***************************************************************************)
(* "to trigger at least one retransmission"                                 *)
(* (window_notify_window_rwin_frame.c:26): the loss of an RWIN frame never  *)
(* costs the sender its credit for good.                                    *)
(***************************************************************************)
CreditComesBack == <>[]AllArrived
=============================================================================
