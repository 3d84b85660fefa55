-------------------------- MODULE RecoveredFrames --------------------------
(***************************************************************************)
(* How the receiver reports the packets it rebuilt.  It keeps their        *)
(* numbers in wff->recovered_packets, reserves a RECOVERED frame when it   *)
(* has rebuilt a packet and none is reserved, fills the frame when it is   *)
(* written, and forgets the packets when the frame is reported received.   *)
(* (window_framework/framework_receiver.h, try_to_recover;                 *)
(* window_write_recovered_frame.c; window_notify_recovered_frame.c)        *)
(*                                                                         *)
(* The packets that carry these frames are lost or acknowledged: losses    *)
(* are declared for the oldest packet in flight only, since                *)
(* disable_retransmissions.c stops at the first packet that is not lost,   *)
(* and may be wrong; acknowledgements come in any order.                   *)
(*                                                                         *)
(* A frame that is written always fits (module RecoveredWire), so the      *)
(* writing never fails and its size is modelled as a number of packets.    *)
(***************************************************************************)
EXTENDS ListEdits, FiniteSets

CONSTANTS
    Pns,        \* the packets of the peer that may have to be rebuilt
    Room,       \* how many packets fit in a frame
    MaxLosses,  \* how many packets with a RECOVERED frame are declared lost
    MaxFlight   \* how many RECOVERED frames are in flight at once

ASSUME ReportAssumption ==
    Pns \subseteq Nat /\ IsFiniteSet(Pns) /\ Room \in Nat \ {0}
    /\ MaxLosses \in Nat /\ MaxFlight \in Nat

VARIABLES
    recovered_packets,            \* wff->recovered_packets, the keys
    n_reserved_recovered_frames,  \* state->n_reserved_recovered_frames
    n_recovered_frames_in_flight, \* state->n_recovered_frames_in_flight
    queued,     \* how many RECOVERED frames the core has reserved, not written
    flight,     \* the frames in flight, oldest first: what they name, and
                \* whether the peer has received them
    reported,   \* the packets named by the frames that the peer has received
    rebuilt,    \* the packets that were ever rebuilt
    losses      \* how many losses were declared

plugin_vars == <<recovered_packets, n_reserved_recovered_frames, n_recovered_frames_in_flight>>
vars == <<plugin_vars, queued, flight, reported, rebuilt, losses>>

Frames == [names : SUBSET Pns, arrived : BOOLEAN]

Init ==
    /\ recovered_packets = {}
    /\ n_reserved_recovered_frames = 0
    /\ n_recovered_frames_in_flight = 0
    /\ queued = 0
    /\ flight = <<>>
    /\ reported = {} /\ rebuilt = {} /\ losses = 0

-----------------------------------------------------------------------------
\* The smallest packets, as many as fit.
fill_recovered_frame(packets) ==
    {p \in packets : Cardinality({q \in packets : q < p}) < Room}

\* Mutant: a frame is reserved only for the first packet.
try_to_recover_OnlyWhenEmpty(new) ==
    LET reserve == n_reserved_recovered_frames = 0 /\ recovered_packets = {}
    IN  /\ recovered_packets' = recovered_packets \cup new
        /\ rebuilt' = rebuilt \cup new
        /\ queued' = IF reserve THEN queued + 1 ELSE queued
        /\ n_reserved_recovered_frames' =
               IF reserve THEN n_reserved_recovered_frames + 1 ELSE n_reserved_recovered_frames
        /\ UNCHANGED <<n_recovered_frames_in_flight, flight, reported, losses>>

\* The decoder rebuilds the packets of `new', each for the first time.
try_to_recover(new) ==
    LET reserve == n_reserved_recovered_frames = 0
    IN  /\ recovered_packets' = recovered_packets \cup new
        /\ rebuilt' = rebuilt \cup new
        /\ queued' = IF reserve THEN queued + 1 ELSE queued
        /\ n_reserved_recovered_frames' =
               IF reserve THEN n_reserved_recovered_frames + 1 ELSE n_reserved_recovered_frames
        /\ UNCHANGED <<n_recovered_frames_in_flight, flight, reported, losses>>

Recover(new) ==
    /\ new # {} /\ new \cap rebuilt = {}
    /\ try_to_recover(new)

\* scheduler_write_new_frames takes the frame from the queue of the core.
write_recovered_frame ==
    /\ queued > 0
    /\ Len(flight) < MaxFlight
    /\ queued' = queued - 1
    /\ flight' = Append(flight, [names |-> fill_recovered_frame(recovered_packets),
                                 arrived |-> FALSE])
    /\ n_recovered_frames_in_flight' = n_recovered_frames_in_flight + 1
    /\ n_reserved_recovered_frames' = n_reserved_recovered_frames - 1
    /\ UNCHANGED <<recovered_packets, reported, rebuilt, losses>>

\* Mutant: the acknowledgement of a frame clears the tree.
notify_recovered_frame_ForgetsAll(frame, lost) ==
    LET inFlight == n_recovered_frames_in_flight - 1
    IN  /\ n_recovered_frames_in_flight' = inFlight
        /\ recovered_packets' = IF lost /\ inFlight = 0 THEN recovered_packets ELSE {}
        /\ UNCHANGED <<queued, n_reserved_recovered_frames>>

\* `lost' is state->current_packet_is_lost.  dequeue_retransmit_packet tells the
\* plugin "received" in both cases, since the lost packets of the application
\* context are freed (disable_retransmissions.c).  A frame is reserved again only
\* if it could not be filled, which does not happen.
notify_recovered_frame(frame, lost) ==
    LET inFlight == n_recovered_frames_in_flight - 1
        err      == FALSE
        again    == lost /\ inFlight = 0 /\ err
    IN  /\ n_recovered_frames_in_flight' = inFlight
        /\ recovered_packets' =
               IF lost /\ inFlight = 0 THEN recovered_packets
               ELSE recovered_packets \ frame.names
        /\ queued' = IF again THEN queued + 1 ELSE queued
        /\ n_reserved_recovered_frames' =
               IF again THEN n_reserved_recovered_frames + 1 ELSE n_reserved_recovered_frames

\* The packet with the k-th frame reaches the peer, late or not.
Arrive(k) ==
    /\ ~flight[k].arrived
    /\ flight' = [flight EXCEPT ![k].arrived = TRUE]
    /\ reported' = reported \cup flight[k].names
    /\ UNCHANGED <<plugin_vars, queued, rebuilt, losses>>

\* An ACK frame names the packet of the k-th frame; or the packet is late and a
\* RECOVERED frame of the peer names it (maybe_notify_recovered_packets_to_everybody):
\* the peer has rebuilt it and read its frame.  Neither is told as a loss.
Acknowledge(k) ==
    /\ flight[k].arrived
    /\ notify_recovered_frame(flight[k], FALSE)
    /\ flight' = Removed(flight, k)
    /\ UNCHANGED <<reported, rebuilt, losses>>

DeclareLost ==
    /\ flight # <<>> /\ losses < MaxLosses
    /\ losses' = losses + 1
    /\ notify_recovered_frame(flight[1], TRUE)
    /\ flight' = Tail(flight)
    /\ UNCHANGED <<reported, rebuilt>>

Next ==
    \/ \E new \in SUBSET Pns : Recover(new)
    \/ write_recovered_frame
    \/ \E k \in DOMAIN flight : Arrive(k) \/ Acknowledge(k)
    \/ DeclareLost

Spec == Init /\ [][Next]_vars

\* A reserved frame is written with the next packet, and a packet that is not
\* declared lost arrives and is acknowledged.
FairSpec ==
    /\ Spec
    /\ WF_vars(write_recovered_frame)
    /\ WF_vars(\E k \in DOMAIN flight : Arrive(k))
    /\ WF_vars(\E k \in DOMAIN flight : Acknowledge(k))

-----------------------------------------------------------------------------
TypeOK ==
    /\ recovered_packets \subseteq rebuilt /\ rebuilt \subseteq Pns /\ reported \subseteq Pns
    /\ n_reserved_recovered_frames \in Int /\ n_recovered_frames_in_flight \in Int
    /\ queued \in Nat /\ flight \in Seq(Frames) /\ losses \in Nat

\* The counters that the reservation and the notification decide by are exact:
\* at most one frame is reserved, and the frames in flight are the ones counted,
\* whichever way the packets left the retransmission queue.
ReportCountersAreExact ==
    /\ n_reserved_recovered_frames = queued /\ queued <= 1
    /\ n_recovered_frames_in_flight = Len(flight)

\* No RECOVERED frame is written without a packet, although the packets it was
\* reserved for may be forgotten before it is written: the first number of an
\* empty frame would be read as a packet and the frame refused
\* (parse_packets_range counts 1 packet before it looks at the others).
EveryFrameNamesAPacket == \A k \in DOMAIN flight : flight[k].names # {}

\* The reports of the receiver are sound: its counters are exact, and no RECOVERED
\* frame is written that the peer would refuse because it names nothing.
ReportsAreSound == ReportCountersAreExact /\ EveryFrameNamesAPacket

\* Every rebuilt packet is reported to the peer in the end.
EveryRecoveryIsReported == \A p \in Pns : p \in rebuilt ~> p \in reported

\* As long as no packet with a RECOVERED frame is declared lost, and all the
\* packets rebuilt fit in a frame, every rebuilt packet is reported in the end,
\* although a frame is reserved only when none is and names what it finds.
ReportedUnlessLost ==
    \A p \in Pns :
        p \in rebuilt ~> p \in reported \/ losses > 0 \/ Cardinality(rebuilt) > Room
=============================================================================
