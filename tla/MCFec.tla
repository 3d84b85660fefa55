-------------------------------- MODULE MCFec --------------------------------
(***************************************************************************)
(* The window framework of the FEC plugin: the receiver's bookkeeping, the  *)
(* sending window, the RECOVERED frames on the wire, the slots of the sender*)
(***************************************************************************)
EXTENDS ReceivedTracker

VARIABLES part, window_fec_window, window_max_id, window_smallest_in_transit,
    window_highest_in_transit, window_window_length, window_lowest_considered_id_by_peer,
    window_largest_authorized_id_by_peer, window_symbols_from_deadlines, window_deadlines_from_symbols,
    window_landed, wire_isProtected, wire_recovered, slots_plugin, slots_reserved_frames,
    slots_retry_frames, slots_max_id, slots_landed, slots_lowest, slots_sent, slots_fate

Window == INSTANCE SendWindow WITH
    N <- 3, Deadlines <- {"d1", "d2"},
    UNDEFINED_SYMBOL_DEADLINE <- "none", MaxId <- 6, MaxLag <- 3, RwinSizes <- {3},
    fec_window <- window_fec_window, max_id <- window_max_id,
    smallest_in_transit <- window_smallest_in_transit, highest_in_transit <- window_highest_in_transit,
    window_length <- window_window_length,
    lowest_considered_id_by_peer <- window_lowest_considered_id_by_peer,
    largest_authorized_id_by_peer <- window_largest_authorized_id_by_peer,
    symbols_from_deadlines <- window_symbols_from_deadlines,
    deadlines_from_symbols <- window_deadlines_from_symbols, landed <- window_landed

Wire == INSTANCE RecoveredWire WITH
    MaxPn <- 8, MaxBytes <- 22, OneByte <- 2, Longest <- 2,
    isProtected <- wire_isProtected, recovered <- wire_recovered

Slots == INSTANCE SlotReservation WITH
    MAX_SLOTS <- 4, N <- 2, RepairLimit <- 1, FpiSize <- 1,
    RepairSize <- 3, Room <- 5, MaxSlot <- 3, plugin <- slots_plugin,
    reserved_frames <- slots_reserved_frames, retry_frames <- slots_retry_frames,
    max_id <- slots_max_id, landed <- slots_landed, lowest <- slots_lowest, sent <- slots_sent,
    fate <- slots_fate

TrackerVars == <<intervals, ring, received, jumped>>
WindowVars == <<window_fec_window, window_max_id, window_smallest_in_transit,
    window_highest_in_transit, window_window_length, window_lowest_considered_id_by_peer,
    window_largest_authorized_id_by_peer, window_symbols_from_deadlines, window_deadlines_from_symbols,
    window_landed>>
WireVars == <<wire_isProtected, wire_recovered>>
SlotsVars == <<slots_plugin, slots_reserved_frames, slots_retry_frames, slots_max_id, slots_landed,
    slots_lowest, slots_sent, slots_fate>>

\* The parts that are not in play keep this value.
Idle == 0

TrackerIdle == TrackerInit
WindowIdle == Window!Init
WireIdle == wire_isProtected = Idle /\ wire_recovered = Idle
SlotsIdle == slots_plugin = Idle /\ slots_reserved_frames = Idle /\ slots_retry_frames = Idle
    /\ slots_max_id = Idle /\ slots_landed = Idle /\ slots_lowest = Idle /\ slots_sent = Idle
    /\ slots_fate = Idle

\* One part is in play in each behaviour.
MCInit ==
  \/ part = "tracker" /\ TrackerInit /\ WindowIdle /\ WireIdle /\ SlotsIdle
  \/ part = "window" /\ Window!Init /\ TrackerIdle /\ WireIdle /\ SlotsIdle
  \/ part = "wire" /\ Wire!Init /\ TrackerIdle /\ WindowIdle /\ SlotsIdle
  \/ part = "slots" /\ Slots!Init /\ TrackerIdle /\ WindowIdle /\ WireIdle

MCNext ==
  \/ part = "tracker" /\ TrackerNext /\ UNCHANGED <<part, WindowVars, WireVars, SlotsVars>>
  \/ part = "window" /\ Window!Next /\ UNCHANGED <<part, TrackerVars, WireVars, SlotsVars>>
  \/ part = "wire" /\ Wire!Next /\ UNCHANGED <<part, TrackerVars, WindowVars, SlotsVars>>
  \/ part = "slots" /\ Slots!Next /\ UNCHANGED <<part, TrackerVars, WindowVars, WireVars>>

MCVars == <<part, TrackerVars, WindowVars, WireVars, SlotsVars>>

MCSpec == MCInit /\ [][MCNext]_MCVars

\* The sender's window of source symbols is sound and takes nothing back.
WindowsAreExact ==
  /\ [](part = "window" => Window!WindowIsSound)
  /\ Window!NothingComesBack

\* A RECOVERED frame fits in its room, names the packets whose symbols it reports and is understood by the peer.
RecoveredFrameIsExact == part = "wire" => Wire!IdRangesCoverPacketRanges /\ Wire!RecoveredFrameIsUnderstood /\ Wire!RecoveredFrameFits

\* The reservations of the slots are exact: one source symbol for each packet, what is reserved is what is counted,
\* and a lost slot is answered.
SlotsAreExact == part = "slots" => Slots!OneSymbolPerPacket /\ Slots!ReservedIsExact /\ Slots!LossIsAnswered

\* The degrees of freedom the causal controller counts, added and missing, are those of the packets in flight.
DegreesAreExact == part = "slots" => Slots!AddedDegreesAreExact /\ Slots!MissingDegreesAreExact

=============================================================================
