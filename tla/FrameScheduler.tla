--------------------------- MODULE FrameScheduler ---------------------------
(***************************************************************************)
(* How the core sends the frames of its plugins.  A plugin reserves blocks  *)
(* of frame slots in one of its two queues, with or without congestion      *)
(* control.  When a packet is made, blocks move to reserved_frames, plugin  *)
(* after plugin, and the slots found there are written: a plugin may write  *)
(* its frame, put it off (the slot goes to retry_frames), write nothing, or *)
(* fail.  The packet remembers its slots, and when it leaves the            *)
(* retransmission queue the plugins are notified.                           *)
(*                                                                         *)
(* The slots, the data of the core, the answers of the plugins and the fate *)
(* of packets are inputs.  Sizes are in abstract bytes.                     *)
(***************************************************************************)
EXTENDS Integers, Sequences, SequencesExt, FiniteSetsExt

CONSTANTS
  NbPlugins,                \* plugins, in the order of the hash table
  Unlimited,                \* those with rate_unlimited
  Kinds,                    \* slots: records [size, cc, again]
  BlockSizes,               \* nb_frames of a block
  Mss,                      \* bytes of a packet without its checksum
  Header,                   \* bytes of its header
  Cwin,                     \* congestion window
  CoreRate,                 \* core_rate, per thousand
  Answers,                  \* what write_frame may do: "written", "retry", "empty", "error"
  MaxSlots,                 \* bound: slots reserved
  MaxOthers,                \* bound: packets sent for the core's own frames
  MaxLosses                 \* bound: packets declared lost

VARIABLES
  slot,                     \* slot[i]: plugin, size and flags of the i-th slot reserved
  c,                        \* the connection: the queues and counters below
  delivered,                \* slots of acknowledged packets
  others, losses            \* packets of the core and losses so far

vars == <<slot, c, delivered, others, losses>>

Plugins == 1..NbPlugins
Slots == DOMAIN slot
Bytes(S) == MapThenSumSet(LAMBDA i : slot[i].size, S)
BlockBytes(b) == Bytes(Range(b))

Init ==
  /\ slot = <<>> /\ delivered = {} /\ others = 0 /\ losses = 0
  /\ c = [blocks    |-> [p \in Plugins |-> [cc \in BOOLEAN |-> <<>>]],
          first_drr |-> 1,
          reserved  |-> <<>>,                       \* reserved_frames
          retry     |-> <<>>,                       \* retry_frames
          queue     |-> <<>>,                       \* retransmission queue, from the oldest
          flight    |-> [p \in Plugins |-> 0],      \* bytes_in_flight
          transit   |-> 0,                          \* bytes_in_transit
          notified  |-> <<>>]                       \* what the plugin was told of each slot

-----------------------------------------------------------------------------
(***************************************************************************)
(* A plugin reserves slots together: the block is congestion controlled as  *)
(* soon as one of them is.                                                  *)
(***************************************************************************)
reserve_frames(p, kinds) ==
  LET new == [i \in DOMAIN kinds |-> [plugin |-> p, size |-> kinds[i].size, cc |-> kinds[i].cc, again |-> kinds[i].again]]
      cc == \E i \in DOMAIN kinds : kinds[i].cc
  IN /\ Len(slot) + Len(kinds) <= MaxSlots
     /\ slot' = slot \o new
     /\ c' = [c EXCEPT !.notified = @ \o [i \in DOMAIN kinds |-> <<>>],
                       !.blocks[p][cc] = Append(@, [i \in DOMAIN kinds |-> Len(slot) + i])]
     /\ UNCHANGED <<delivered, others, losses>>

\* notify_frame for a set of slots
Notify(d, S, what) == [d EXCEPT !.notified = [i \in DOMAIN @ |-> IF i \in S THEN Append(@[i], what) ELSE @[i]]]

\* a plugin takes its oldest block back
cancel_head_reservation(p, cc) ==
  /\ c.blocks[p][cc] # <<>>
  /\ c' = [Notify(c, Range(Head(c.blocks[p][cc])), "cancelled") EXCEPT !.blocks[p][cc] = Tail(@)]
  /\ UNCHANGED <<slot, delivered, others, losses>>

-----------------------------------------------------------------------------
(***************************************************************************)
(* picoquic_frame_fair_reserve: from first_drr on, each plugin moves blocks *)
(* with congestion control while they fit, the window is open and, when a   *)
(* stream has data, plugins keep within their share of the window; then     *)
(* each moves blocks without congestion control while they fit.             *)
(***************************************************************************)
Turn(d) == [k \in Plugins |-> ((d.first_drr + k - 2) % NbPlugins) + 1]
Flight(d, P) == MapThenSumSet(LAMBDA p : d.flight[p], P)
MaxPluginCwin == (Cwin * (1000 - CoreRate)) \div 1000

MayMove(d, p, cc, b, stream, mss) ==
  /\ d.queued + BlockBytes(b) < mss
  /\ cc => d.transit < Cwin
  /\ cc => ~ (stream /\ p \notin Unlimited /\ Flight(d, Plugins) >= MaxPluginCwin)

RECURSIVE MoveBlocks(_, _, _, _, _)
MoveBlocks(d, p, cc, stream, mss) ==
  IF d.blocks[p][cc] # <<>> /\ MayMove(d, p, cc, Head(d.blocks[p][cc]), stream, mss)
    THEN LET b == Head(d.blocks[p][cc])
         IN MoveBlocks([d EXCEPT !.blocks[p][cc] = Tail(@), !.reserved = @ \o b, !.queued = @ + BlockBytes(b)],
                       p, cc, stream, mss)
    ELSE d

NextDrr(d) == (d.first_drr % NbPlugins) + 1

frame_fair_reserve(d, stream, mss) ==
  LET turn == Turn(d)
      Before(k) == {turn[j] : j \in 1..(k - 1)}
      Pass1(e, k) == IF turn[k] \in Unlimited \/ Flight(e, Before(k)) < MaxPluginCwin
                       THEN MoveBlocks(e, turn[k], TRUE, stream, mss) ELSE e
      Pass2(e, k) == MoveBlocks(e, turn[k], FALSE, stream, mss)
      order == [k \in Plugins |-> k]
  IN [FoldLeft(Pass2, FoldLeft(Pass1, [d EXCEPT !.queued = 0], order), order) EXCEPT !.first_drr = NextDrr(d)]

ReserveIfEmpty(d, stream, mss) == IF d.reserved = <<>> THEN frame_fair_reserve(d, stream, mss) ELSE d

-----------------------------------------------------------------------------
(***************************************************************************)
(* scheduler_write_new_frames, for a packet with so much room left.  The    *)
(* slots to retry come first, each once, then the reserved slots; the first *)
(* slot that does not fit ends its loop.  A slot whose frame is not written *)
(* is notified at once.  The result is the answer of the last slot tried.   *)
(***************************************************************************)
Written(d, i) ==
  [d EXCEPT !.frames = Append(@, i), !.room = @ - slot[i].size, !.failed = FALSE,
            !.flight[slot[i].plugin] = @ + slot[i].size]

TrySlot(answer, d, i) ==
  IF d.stopped \/ slot[i].size > d.room
    THEN [d EXCEPT !.stopped = TRUE, !.left = Append(@, i)]
    ELSE CASE answer[i] = "written" -> Written(d, i)
           [] answer[i] = "retry"   -> [d EXCEPT !.again = Append(@, i), !.failed = FALSE]
           [] answer[i] = "empty"   -> [Notify(d, {i}, "unsent") EXCEPT !.failed = FALSE]
           [] answer[i] = "error"   -> [Notify(d, {i}, "unsent") EXCEPT !.failed = TRUE]

WriteLoop(answer, d, slots) ==
  FoldLeft(LAMBDA e, i : TrySlot(answer, e, i), [d EXCEPT !.stopped = FALSE, !.left = <<>>, !.again = <<>>], slots)

RetryQueue_Forgets(retried, written) == retried.left \o retried.again
RetryQueue(retried, written) == retried.left \o retried.again \o written.again

scheduler_write_new_frames(answer, d) ==
  LET Requeued(retried, written) == [written EXCEPT !.retry = RetryQueue(retried, written), !.reserved = written.left]
      Reserved(retried) == Requeued(retried, WriteLoop(answer, retried, d.reserved))
  IN Reserved(WriteLoop(answer, [d EXCEPT !.failed = FALSE], d.retry))

-----------------------------------------------------------------------------
(***************************************************************************)
(* dequeue_retransmit_packet: the k-th packet leaves the retransmission     *)
(* queue, its bytes are no longer counted and its slots are notified.       *)
(***************************************************************************)
remove_registered_plugin_frames(d, pk, received) ==
  [Notify(d, Range(pk.frames), IF received THEN "received" ELSE "lost") EXCEPT
     !.flight = [p \in Plugins |-> @[p] - Bytes({i \in Range(pk.frames) : slot[i].plugin = p})]]

Deducted(d, pk) == IF pk.cc /\ d.transit > pk.length THEN d.transit - pk.length
                   ELSE IF pk.cc THEN 0 ELSE d.transit

dequeue_retransmit_packet(d, k, should_free) ==
  LET pk == d.queue[k]
  IN [remove_registered_plugin_frames(d, pk, should_free) EXCEPT !.queue = RemoveAt(@, k), !.transit = Deducted(d, pk)]

\* queue_for_retransmit
Queued(d, pk) == [d EXCEPT !.queue = Append(@, pk), !.transit = IF pk.cc THEN @ + pk.length ELSE @]

(***************************************************************************)
(* While a packet is made, these fields join those of c.  The core's data   *)
(* is absent ("none"), one byte ("some"), or a last stream frame without a  *)
(* length, which fills the packet ("last").                                 *)
(***************************************************************************)
Begin == [queued |-> 0, room |-> Mss - Header, frames |-> <<>>, length |-> Header, failed |-> FALSE,
          stopped |-> FALSE, left |-> <<>>, again |-> <<>>] @@ c
End(d) == [f \in DOMAIN c |-> d[f]]

WriteInPacket(answer, d) ==
  LET Counted(w) == [w EXCEPT !.length = IF w.failed THEN @ ELSE @ + d.room - w.room]
  IN Counted(scheduler_write_new_frames(answer, d))

\* enqueue and write frames until no more bytes can be queued or written
RECURSIVE Fill(_, _, _)
Fill(answer, d, stream) ==
  LET Again(w, r) == IF w.failed \/ r.queued = 0 \/ d.room - w.room >= w.room THEN r ELSE Fill(answer, r, stream)
      Reserve(w) == Again(w, IF ~ w.failed /\ w.reserved = <<>> THEN frame_fair_reserve(w, stream, w.room)
                             ELSE [w EXCEPT !.queued = d.queued])
  IN Reserve(WriteInPacket(answer, d))

\* the new packet for a lost one: the core's data, and plugin frames around it
CopyOf(answer, d, pk, stream) ==
  CASE pk.data = "last" ->
         LET Full(e) == IF e.room = 0 THEN e
                        ELSE [WriteInPacket(answer, ReserveIfEmpty(e, stream, Mss - Header)) EXCEPT !.length = Mss]
         IN Full([d EXCEPT !.room = Bytes(Range(pk.frames)), !.length = Mss])
    [] pk.data = "some" -> Fill(answer, [d EXCEPT !.room = Mss - Header - 1, !.length = Header + 1], stream)
    [] pk.data = "none" -> Fill(answer, [d EXCEPT !.room = Mss - Header, !.length = Header], stream)

(***************************************************************************)
(* retransmit_needed, when the oldest packet is lost or not.  The loop asks *)
(* for next_packet, but queue_for_retransmit links each packet to the one   *)
(* before it: the oldest is the only packet it visits.  A packet with       *)
(* nothing to repeat is freed and makes none.                               *)
(***************************************************************************)
MakesPacket(d) == d.length > Header
NoPacket(d) == [packet |-> <<>>, d |-> [d EXCEPT !.room = Mss - Header, !.length = Header]]

retransmit_needed(answer, d, lost, stream) ==
  LET Made(f) == IF MakesPacket(f)
                   THEN [packet |-> <<[frames |-> f.frames, data |-> d.queue[1].data, pure |-> FALSE, cc |-> TRUE,
                                       length |-> f.length]>>,
                         d |-> f]
                   ELSE NoPacket(f)
  IN IF lost = 0 THEN NoPacket(d)
     ELSE IF d.queue[1].pure THEN NoPacket(dequeue_retransmit_packet(d, 1, TRUE))
     ELSE Made(dequeue_retransmit_packet(CopyOf(answer, d, d.queue[1], stream), 1, FALSE))

\* nothing to send; the last conjuncts look at the plugins' slots
NoRoomFor(size) == size >= Mss - Header
NothingToSend(d, stream, ack) ==
  /\ ~ stream \/ Cwin <= d.transit
  /\ ~ ack
  /\ d.reserved = <<>> \/ NoRoomFor(slot[Head(d.reserved)].size)
  /\ d.retry = <<>>

\* schedule_frames_on_path when nothing is repeated: <<>> or the packet made
NewPacket(answer, d, stream, ack, data) ==
  IF NothingToSend(d, stream, ack) THEN [packet |-> <<>>, d |-> d]
  ELSE LET Packet(w, own, length, frames) ==
             IF w.failed \/ (length = Header /\ ~ ack) THEN [packet |-> <<>>, d |-> w]
             ELSE [packet |-> <<[frames |-> w.frames, data |-> own, length |-> length,
                                 pure |-> own = "none" /\ \A f \in frames : ~ f.again,
                                 cc   |-> own # "none" \/ \E f \in frames : f.cc]>>,
                   d |-> w]
           Data(w, own) == Packet(w, own, IF own = "last" THEN Mss ELSE IF own = "some" THEN w.length + 1 ELSE w.length,
                                  {slot[i] : i \in Range(w.frames)})
           Frames(w) == Data(w, IF stream /\ w.transit < Cwin /\ w.room > 0 THEN data ELSE "none")
       IN Frames(WriteInPacket(answer, d))

\* the loop before it drops a lost pure acknowledgement, and ends after the oldest as well
DropAcks(d, lost) ==
  IF lost > 0 /\ d.queue[1].pure THEN [d |-> dequeue_retransmit_packet(d, 1, TRUE), lost |-> lost - 1]
  ELSE [d |-> d, lost |-> lost]

(***************************************************************************)
(* prepare_packet_ready, when the timers say that the first packets of the  *)
(* queue are lost: a pure acknowledgement goes, blocks are reserved, and    *)
(* the packet is a repetition or a new one.                                 *)
(***************************************************************************)
prepare_packet_ready(answer, lost, stream, ack, data) ==
  LET Transmitted(n) == End(IF n.packet = <<>> THEN n.d ELSE Queued(n.d, n.packet[1]))
      Repeated(r) == Transmitted(IF r.packet = <<>> THEN NewPacket(answer, r.d, stream, ack, data) ELSE r)
      Dropped(a) == Repeated(retransmit_needed(answer, ReserveIfEmpty(a.d, stream, Mss), a.lost, stream))
  IN /\ losses + lost <= MaxLosses /\ losses' = losses + lost
     /\ (stream \/ ack) => others < MaxOthers
     /\ others' = IF stream \/ ack THEN others + 1 ELSE others
     /\ c' = Dropped(DropAcks(Begin, lost))
     /\ UNCHANGED <<slot, delivered>>

\* process_ack_range
packet_acknowledged(k) ==
  /\ c' = End(dequeue_retransmit_packet(c, k, TRUE))
  /\ delivered' = delivered \cup Range(c.queue[k].frames)
  /\ UNCHANGED <<slot, others, losses>>

Waiting == UNION {Range(b) : b \in UNION {Range(c.blocks[p][cc]) : p \in Plugins, cc \in BOOLEAN}}
Pending == Waiting \cup Range(c.reserved) \cup Range(c.retry)

Next ==
  \/ \E p \in Plugins, n \in BlockSizes : \E kinds \in [1..n -> Kinds] : reserve_frames(p, kinds)
  \/ \E p \in Plugins, cc \in BOOLEAN : cancel_head_reservation(p, cc)
  \/ \E answer \in [Pending -> Answers], lost \in 0..Min({2, Len(c.queue)}), stream, ack \in BOOLEAN, data \in {"some", "last"} :
        prepare_packet_ready(answer, lost, stream, ack, data)
  \/ \E k \in DOMAIN c.queue : packet_acknowledged(k)

Spec == Init /\ [][Next]_vars

-----------------------------------------------------------------------------
Sent == UNION {Range(pk.frames) : pk \in Range(c.queue)}

\* Every slot a plugin reserves is in exactly one place: a block, reserved_frames,
\* retry_frames or a packet in the retransmission queue, or its plugin got it back
\* (notify_frame or cancel_head_reservation) exactly once.
SlotsAreConserved ==
  \A i \in Slots :
    Cardinality({w \in {"block"} : i \in Waiting}) + Cardinality({k \in DOMAIN c.reserved : c.reserved[k] = i})
      + Cardinality({k \in DOMAIN c.retry : c.retry[k] = i})
      + Cardinality({k \in DOMAIN c.queue : i \in Range(c.queue[k].frames)}) + Len(c.notified[i]) = 1

\* bytes_in_flight of a plugin is what its frames take in the packets of the
\* retransmission queue, and bytes_in_transit what the congestion controlled packets take.
CountersAreExact ==
  /\ \A p \in Plugins : c.flight[p] = Bytes({i \in Sent : slot[i].plugin = p})
  /\ c.transit = FoldLeft(LAMBDA n, pk : IF pk.cc THEN n + pk.length ELSE n, 0, c.queue)

\* Plugin frames under congestion control do not push the path beyond its window by more
\* than the packets made from one reservation.
WindowIsKept == c.transit <= Cwin - 1 + 2 * Mss

\* A plugin is told that a frame was received only when a packet with it was acknowledged.
NotifiedIsTrue == \A i \in Slots : "received" \in Range(c.notified[i]) => i \in delivered

\* A packet is given up for a reserved frame only when the frame would not fit in it.
SkippedDoesNotFit ==
  c.reserved # <<>> /\ NothingToSend(c, FALSE, FALSE) => slot[Head(c.reserved)].size > Mss - Header

\* When every packet is settled, a call finds a packet to make for the slots that wait,
\* provided the plugins write them: none is stuck behind another, in whatever queue it is.
IdleConnectionServes ==
  c.queue = <<>> /\ Pending # {}
    => NewPacket([i \in Pending |-> "written"], ReserveIfEmpty(Begin, FALSE, Mss), FALSE, FALSE, "some").packet # <<>>
====
