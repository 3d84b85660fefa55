---------------------------- MODULE SlotReservation ----------------------------
(***************************************************************************)
(* How the sender fills its slots.  Whenever a slot may be free (before and  *)
(* after a packet is made, after an ACK frame, after a loss) the plugin asks *)
(* the causal controller what to send and reserves one frame: an FPI frame,  *)
(* which makes the packet a source symbol, or a repair frame.  The core      *)
(* keeps reservations in two queues per plugin, moves them to               *)
(* reserved_frames, and writes them; a frame that refuses the packet goes to *)
(* retry_frames.  The plugin counts the reservations that are pending and,    *)
(* once a packet is made, gives it a slot number and tells the controller.    *)
(*                                                                         *)
(* The sending window is the one SendWindow checks, seen from outside: the   *)
(* ids from the oldest one neither announced nor given up by the peer.        *)
(* Inputs: whether an ACK is due, whether the congestion window has room,     *)
(* whether there is data to protect, whether the packet is a retransmission  *)
(* of the core, and what feedback arrives.                                  *)
(***************************************************************************)
EXTENDS Integers, FiniteSets, Sequences, FiniteSetsExt, SequencesExt

(***************************************************************************)
(* The causal redundancy controller of the sender                           *)
(* (causal_redundancy_controller_protoops/causal_redundancy_controller.h),  *)
(* as operators on a record c.  It remembers what was sent in which slot,   *)
(* learns the fate of each slot, counts the degrees of freedom added (repair *)
(* symbols in flight) and missing (lost source symbols), and says what the   *)
(* next slot is used for.                                                   *)
(*                                                                         *)
(* One packet carries one symbol, as the controller assumes.  Slots count   *)
(* from 1; the code counts from 0, and its first slot is always a source     *)
(* symbol, which no buffer of repair slots holds.  Left out: the             *)
(* rates, times and thresholds that the variants of causal_ew and            *)
(* causal_threshold compute from, so that their answers are arbitrary but for *)
(* the case that run_algo singles out (Decisions); n_fec_in_flight, which    *)
(* only feeds them; the queue what_to_send, which with m = 1 is filled with  *)
(* one element and emptied by the same call; flush_dof_mode, which is set    *)
(* only by a window of more than MAX_SLOTS - 2 symbols, more than it holds.  *)
(***************************************************************************)
CONSTANT MAX_SLOTS      \* size of every buffer (8005 in the code)

\* What was sent in a slot: one source symbol, or a repair symbol for n symbols.
Metadata(repair, fb, first, n) == [repair |-> repair, fb |-> fb, first |-> first, n |-> n]

create_causal_redundancy_controller ==
    [history |-> <<>>,          \* slots_history: the last MAX_SLOTS slots sent
     acked_slots |-> {}, nacked_slots |-> {},
     fec_slots |-> {}, fb_fec_slots |-> {},
     ad_slots |-> {},           \* repair symbols in flight for the window
     md_ids |-> {},             \* lost symbols of the window
     seen_ids |-> {},           \* lost symbols that a received repair symbol makes up for
     lost |-> <<>>,             \* lost_and_non_fec_retransmitted_slots
     last_first |-> 0,          \* window_first_id_during_last_run
     last_feedback |-> "ack"]

-----------------------------------------------------------------------------
\* Windows of ids [start, end[.
is_window_empty(w) == w.start >= w.end

window_contains(w, id) == w.start <= id /\ id < w.end

window_intersects(v, w) ==
    ~is_window_empty(v) /\ ~is_window_empty(w) /\ v.start < w.end /\ w.start < v.end

Protected(md) == [start |-> md.first, end |-> md.first + md.n]

-----------------------------------------------------------------------------
\* A full buffer loses its smallest element, a full queue its oldest one.
add_elem_to_buffer(b, e) == (IF Cardinality(b) = MAX_SLOTS THEN b \ {Min(b)} ELSE b) \cup {e}

add_elem_to_buffer_old(q, e) == Append(IF Len(q) = MAX_SLOTS THEN Tail(q) ELSE q, e)

add_elem_to_history(h, slot, md) ==
    [s \in (DOMAIN h \ {slot - MAX_SLOTS}) \cup {slot} |-> IF s = slot THEN md ELSE h[s]]

is_slot_in_flight(c, slot) == slot \notin c.acked_slots \cup c.nacked_slots

is_in_flight_and_fec(c, slot) ==
    slot \in c.fec_slots \cup c.fb_fec_slots /\ is_slot_in_flight(c, slot)

-----------------------------------------------------------------------------
sent_packet(c, slot, md, w) ==
    [c EXCEPT
        !.history = add_elem_to_history(@, slot, md),
        !.ad_slots = IF md.repair /\ window_intersects(Protected(md), w)
                     THEN add_elem_to_buffer(@, slot) ELSE @,
        !.fec_slots = IF md.repair /\ ~md.fb THEN add_elem_to_buffer(@, slot) ELSE @,
        !.fb_fec_slots = IF md.repair /\ md.fb THEN add_elem_to_buffer(@, slot) ELSE @]

\* A slot that is no longer in the history is an error and changes nothing.
slot_acked(c, slot) ==
    LET md == c.history[slot]
        arrived_late == slot \in c.nacked_slots /\ ~md.repair
        covered == {id \in c.md_ids : window_contains(Protected(md), id)}
        makes_up == md.repair /\ is_in_flight_and_fec(c, slot) /\ covered # {}
    IN  IF slot \notin DOMAIN c.history THEN c
        ELSE [c EXCEPT
                !.md_ids = @ \ (IF arrived_late THEN {md.first}
                                ELSE IF makes_up THEN {Min(covered)} ELSE {}),
                !.seen_ids = IF arrived_late THEN @ \ {md.first}
                             ELSE IF makes_up THEN add_elem_to_buffer(@, Min(covered)) ELSE @,
                !.ad_slots = IF md.repair THEN @ \ {slot} ELSE @,
                !.last_feedback = "ack",
                !.acked_slots = add_elem_to_buffer(@, slot)]

\* The lost slots that what_to_send answers with a repair symbol.
NeedsAnswer(md) == ~md.repair \/ md.fb

slot_nacked(c, slot, w) ==
    LET md == c.history[slot]
    IN  IF slot \notin DOMAIN c.history THEN c
        ELSE [c EXCEPT
                !.lost = IF NeedsAnswer(md) THEN add_elem_to_buffer_old(@, slot) ELSE @,
                !.md_ids = IF /\ ~md.repair /\ is_slot_in_flight(c, slot)
                              /\ window_contains(w, md.first)
                           THEN add_elem_to_buffer(@, md.first) ELSE @,
                !.ad_slots = IF md.repair THEN @ \ {slot} ELSE @,
                !.nacked_slots = add_elem_to_buffer(@, slot),
                !.last_feedback = "nack"]

retransmission_needed(c) == c.lost # <<>>

-----------------------------------------------------------------------------
prune_md_buffer_Excluded(c, w) == c.md_ids \ (c.last_first .. w.start - 2)
prune_md_buffer(c, w) == c.md_ids \ (c.last_first .. w.start - 1)

prune_ad_buffer(c, w) ==
    {s \in c.ad_slots : window_intersects(Protected(c.history[s]), w)}

\* The first half of run_algo: when the window has moved, forget what is below it.
Prune(c, w) ==
    LET moved == c.last_first # w.start /\ w.start > 0
    IN  [c EXCEPT !.md_ids = IF moved THEN prune_md_buffer(c, w) ELSE @,
                  !.ad_slots = IF moved THEN prune_ad_buffer(c, w) ELSE @,
                  !.last_first = w.start]

\* The second half: what the slot is for.  Missing degrees and none added make
\* the ratio infinite: always below the threshold, which after a loss leaves
\* only a feedback-implied repair symbol.
Decisions(c) ==
    IF c.md_ids # {} /\ c.ad_slots = {}
    THEN IF c.last_feedback = "nack" THEN {"fb"} ELSE {"repair", "fb"}
    ELSE {"new", "repair", "fb"}

\* A lost slot has precedence over the decision; lost slots that the window has
\* left behind are skipped.
what_to_send(c, w, decision) ==
    LET current(s) == s \in DOMAIN c.history /\ c.history[s].first >= w.start
        i == SelectInSeq(c.lost, current)
        md == c.history[c.lost[i]]
        symbols == IF md.repair THEN md.n ELSE 1
        size == w.end - w.start
        answer(wts, first, n) == [wts |-> wts, first |-> first, n |-> n]
    IN  IF decision # "fb" /\ c.lost = <<>>
        THEN [c |-> c, do |-> answer(decision, 0, 0)]
        ELSE IF i = 0
        THEN [c |-> [c EXCEPT !.lost = <<>>], do |-> answer("repair", 0, 0)]
        ELSE [c |-> [c EXCEPT !.lost = SubSeq(@, i + 1, Len(@))],
              do |-> answer("fb", md.first, Min({symbols, size}))]

\* All outcomes of one call.  With an empty window the algorithm does not run.
causal_what_to_send(c, w) ==
    IF is_window_empty(w) THEN {what_to_send(c, w, "new")}
    ELSE LET p == Prune(c, w) IN {what_to_send(p, w, d) : d \in Decisions(p)}

--------------------------------------------------------------------------------
(***************************************************************************)
(* The slots.                                                              *)
(***************************************************************************)
CONSTANTS
  N,                \* MAX_SENDING_WINDOW_SIZE
  RepairLimit,      \* max_repair_frames_threshold
  FpiSize, RepairSize, Room,    \* bytes of a frame, and of a packet
  MaxSlot           \* bound on the slots used

\* The constants are chosen so that a repair frame takes more than half of a packet
\* (RepairSize < Room < 2 * RepairSize) and the controller's buffers are larger than
\* the window (MAX_SLOTS is N + 5 in the code).

VARIABLES
  plugin,           \* n_reserved, since_feedback, has_data; the queues cc and non_cc; controller c
  reserved_frames,  \* queues of the core
  retry_frames,
  max_id,           \* id of the last source symbol
  landed,           \* ids announced as received
  lowest,           \* lowest_considered_id_by_peer
  sent,             \* history: slot -> what was recorded of the packet, and its number of FEC frames
  fate              \* history: slot -> flight, lost or received

vars == <<plugin, reserved_frames, retry_frames, max_id, landed, lowest, sent, fate>>
window_vars == <<max_id, landed, lowest>>

FpiFrame == Metadata(FALSE, FALSE, 0, 1)
Size(f) == IF f.repair THEN RepairSize ELSE FpiSize
Bytes(q) == FoldLeft(LAMBDA n, f : n + Size(f), 0, q)

\* get_current_fec_window
Window(last, got, low) ==
  LET pending == {i \in 1..last : i >= low /\ i \notin got}
  IN  IF pending = {} THEN [start |-> 0, end |-> 0]
      ELSE [start |-> Min(pending), end |-> last + 1]
CurrentWindow == Window(max_id, landed, lowest)

Init ==
  /\ plugin = [n_reserved |-> 0, since_feedback |-> 0, has_data |-> FALSE,
               cc |-> <<>>, non_cc |-> <<>>, c |-> create_causal_redundancy_controller]
  /\ reserved_frames = <<>> /\ retry_frames = <<>>
  /\ max_id = 0 /\ landed = {} /\ lowest = 0
  /\ sent = <<>> /\ fate = <<>>

-----------------------------------------------------------------------------
(***************************************************************************)
(* Reserving, as operators on the record p of the plugin.                   *)
(***************************************************************************)
\* Feedback-implied repair frames are not congestion-controlled.
reserve_frames(p, f) ==
  [p EXCEPT !.cc = IF f.fb THEN @ ELSE Append(@, f),
            !.non_cc = IF f.fb THEN Append(@, f) ELSE @,
            !.n_reserved = @ + 1]

reserve_fpi_frame(p) == IF p.has_data THEN reserve_frames(p, FpiFrame) ELSE p

\* The symbols the repair symbol is made of: some of the window, or all of it.
generate_and_queue_repair_symbols(w, do) ==
  IF do.wts = "fb" /\ do.first >= w.start
  THEN Metadata(TRUE, TRUE, do.first, Min({do.n, w.end - do.first}))
  ELSE Metadata(TRUE, do.wts = "fb", w.start, w.end - w.start)

could_reserve(p, w, do) ==
  (do.wts = "fb" \/ p.since_feedback <= RepairLimit) /\ ~is_window_empty(w)

reserve_repair_frames(p, w, do) ==
  [reserve_frames(p, generate_and_queue_repair_symbols(w, do)) EXCEPT
     !.since_feedback = IF do.wts = "fb" THEN @ ELSE @ + 1]

(***************************************************************************)
(* available_slot.  Frames already reserved leave room only for a           *)
(* feedback-implied repair frame.  A symbol of at most 1313 bytes is queued *)
(* for a slot of 1320 (DEFAULT_SLOT_SIZE) and its frame is reserved by the  *)
(* same call: the queue is empty on entry, and nothing is too large.        *)
(***************************************************************************)
available_slot(p, w, data, answer) ==
  LET q == [p EXCEPT !.c = answer.c, !.has_data = data]
      do == answer.do
  IN  IF p.n_reserved > 0 /\ do.wts # "fb" THEN q
      ELSE IF do.wts # "new" /\ could_reserve(q, w, do) THEN reserve_repair_frames(q, w, do)
      ELSE reserve_fpi_frame(q)

\* All outcomes of a check: the controller has a choice.
check_for_available_slot(p, w, reason, free, data) ==
  IF (p.n_reserved = 0 /\ (reason = "nack" \/ free)) \/ retransmission_needed(p.c)
  THEN {available_slot(p, w, data, answer) : answer \in causal_what_to_send(p.c, w)}
  ELSE {p}

-----------------------------------------------------------------------------
(***************************************************************************)
(* Making a packet.                                                         *)
(***************************************************************************)
\* Length of the longest prefix of q that fits strictly in n bytes.
Fitting(q, n) == Max({k \in 0..Len(q) : k = 0 \/ Bytes(SubSeq(q, 1, k)) < n})

\* Congestion-controlled frames first, while the congestion window has room.
picoquic_frame_fair_reserve(p, free) ==
  LET i == IF free THEN Fitting(p.cc, Room) ELSE 0
      cc == SubSeq(p.cc, 1, i)
      j == Fitting(p.non_cc, Room - Bytes(cc))
  IN  [frames |-> cc \o SubSeq(p.non_cc, 1, j),
       p |-> [p EXCEPT !.cc = SubSeq(@, i + 1, Len(@)), !.non_cc = SubSeq(@, j + 1, Len(@))]]

\* write_frame of the two types: "retry" leaves the frame for the next packet.
window_write_src_fpi_frame(k) ==
  IF k.written # <<>> \/ k.window_length >= N THEN "retry"
  ELSE IF ~k.free \/ ~k.has_data THEN "cancel" ELSE "write"

window_write_compressed_repair_frame(k) ==
  IF k.ack_needed \/ FpiFrame \in ToSet(k.written) THEN "retry"
  ELSE IF k.window_length = 0 THEN "cancel" ELSE "write"

\* The post hooks of write_frame: how many reservations are over.
post_write_frame_WhenWritten(result) == IF result = "write" THEN 1 ELSE 0
post_write_frame(result) == IF result = "retry" THEN 0 ELSE 1

\* One turn of a loop of scheduler_write_new_frames: k is the packet being made,
\* k.left what stays in the queue once a frame does not fit.
WriteFrame(k, f) ==
  LET result == IF f.repair THEN window_write_compressed_repair_frame(k)
                ELSE window_write_src_fpi_frame(k)
  IN  IF k.left # <<>> \/ Size(f) > k.room THEN [k EXCEPT !.left = Append(@, f)]
      ELSE [k EXCEPT !.n_reserved = @ - post_write_frame(result),
                     !.retried = IF result = "retry" THEN Append(@, f) ELSE @,
                     !.written = IF result = "write" THEN Append(@, f) ELSE @,
                     !.room = IF result = "write" THEN @ - Size(f) ELSE @]

\* The frames to retry, then the reserved ones.
scheduler_write_new_frames(k, retries, frames) ==
  LET Both(first, second) ==
        [written |-> second.written, n_reserved |-> second.n_reserved, reserved |-> second.left,
         retry |-> first.left \o first.retried \o second.retried]
      Then(first) == Both(first, FoldLeft(WriteFrame, [first EXCEPT !.left = <<>>, !.retried = <<>>], frames))
  IN  Then(FoldLeft(WriteFrame, k, retries))

\* What the plugin records of the packet: the id of its source symbol, or the
\* metadata of the last repair frame written.
PacketMetadata(written) ==
  IF FpiFrame \in ToSet(written) THEN Metadata(FALSE, FALSE, max_id + 1, 1) ELSE Last(written)

\* sent_packet takes the time for its flag fec_protected: every FEC packet
\* resets the count of repair frames.
fec_sent_packet(p, slot, md, w) ==
  [p EXCEPT !.since_feedback = 0, !.c = sent_packet(@, slot, md, w)]

\* Feedback on a slot comes before the slot leaves the history.
OldSlotsAreDecided == \A s \in DOMAIN fate : s <= Len(sent) + 1 - MAX_SLOTS => fate[s] # "flight"

\* The hook before the packet.
before_schedule_frames(free, data) ==
  IF plugin.n_reserved = 0
  THEN check_for_available_slot(plugin, CurrentWindow, "none", free, data)
  ELSE {plugin}

(***************************************************************************)
(* prepare_packet_ready: the check of the hook before schedule_frames_on_path *)
(* when nothing is reserved, the frames, the hook after it, and the check    *)
(* that follows every finalize_and_protect_packet, even of an empty packet.  *)
(* A packet that retransmits core frames takes no reserved frame.           *)
(***************************************************************************)
Taken(p, free) ==
  IF reserved_frames = <<>> THEN picoquic_frame_fair_reserve(p, free) ELSE [frames |-> reserved_frames, p |-> p]

\* The packet with its frames: q is the plugin after them, after the window
PacketSent(q, done, last, free, data) ==
  /\ reserved_frames' = done.reserved
  /\ retry_frames' = done.retry
  /\ max_id' = last
  /\ IF done.written = <<>>
     THEN /\ plugin' \in check_for_available_slot(q, CurrentWindow, "none", free, data)
          /\ UNCHANGED <<sent, fate>>
     ELSE \E md \in {PacketMetadata(done.written)}, after \in {Window(last, landed, lowest)} :
          /\ plugin' \in check_for_available_slot(fec_sent_packet(q, Len(sent) + 1, md, after),
                                                  after, "none", free, data)
          /\ sent' = Append(sent, [md |-> md, frames |-> Len(done.written)])
          /\ fate' = Append(fate, "flight")

PreparePacket(free, ack_needed, retransmits, data, free_after, data_after) ==
  /\ Len(sent) < MaxSlot /\ OldSlotsAreDecided
  /\ \E p \in before_schedule_frames(free, data) : \E taken \in {Taken(p, free)} :
       \E done \in {scheduler_write_new_frames(
                     [written |-> <<>>, left |-> <<>>, retried |-> <<>>,
                      n_reserved |-> p.n_reserved, has_data |-> p.has_data,
                      room |-> IF retransmits THEN 0 ELSE Room, free |-> free,
                      ack_needed |-> ack_needed, window_length |-> CurrentWindow.end - CurrentWindow.start],
                     retry_frames, taken.frames)} :
         PacketSent([taken.p EXCEPT !.n_reserved = done.n_reserved], done,
                    IF FpiFrame \in ToSet(done.written) THEN max_id + 1 ELSE max_id, free_after, data_after)
  /\ UNCHANGED <<landed, lowest>>

-----------------------------------------------------------------------------
(***************************************************************************)
(* Feedback.  The ring of the window tells ids apart that are less than N    *)
(* apart; feedback on a slot arrives while the history has it.               *)
(***************************************************************************)
IdsOf(S) == {sent[s].md.first : s \in {t \in S : ~sent[t].md.repair}}

Announceable == {s \in DOMAIN plugin.c.history :
                   fate[s] # "received" /\ \A id \in IdsOf({s}) : max_id - id < N}

\* An ACK frame announces the packets of S, newest first, those declared lost
\* included, and checks for a slot once.
Descending(S) ==
  [i \in 1..Cardinality(S) |-> CHOOSE s \in S : Cardinality({t \in S : t > s}) = i - 1]

ProcessAckFrame(S, free, data) ==
  /\ S \subseteq Announceable
  /\ landed' = landed \cup IdsOf(S)
  /\ plugin' \in check_for_available_slot(
                   [plugin EXCEPT !.c = FoldLeft(slot_acked, @, Descending(S))],
                   Window(max_id, landed', lowest), "ack", free, data)
  /\ fate' = [s \in DOMAIN fate |-> IF s \in S THEN "received" ELSE fate[s]]
  /\ UNCHANGED <<reserved_frames, retry_frames, max_id, lowest, sent>>

\* The peer reports that it recovered the symbol of a packet: no check follows.
ProcessRecovered(s) ==
  /\ s \in Announceable /\ ~sent[s].md.repair
  /\ landed' = landed \cup IdsOf({s})
  /\ plugin' = [plugin EXCEPT !.c = slot_acked(@, s)]
  /\ fate' = [fate EXCEPT ![s] = "received"]
  /\ UNCHANGED <<reserved_frames, retry_frames, max_id, lowest, sent>>

\* The loss detection gives a packet up.
PacketHasBeenLost(s, free, data) ==
  /\ s \in DOMAIN plugin.c.history /\ fate[s] = "flight"
  /\ plugin' \in check_for_available_slot(
                   [plugin EXCEPT !.c = slot_nacked(@, s, CurrentWindow)],
                   CurrentWindow, "nack", free, data)
  /\ fate' = [fate EXCEPT ![s] = "lost"]
  /\ UNCHANGED <<reserved_frames, retry_frames, window_vars, sent>>

\* An RWIN frame: the peer needs nothing below id.
ProcessRwinFrame(id) ==
  /\ id > lowest
  /\ lowest' = id
  /\ UNCHANGED <<plugin, reserved_frames, retry_frames, max_id, landed, sent, fate>>

Next ==
  \/ \E free, ack_needed, retransmits, data, free_after, data_after \in BOOLEAN :
       PreparePacket(free, ack_needed, retransmits, data, free_after, data_after)
  \/ \E S \in SUBSET Announceable, free, data \in BOOLEAN : ProcessAckFrame(S, free, data)
  \/ \E s \in DOMAIN sent : ProcessRecovered(s)
  \/ \E s \in DOMAIN sent, free, data \in BOOLEAN : PacketHasBeenLost(s, free, data)
  \/ \E id \in 1..(max_id + 1) : ProcessRwinFrame(id)

Spec == Init /\ [][Next]_vars

-----------------------------------------------------------------------------
Queued == plugin.cc \o plugin.non_cc \o reserved_frames \o retry_frames

Ids == {i \in 1..max_id : window_contains(CurrentWindow, i)}
LostIds == {i \in Ids : \E s \in DOMAIN sent : fate[s] = "lost" /\ i \in IdsOf({s})}
Covers(md, i) == window_contains(Protected(md), i)

\* The counter n_reserved_id_or_repair_frames, by which the plugin decides
\* whether it may reserve, is the number of its frames in the four queues of the
\* core: were it too high the plugin would never reserve again.
ReservedIsExact == plugin.n_reserved = Len(Queued)

\* Retransmissions are disabled, so a lost symbol that the peer still needs must
\* be answered: its slot, or the slot of a lost repair symbol made for it, waits
\* in lost_and_non_fec_retransmitted_slots, or a feedback-implied repair symbol
\* that covers it is reserved, in flight or received.
LossIsAnswered ==
  \A i \in LostIds :
    \/ \E s \in ToSet(plugin.c.lost) : Covers(sent[s].md, i)
    \/ \E f \in ToSet(Queued) : f.fb /\ Covers(f, i)
    \/ \E s \in DOMAIN sent : sent[s].md.fb /\ fate[s] # "lost" /\ Covers(sent[s].md, i)

\* The set that compute_ad counts, pruned when the window moves, is what its
\* slow version recomputes: the repair slots in flight that protect a symbol of
\* the window ("WRONG AD SIZE !" otherwise).
AddedDegreesAreExact ==
  Ids # {} =>
    Prune(plugin.c, CurrentWindow).ad_slots =
      {s \in DOMAIN sent : /\ sent[s].md.repair /\ fate[s] = "flight"
                           /\ window_intersects(Protected(sent[s].md), CurrentWindow)}

\* The set that compute_md counts, and the lost ids a received repair symbol
\* makes up for, are together the lost ids of the window ("WRONG MD SIZE !"
\* otherwise), no id being in both.
MissingDegreesAreExact ==
  Ids # {} =>
    LET p == Prune(plugin.c, CurrentWindow)
    IN  /\ p.md_ids \cup (p.seen_ids \cap Ids) = LostIds
        /\ p.md_ids \cap p.seen_ids = {}

\* The controller assumes "1 packet == 1 source/repair symbol": a packet never
\* carries two frames, of which only one would be recorded.
OneSymbolPerPacket == \A s \in DOMAIN sent : sent[s].frames = 1
================================================================================
