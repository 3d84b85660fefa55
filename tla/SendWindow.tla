----------------------------- MODULE SendWindow -----------------------------
(***************************************************************************)
(* The sending window of the window framework (framework_sender.h): the     *)
(* source symbols that repair symbols protect.  It is a ring of N slots,    *)
(* symbol id in slot id % N.  A symbol enters when its packet is protected, *)
(* is flagged when its packet is announced as received (acknowledged, or    *)
(* recovered by the peer's FEC), and leaves when it is the oldest one and   *)
(* flagged, or when the peer's RWIN frame says it is no longer needed.      *)
(* Retransmissions of protected data are disabled: a symbol that leaves the *)
(* window too early is lost for good.                                      *)
(*                                                                         *)
(* A packet carries one symbol: packets have at most                        *)
(* PICOQUIC_PRACTICAL_MAX_MTU = 1300 bytes, headers included, and a symbol  *)
(* holds 1300.  Ids are naturals (30 bits on the wire).  The field min_id   *)
(* is written and never read, and is left out.                             *)
(***************************************************************************)
EXTENDS Integers, FiniteSetsExt

CONSTANTS
  N,                        \* MAX_SENDING_WINDOW_SIZE
  Deadlines,                \* deadlines of protected messages
  UNDEFINED_SYMBOL_DEADLINE,
  MaxId,                    \* bound on the symbols sent
  MaxLag,                   \* a packet is announced less than MaxLag symbols after it was sent
  RwinSizes                 \* window sizes the peer advertises

ASSUME SizeAssumption == N \in Nat \ {0} /\ MaxId \in Nat /\ MaxLag \in Nat
ASSUME DeadlineAssumption == UNDEFINED_SYMBOL_DEADLINE \notin Deadlines
ASSUME RwinAssumption == RwinSizes \subseteq Nat \ {0}

VARIABLES
  fec_window,               \* the slots; id 0: no symbol; deadline: history of the slot's symbol
  max_id,                   \* id of the last symbol protected
  smallest_in_transit,
  highest_in_transit,
  window_length,
  lowest_considered_id_by_peer,
  largest_authorized_id_by_peer,
  symbols_from_deadlines,   \* deadline -> id, 0 when absent
  deadlines_from_symbols,   \* id -> deadline, undefined when absent
  landed                    \* history: the ids announced as received

vars == <<fec_window, max_id, smallest_in_transit, highest_in_transit, window_length,
          lowest_considered_id_by_peer, largest_authorized_id_by_peer,
          symbols_from_deadlines, deadlines_from_symbols, landed>>

Ids == 1..MaxId
NoDeadline == UNDEFINED_SYMBOL_DEADLINE
Free == [id |-> 0, received |-> FALSE, deadline |-> NoDeadline]
Slot(id) == fec_window[id % N]
Larger(a, b) == IF a >= b THEN a ELSE b
Smaller(a, b) == IF a <= b THEN a ELSE b

is_fec_window_empty == window_length = 0

\* [start, end[ of get_current_window_bounds, as a set of ids
get_current_window ==
  IF is_fec_window_empty THEN {} ELSE smallest_in_transit..highest_in_transit

Init ==
  /\ fec_window = [k \in 0..(N - 1) |-> Free]
  /\ max_id = 0
  /\ smallest_in_transit = 0
  /\ highest_in_transit = 0
  /\ window_length = 0
  /\ lowest_considered_id_by_peer = 0
  /\ largest_authorized_id_by_peer = 0
  /\ symbols_from_deadlines = [d \in Deadlines |-> 0]
  /\ deadlines_from_symbols = [i \in Ids |-> NoDeadline]
  /\ landed = {}

(***************************************************************************)
(* A packet with an FPI frame is protected: its symbol takes the next id    *)
(* and its slot.  The FPI frame waits for the next packet while the window  *)
(* is full.  When the slot is taken the id is consumed and nothing is       *)
(* added.  The credit the peer gave is not checked here: the stream         *)
(* scheduler does, when it looks for data to send.                         *)
(***************************************************************************)
window_get_next_source_symbol_id == max_id + 1

add_source_symbol_to_window(id, d) ==
  /\ fec_window' = [fec_window EXCEPT ![id % N] =
                      [id |-> id, received |-> FALSE, deadline |-> d]]
  /\ smallest_in_transit' = IF is_fec_window_empty THEN id ELSE smallest_in_transit
  /\ highest_in_transit' = id
  /\ window_length' = window_length + 1

\* a deadline is filed under the largest id that has it
RecordDeadline(id, d) ==
  IF d = NoDeadline
    THEN UNCHANGED <<symbols_from_deadlines, deadlines_from_symbols>>
    ELSE LET old == symbols_from_deadlines[d]
             kept == Larger(id, old)
         IN  /\ symbols_from_deadlines' = [symbols_from_deadlines EXCEPT ![d] = kept]
             /\ deadlines_from_symbols' =
                  [i \in Ids |-> IF i = kept THEN d
                                 ELSE IF i = old THEN NoDeadline
                                 ELSE deadlines_from_symbols[i]]

SlotIsTaken(id) == Slot(id).id # 0 \/ id <= highest_in_transit

protect_source_symbol(id, d) ==
  /\ id \in Ids
  /\ max_id' = id
  /\ IF SlotIsTaken(id)
       THEN UNCHANGED <<fec_window, smallest_in_transit, highest_in_transit, window_length,
                        symbols_from_deadlines, deadlines_from_symbols>>
       ELSE /\ add_source_symbol_to_window(id, d)
            /\ RecordDeadline(id, d)
  /\ UNCHANGED <<lowest_considered_id_by_peer, largest_authorized_id_by_peer, landed>>

window_protect_packet_payload(d) ==
  /\ window_length < N
  /\ protect_source_symbol(window_get_next_source_symbol_id, d)

(***************************************************************************)
(* Pruning: the symbols up to `last' go, and with them the flagged ones     *)
(* that follow.  FirstKept is where the loop of                             *)
(* _remove_source_symbol_from_window stops.                                *)
(***************************************************************************)
FirstKept_NextOne(last) == last + 1

FirstKept(last) ==
  Min({i \in (last + 1)..(highest_in_transit + 1) :
         i = highest_in_transit + 1 \/ ~ Slot(i).received})

FreeSlots(first, end) ==
  [k \in 0..(N - 1) |-> IF \E i \in first..(end - 1) : i % N = k THEN Free ELSE fec_window[k]]

\* how many symbols stay when the first one becomes `kept'
Remaining(kept) == window_length - (kept - smallest_in_transit)

\* the deadlines filed under the ids of S are forgotten
DropDeadlines_OneTree(S) ==
  /\ UNCHANGED symbols_from_deadlines
  /\ deadlines_from_symbols' =
       [i \in Ids |-> IF i \in S THEN NoDeadline ELSE deadlines_from_symbols[i]]

DropDeadlines(S) ==
  /\ symbols_from_deadlines' =
       [d \in Deadlines |-> IF \E i \in S \cap Ids : deadlines_from_symbols[i] = d
                              THEN 0 ELSE symbols_from_deadlines[d]]
  /\ deadlines_from_symbols' =
       [i \in Ids |-> IF i \in S THEN NoDeadline ELSE deadlines_from_symbols[i]]

(***************************************************************************)
(* A packet is announced as received, once: the announcement takes it out   *)
(* of the retransmission queue or of the queue of lost packets.             *)
(* sfpid_has_landed flags the slot of its symbol, whichever symbol is in it *)
(* by now.                                                                 *)
(***************************************************************************)
PrunesHead(id) == Slot(id).id = id /\ ~ is_fec_window_empty /\ id = smallest_in_transit

sfpid_has_landed(id) ==
  LET kept == FirstKept(id)
      slots == IF PrunesHead(id) THEN FreeSlots(id, kept) ELSE fec_window
  IN  /\ fec_window' = [slots EXCEPT ![id % N].received = TRUE]
      /\ DropDeadlines(IF Slot(id).id = id THEN {id} ELSE {})
      /\ IF PrunesHead(id)
           THEN /\ window_length' = Remaining(kept)
                /\ smallest_in_transit' = IF Remaining(kept) = 0 THEN 0 ELSE kept
                /\ highest_in_transit' = IF Remaining(kept) = 0 THEN 0 ELSE highest_in_transit
           ELSE UNCHANGED <<window_length, smallest_in_transit, highest_in_transit>>

packet_has_been_received(id) ==
  /\ id \in (1..max_id) \ landed
  /\ max_id - id < MaxLag
  /\ sfpid_has_landed(id)
  /\ landed' = landed \cup {id}
  /\ UNCHANGED <<max_id, lowest_considered_id_by_peer, largest_authorized_id_by_peer>>

(***************************************************************************)
(* An RWIN frame arrives, possibly late: the peer needs nothing below       *)
(* smallest_id.  Every symbol below it leaves the window; the deadline of a *)
(* flagged symbol was dropped when it was flagged.                         *)
(***************************************************************************)
update_window_bounds(smallest_id, largest_id) ==
  LET lowest == Larger(lowest_considered_id_by_peer, smallest_id)
      last == Smaller(lowest - 1, highest_in_transit)
      kept == FirstKept(last)
  IN  /\ lowest_considered_id_by_peer' = lowest
      /\ largest_authorized_id_by_peer' = Larger(largest_authorized_id_by_peer, largest_id)
      /\ IF is_fec_window_empty \/ lowest <= smallest_in_transit
           THEN /\ smallest_in_transit' = Larger(smallest_in_transit, lowest)
                /\ UNCHANGED <<fec_window, highest_in_transit, window_length,
                               symbols_from_deadlines, deadlines_from_symbols>>
           ELSE /\ fec_window' = FreeSlots(smallest_in_transit, kept)
                /\ window_length' = Remaining(kept)
                /\ smallest_in_transit' = IF Remaining(kept) = 0 THEN lowest ELSE kept
                /\ highest_in_transit' = IF Remaining(kept) = 0 THEN 0 ELSE highest_in_transit
                /\ DropDeadlines({i \in smallest_in_transit..last :
                                    i = smallest_in_transit \/ ~ Slot(i).received})
      /\ UNCHANGED <<max_id, landed>>

\* the peer starts by advertising id 1, then an id it has received
process_window_rwin_frame_OneMore(smallest_id, window_size) ==
  update_window_bounds(smallest_id, smallest_id + window_size)

process_window_rwin_frame(smallest_id, window_size) ==
  update_window_bounds(smallest_id, smallest_id + window_size - 1)

\* the initial credit, drawn from the peer's initial_max_data
connection_state_changed(allowed_symbols) ==
  /\ largest_authorized_id_by_peer = 0
  /\ update_window_bounds(0, Smaller(10, allowed_symbols - 1))

Next ==
  \/ \E d \in Deadlines \cup {NoDeadline} : window_protect_packet_payload(d)
  \/ \E id \in Ids : packet_has_been_received(id)
  \/ \E s \in 0..Larger(1, max_id), size \in RwinSizes : process_window_rwin_frame(s, size)
  \/ \E allowed \in RwinSizes : connection_state_changed(allowed)

Spec == Init /\ [][Next]_vars
-----------------------------------------------------------------------------
(***************************************************************************)
(* The types of the fields of window_fec_framework_t.                      *)
(***************************************************************************)
TypeOK ==
  /\ fec_window \in [0..(N - 1) -> [id : Nat, received : BOOLEAN,
                                    deadline : Deadlines \cup {NoDeadline}]]
  /\ max_id \in Nat /\ smallest_in_transit \in Nat /\ highest_in_transit \in Nat
  /\ window_length \in Nat
  /\ lowest_considered_id_by_peer \in Nat /\ largest_authorized_id_by_peer \in Nat
  /\ symbols_from_deadlines \in [Deadlines -> 0..MaxId]
  /\ deadlines_from_symbols \in [Ids -> Deadlines \cup {NoDeadline}]
  /\ landed \subseteq Nat

(***************************************************************************)
(* The window is a run of consecutive ids ending at the last one sent, each *)
(* in its slot, and every other slot is free: adding a symbol never fails   *)
(* and generate_and_queue_repair_symbols never meets a slot that holds      *)
(* another id than the one it looks for.                                   *)
(***************************************************************************)
WindowIsContiguous ==
  /\ window_length <= N
  /\ ~ is_fec_window_empty =>
       /\ highest_in_transit = max_id
       /\ smallest_in_transit >= 1
       /\ window_length = highest_in_transit + 1 - smallest_in_transit
  /\ \A i \in get_current_window : Slot(i).id = i
  /\ \A k \in 0..(N - 1) : fec_window[k].id # 0 =>
       fec_window[k].id \in get_current_window /\ fec_window[k].id % N = k

(***************************************************************************)
(* A symbol leaves the window only when its packet was announced as         *)
(* received or the peer said it needs nothing below a higher id: until then *)
(* repair symbols keep protecting it.                                      *)
(***************************************************************************)
KeptUntilReceived ==
  \A i \in 1..max_id :
    i \in get_current_window \/ i \in landed \/ i < lowest_considered_id_by_peer

(***************************************************************************)
(* The window starts at a symbol the peer is not known to have: what has    *)
(* landed at its head was pruned, what the peer gave up is out.            *)
(***************************************************************************)
HeadIsMissing ==
  ~ is_fec_window_empty =>
    /\ ~ Slot(smallest_in_transit).received
    /\ smallest_in_transit >= lowest_considered_id_by_peer

(***************************************************************************)
(* The two deadline trees are inverse of each other and name only symbols   *)
(* of the window that are not known to have been received: the deadline     *)
(* driven controllers never wait for a symbol that is gone.                *)
(***************************************************************************)
DeadlinesAreOfMissingSymbols ==
  /\ \A d \in Deadlines, i \in Ids :
       symbols_from_deadlines[d] = i <=> deadlines_from_symbols[i] = d
  /\ \A i \in Ids : deadlines_from_symbols[i] # NoDeadline =>
       i \in get_current_window /\ ~ Slot(i).received

(***************************************************************************)
(* The sending window is sound: a gapless run of ids that adding a symbol   *)
(* never breaks, in which a symbol stays until the peer has it or gave it   *)
(* up, that starts at a missing symbol, and whose deadlines are those of    *)
(* missing symbols.                                                         *)
(***************************************************************************)
WindowIsSound ==
  WindowIsContiguous /\ KeptUntilReceived /\ HeadIsMissing /\ DeadlinesAreOfMissingSymbols

(***************************************************************************)
(* No step brings back a symbol that left the window, and the peer's bounds *)
(* and the ids only grow, even when RWIN frames arrive out of order.        *)
(***************************************************************************)
NothingReturns ==
  /\ \A i \in get_current_window' : i \in get_current_window \/ i > max_id
  /\ lowest_considered_id_by_peer' >= lowest_considered_id_by_peer
  /\ largest_authorized_id_by_peer' >= largest_authorized_id_by_peer
  /\ max_id' >= max_id

NothingComesBack == [][NothingReturns]_vars

(***************************************************************************)
(* utils.h:232: "the symbols have been received, meaning that it has either *)
(* been received or recovered": the symbols the window flags as received    *)
(* are the ones of packets announced as received.                          *)
(***************************************************************************)
FlagMeansReceived ==
  \A i \in get_current_window : Slot(i).received => i \in landed
=============================================================================
