--------------------------- MODULE ReceivedTracker ---------------------------
(***************************************************************************)
(* What the window framework's receiver does with a source symbol: it adds  *)
(* it to the ring of symbols, for the decoder, and to the list of intervals *)
(* of the tracker (both in ReceivedSymbols).  The tracker is asked for one  *)
(* thing, the highest id below which nothing is missing, which the receiver *)
(* advertises to its peer in RWIN frames; the peer then forgets every       *)
(* symbol below it.  A wrong interval list makes the peer forget a symbol   *)
(* that is still missing.                                                  *)
(***************************************************************************)
EXTENDS ReceivedSymbols

CONSTANT MaxId              \* largest source symbol id the peer sends

ASSUME MaxIdAssumption == MaxId \in Nat \ {0} /\ MaxId < IdSpace

Ids == WINDOW_INITIAL_SYMBOL_ID .. MaxId

VARIABLES
  intervals,                \* the list hanging from first_interval
  ring,                     \* the received symbols
  received,                 \* history: the ids received so far
  jumped                    \* history: an id was MaxSize or more above the last one

tracker_vars == <<intervals, ring, received, jumped>>

TrackerInit ==
  /\ intervals = create_received_symbols_tracker
  /\ ring = new_ring_based_source_symbols_buffer
  /\ received = {0}
  /\ jumped = FALSE

\* window_receive_source_symbol; the symbols are in order, out of order or repeated
Receive(r) ==
  /\ ring' = ring_add(ring, r)
  /\ intervals' = tracker_receive_source_symbol(intervals, r)
  /\ received' = received \cup {r}
  /\ jumped' = (jumped \/ (received # {0} /\ r >= Max(received) + MaxSize))

TrackerNext == \E r \in Ids : Receive(r)

TrackerSpec == TrackerInit /\ [][TrackerNext]_tracker_vars
-----------------------------------------------------------------------------
(***************************************************************************)
(* The list is a list of pairs of ids (received_interval_t).               *)
(***************************************************************************)
TrackerTypeOK ==
  /\ intervals \in Seq([start : Nat, end : Nat])
  /\ received \subseteq Nat

Highest == get_highest_contiguous_received_source_symbol(intervals)

(***************************************************************************)
(* The id the receiver advertises is exact: it has every id up to it and    *)
(* not the next one, whatever the order and repetition of the arrivals.     *)
(***************************************************************************)
HighestContiguousIsExact ==
  /\ 0..Highest \subseteq received
  /\ Highest + 1 \notin received

(***************************************************************************)
(* The list tracker_receive_source_symbol maintains is canonical and holds  *)
(* exactly the received ids.                                               *)
(***************************************************************************)
ListIsExact == Canonical(intervals) /\ Held(intervals) = received

(***************************************************************************)
(* The tracker is exact: its list is canonical and holds the received ids,  *)
(* and the id advertised from it has everything below it and not the next.  *)
(***************************************************************************)
TrackerIsExact == ListIsExact /\ HighestContiguousIsExact

(***************************************************************************)
(* While no id is MaxSize or more above the last one (the peer's credit     *)
(* sees to it: CreditProtectsRing of WindowFlow), the ring holds exactly    *)
(* the symbols received among the last MaxSize ids, each where ring_get     *)
(* looks for it: an id the decoder does not find was not received, and an   *)
(* entry is never the symbol of another id.                                *)
(***************************************************************************)
RingIsExact ==
  received # {0} /\ ~ jumped =>
    LET last == Max(received)
        first == Max({1, last - (MaxSize - 1)})
    IN  /\ get_first_source_symbol_id(ring) = first
        /\ get_last_source_symbol_id(ring) = last
        /\ \A id \in first..last : ring_get(ring, id) = IF id \in received THEN id ELSE NULL
=============================================================================
