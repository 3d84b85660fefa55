-------------------------- MODULE ReceivedSymbols --------------------------
(***************************************************************************)
(* The two records the window framework's receiver keeps of the source      *)
(* symbols it has, as operators: the list of intervals of ids and the ring  *)
(* of symbols.                                                             *)
(***************************************************************************)
EXTENDS ListEdits, FiniteSetsExt

(***************************************************************************)
(* The list of intervals of the received-symbols tracker                    *)
(* (window_framework/search_structures.h): a linked list of disjoint        *)
(* half-open intervals of source symbol ids, which the receiver walks on    *)
(* every symbol it gets.                                                   *)
(*                                                                         *)
(* The list is a sequence of records [start, end], end excluded.  Ids are   *)
(* 30 bits on the wire and 32 bits in memory, so that end + 1 cannot wrap;  *)
(* naturals stand for them.                                                *)
(***************************************************************************)

WINDOW_INITIAL_SYMBOL_ID == 1

Node(s, e) == [start |-> s, end |-> e]

(***************************************************************************)
(* The node at which the walk of tracker_receive_source_symbol stops: one   *)
(* of its four tests succeeds there.                                       *)
(***************************************************************************)
StopsAt(node, r) == r = node.start - 1 \/ r <= node.end

(***************************************************************************)
(* Node i takes the symbol just before its start, or just after its end,    *)
(* and is merged with the neighbour it then touches.                       *)
(***************************************************************************)
GrowLeft(t, i, r) ==
  IF i > 1 /\ t[i - 1].end = r
    THEN Removed([t EXCEPT ![i - 1] = Node(t[i - 1].start, t[i].end)], i)
    ELSE [t EXCEPT ![i] = Node(r, t[i].end)]

GrowRight_NeverMerges(t, i, r) == [t EXCEPT ![i] = Node(t[i].start, r + 1)]

GrowRight(t, i, r) ==
  IF i < Len(t) /\ t[i + 1].start = r + 1
    THEN Removed([t EXCEPT ![i] = Node(t[i].start, t[i + 1].end)], i + 1)
    ELSE [t EXCEPT ![i] = Node(t[i].start, r + 1)]

(***************************************************************************)
(* The list when the walk stops at node i: a symbol that touches no node    *)
(* gets one of its own before node i, a duplicate changes nothing.          *)
(***************************************************************************)
ReceiveAt(t, i, r) ==
  IF r = t[i].start - 1 THEN GrowLeft(t, i, r)
  ELSE IF r = t[i].end THEN GrowRight(t, i, r)
  ELSE IF r < t[i].start THEN Inserted(t, i, Node(r, r + 1))
  ELSE t

tracker_receive_source_symbol(t, r) ==
  LET stops == {i \in 1..Len(t) : StopsAt(t[i], r)}
  IN  IF stops = {} THEN Append(t, Node(r, r + 1))
                    ELSE ReceiveAt(t, Min(stops), r)

create_received_symbols_tracker == <<Node(0, WINDOW_INITIAL_SYMBOL_ID)>>

get_highest_contiguous_received_source_symbol(t) == t[1].end - 1

(***************************************************************************)
(* A canonical list: non-empty nodes, in increasing order, no two of which  *)
(* touch, the first starting at 0 (so that `previous' is never NULL where   *)
(* the walk inserts before a node).                                        *)
(***************************************************************************)
Canonical(t) ==
  /\ t # <<>>
  /\ t[1].start = 0
  /\ \A i \in 1..Len(t) : t[i].start < t[i].end
  /\ \A i, j \in 1..Len(t) : i < j => t[i].end < t[j].start

Held(t) == UNION {t[i].start .. (t[i].end - 1) : i \in 1..Len(t)}

-----------------------------------------------------------------------------
(***************************************************************************)
(* The receiver's buffer of source symbols (window_receive_buffers.h): a    *)
(* ring that follows the highest id received and keeps the last MaxSize     *)
(* ids, received or not.  The decoder takes from it the symbols it          *)
(* subtracts from an arriving repair symbol, and counts every id it does    *)
(* not find there as an unknown.                                           *)
(*                                                                         *)
(* An entry is the id of the symbol it points to, 0 for NULL.  Ids are      *)
(* unsigned 32 bit integers in the code, of which the empty ring's "last    *)
(* id" wraps; IdSpace stands for 2^32.  highest_removed, which the code     *)
(* sets and never reads, is left out.                                      *)
(***************************************************************************)

CONSTANTS
  MaxSize,                  \* max_size of the ring, receive_buffer_size
  IdSpace                   \* 2^32

ASSUME RingAssumption ==
  MaxSize \in Nat \ {0} /\ IdSpace \in Nat

NULL == 0
Indices == 0..(MaxSize - 1)

(***************************************************************************)
(* A ring b is a record with the fields of the C struct.                   *)
(***************************************************************************)
new_ring_based_source_symbols_buffer ==
  [current_size |-> 0, first_index |-> 0, first_id |-> 0,
   array |-> [k \in Indices |-> NULL]]

get_first_source_symbol_id(b) == b.first_id
get_last_source_symbol_id(b) == (b.first_id + b.current_size - 1) % IdSpace

IndexOf(b, id) == (id - b.first_id + b.first_index) % MaxSize

ring_get(b, id) ==
  IF id < b.first_id \/ id > get_last_source_symbol_id(b) THEN NULL
                                                         ELSE b.array[IndexOf(b, id)]

ring_contains(b, id) == ring_get(b, id) = id

\* n times ring_based_source_symbols_buffer_remove_and_free_first, n <= current_size
remove_and_free_first(b, n) ==
  [current_size |-> b.current_size - n,
   first_index  |-> IF n = b.current_size THEN 0 ELSE (b.first_index + n) % MaxSize,
   first_id     |-> IF n = b.current_size THEN 0 ELSE b.first_id + n,
   array        |-> [k \in Indices |->
                       IF \E i \in 0..(n - 1) : k = (b.first_index + i) % MaxSize
                         THEN NULL ELSE b.array[k]]]

\* an id more than max_size above the last one: the entries go, the id is not stored
JumpTo(b, id) ==
  [b EXCEPT !.first_index = 0, !.first_id = id - (MaxSize - 1),
            !.array = [k \in Indices |-> NULL]]

\* the first entries go until `added' more fit
MakeRoom_OneShort(b, added) ==
  LET excess == b.current_size + added - (MaxSize + 1)
  IN  IF excess > 0 THEN remove_and_free_first(b, excess) ELSE b

MakeRoom(b, added) ==
  LET excess == b.current_size + added - MaxSize
  IN  IF excess > 0 THEN remove_and_free_first(b, excess) ELSE b

\* the ids between the last one and id are missing
ExtendTo(b, id) ==
  LET c == MakeRoom(b, id - get_last_source_symbol_id(b))
      last == get_last_source_symbol_id(c)
      missing == ((last + 1) % IdSpace)..(id - 1)
  IN  [c EXCEPT
         !.array = [k \in Indices |->
                      IF k = IndexOf(c, id) THEN id
                      ELSE IF \E i \in missing : k = IndexOf(c, i) THEN NULL
                      ELSE c.array[k]],
         !.current_size = (c.current_size + id - last) % IdSpace]

\* the first symbol: every id before it is missing
StartAt(b, id) ==
  LET first == IF id >= MaxSize THEN Max({1, id - (MaxSize - 1)}) ELSE 1
      size == Min({MaxSize, id + 1 - first})
  IN  [current_size |-> size, first_index |-> 0, first_id |-> first,
       array |-> [k \in Indices |-> IF k = size - 1 THEN id ELSE NULL]]

ring_add(b, id) ==
  IF b.current_size > 0 /\ id > get_last_source_symbol_id(b)
    THEN IF id - get_last_source_symbol_id(b) > MaxSize THEN JumpTo(b, id) ELSE ExtendTo(b, id)
  ELSE IF b.current_size = 0 THEN StartAt(b, id)
  ELSE IF id < b.first_id THEN b
  ELSE [b EXCEPT !.array[IndexOf(b, id)] = id]

\* the type ring_based_received_source_symbols_buffer_t, for ids up to max_id
RingType(max_id) ==
  [current_size : 0..MaxSize, first_index : Indices, first_id : Int,
   array : [Indices -> 0..max_id]]
=============================================================================
