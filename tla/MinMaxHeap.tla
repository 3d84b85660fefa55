---------------------------- MODULE MinMaxHeap ----------------------------
(***************************************************************************)
(* The bounded double-ended priority queue in which the receivers of the   *)
(* FEC plugins keep symbols (simple_fec/window_framework/                  *)
(* search_structures.h).  The queue is an array in which the levels of the *)
(* implicit tree are ordered alternately for the minimum and the maximum.  *)
(* The array is the sequence of its keys: what is stored with a key moves  *)
(* with it.  The size of the queue is its length.                          *)
(***************************************************************************)
EXTENDS Integers, Sequences, SequencesExt, FiniteSets, FiniteSetsExt, BagsExt

CONSTANTS
    Keys,       \* the keys put into the queue
    MaxSize     \* max_size

VARIABLE pq     \* the keys in buffer[1..size]

ROOT == 1

RECURSIVE log2(_)
log2(val) == IF val <= 1 THEN 0 ELSE 1 + log2(val \div 2)

is_in_min_level(idx) == log2(idx) % 2 = 0

Swapped(b, i, j) == [b EXCEPT ![i] = b[j], ![j] = b[i]]

exists_in_heap(size, idx) == idx # 0 /\ idx <= size

parent(idx) == idx \div 2

grand_parent(idx) == parent(parent(idx))

has_grand_parent(size, idx) == exists_in_heap(size, grand_parent(idx))

has_child(size, idx) == idx * 2 <= size

left_child(idx) == idx * 2

right_child(idx) == idx * 2 + 1

is_direct_child(candidate, p) == candidate \in {left_child(p), right_child(p)}

(* The comparison that is "less" in the levels of the minimum is "more" in *)
(* those of the maximum: the functions for the two kinds of level differ   *)
(* in nothing else.                                                        *)
Before(b, min, i, j) == IF min THEN b[i] < b[j] ELSE b[i] > b[j]

(* smallest_child_idx and largest_child_idx *)
BestChild(b, size, min, idx) ==
    IF exists_in_heap(size, right_child(idx))
         /\ ~Before(b, min, left_child(idx), right_child(idx))
    THEN right_child(idx)
    ELSE left_child(idx)

Better(b, min, i, j) == IF Before(b, min, i, j) THEN i ELSE j

(* smallest_child_or_grandchild_idx and largest_child_or_grandchild_idx *)
BestBelow(b, size, min, idx) ==
    LET left  == left_child(idx)
        right == right_child(idx)
        best  == IF has_child(size, left)
                 THEN Better(b, min, left, BestChild(b, size, min, left))
                 ELSE left
        both  == Better(b, min, best, right)
    IN  IF ~exists_in_heap(size, right) THEN best
        ELSE IF has_child(size, right)
             THEN Better(b, min, both, BestChild(b, size, min, right))
             ELSE both

(* A grandchild that took the place of its grandparent may have left a key *)
(* on the wrong side of its parent.                                        *)
Settled(b, min, idx) ==
    IF Before(b, ~min, idx, parent(idx)) THEN Swapped(b, idx, parent(idx)) ELSE b

(* sink_min and sink_max *)
RECURSIVE SinkLevel(_, _, _, _)
SinkLevel(b, size, min, current) ==
    IF ~has_child(size, current) THEN b
    ELSE LET idx == BestBelow(b, size, min, current)
             swapped == Swapped(b, idx, current)
         IN  SinkLevel(
               IF ~Before(b, min, idx, current) THEN b
               ELSE IF is_direct_child(idx, current) THEN swapped
               ELSE Settled(swapped, min, idx),
               size, min, idx)

sink(b, size, idx) ==
    IF size = 1 THEN Swapped(b, idx, ROOT)
    ELSE SinkLevel(b, size, is_in_min_level(idx), idx)

(* swim_min and swim_max *)
RECURSIVE SwimLevel(_, _, _, _)
SwimLevel(b, size, min, idx) ==
    IF has_grand_parent(size, idx) /\ Before(b, min, idx, grand_parent(idx))
    THEN SwimLevel(Swapped(b, idx, grand_parent(idx)), size, min,
                   grand_parent(idx))
    ELSE b

Swim(b, size, idx) ==
    LET min == is_in_min_level(idx)
        p   == parent(idx)
    IN  IF idx = ROOT THEN b
        ELSE IF Before(b, ~min, idx, p)
             THEN SwimLevel(Swapped(b, idx, p), size, ~min, p)
             ELSE SwimLevel(b, size, min, idx)

-----------------------------------------------------------------------------
(* The calls.                                                              *)

pq_get_min_key(b) == b[ROOT]

pq_get_max_key(b) ==
    IF Len(b) = 1 THEN b[ROOT] ELSE b[BestChild(b, Len(b), FALSE, ROOT)]

pq_pop_min(b) ==
    IF b = <<>> THEN b
    ELSE LET size == Len(b) - 1
         IN  SubSeq(sink(Swapped(b, ROOT, size + 1), size, ROOT), 1, size)

(* With one key the place of the maximum is that of a child the root does  *)
(* not have: the entry after the last one, whatever it holds.              *)
pq_pop_max(b) ==
    IF b = <<>> THEN b
    ELSE LET size == Len(b) - 1
             max  == BestChild(b, Len(b), FALSE, ROOT)
         IN  SubSeq(sink(Swapped(Append(b, 0), max, size + 1), size, max), 1, size)

pq_insert(b, key) ==
    IF Len(b) = MaxSize THEN b
    ELSE Swim(Append(b, key), Len(b) + 1, Len(b) + 1)

pq_insert_and_pop_min_if_full(b, key) ==
    pq_insert(IF Len(b) = MaxSize THEN pq_pop_min(b) ELSE b, key)

pq_get_between_bounds(b, min, max) ==
    SelectSeq(b, LAMBDA key : min <= key /\ key < max)

-----------------------------------------------------------------------------
(* No plugin calls pq_pop_max.                                             *)

Init == pq = <<>>

Insert(key) == pq' = pq_insert(pq, key)

InsertAndPop(key) == pq' = pq_insert_and_pop_min_if_full(pq, key)

PopMin == pq' = pq_pop_min(pq)

Next ==
    \/ \E key \in Keys : Insert(key) \/ InsertAndPop(key)
    \/ PopMin

Spec == Init /\ [][Next]_pq

-----------------------------------------------------------------------------
Between(b) == {b[i] : i \in DOMAIN b}

(* Whatever was inserted and popped before, pq_get_min_key and             *)
(* pq_get_max_key report the smallest and the largest key in the queue,    *)
(* and pq_pop_min takes out one smallest key and keeps the others.         *)
EndsAreExact ==
    pq # <<>> =>
      /\ pq_get_min_key(pq) = Min(Between(pq))
      /\ pq_get_max_key(pq) = Max(Between(pq))
      /\ ToBag(pq_pop_min(pq)) = BagRemove(ToBag(pq), Min(Between(pq)))

(* A full queue makes room for a new key by giving up its smallest one and *)
(* nothing else (pq_insert_and_pop_min_if_full): the receiver keeps the    *)
(* newest symbols.                                                         *)
NewestAreKept ==
    \A key \in Keys :
      ToBag(pq_insert_and_pop_min_if_full(pq, key)) =
        BagAdd(IF Len(pq) = MaxSize THEN BagRemove(ToBag(pq), Min(Between(pq)))
               ELSE ToBag(pq), key)

(* What search_structures.h says of the maximum, "the max is the largest   *)
(* child of the root": pq_pop_max takes that key out and keeps the others. *)
PopMaxRemovesMax ==
    pq # <<>> => ToBag(pq_pop_max(pq)) = BagRemove(ToBag(pq), Max(Between(pq)))

=============================================================================
