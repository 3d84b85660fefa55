------------------------------- MODULE Sacks --------------------------------
(***************************************************************************)
(* The ranges of received packet numbers, or of acknowledged stream bytes,  *)
(* as picoquic keeps them: a linked list from the highest range to the      *)
(* lowest.  Here the list is a sequence of records; the empty list, whose   *)
(* first item starts at UINT64_MAX in the code, is the empty sequence.      *)
(***************************************************************************)
EXTENDS Integers, Sequences, SequencesExt, FiniteSetsExt

CONSTANT MaxAckBlocks       \* MAX_ACK_BLOCKS, 512 in the code

Item(lo, hi) == [start |-> lo, end |-> hi]
Numbers(item) == item.start..item.end
Covered(sack) == UNION {Numbers(sack[i]) : i \in DOMAIN sack}

\* the number the next packet number is completed from; 0 while nothing was received
HighestReceived(sack) == IF sack = <<>> THEN 0 ELSE sack[1].end

(***************************************************************************)
(* The walk for pn goes down the list and stops at the first item that does *)
(* not lie above pn.                                                       *)
(***************************************************************************)
is_pn_already_received(sack, pn) ==
  \E i \in DOMAIN sack :
     /\ \A j \in 1..(i - 1) : pn < sack[j].start
     /\ pn \in Numbers(sack[i])

(***************************************************************************)
(* One turn of the loop of update_sack_list looks at item i with the part   *)
(* lo..hi of the range that is still to be recorded; `new' is what ret == 0 *)
(* reports, that a number was added.                                       *)
(***************************************************************************)
Grown(sack, i, lo, hi) == [sack EXCEPT ![i] = Item(lo, hi)]
TouchesPrevious(sack, i, hi) == i > 1 /\ hi + 1 >= sack[i - 1].start

\* item i ends right below or inside lo..hi: it grows, or it joins the item above it
MergeOrGrow(sack, i, hi) ==
  IF TouchesPrevious(sack, i, hi)
    THEN [list |-> RemoveAt(Grown(sack, i - 1, sack[i].start, sack[i - 1].end), i), at |-> i - 1]
    ELSE [list |-> Grown(sack, i, sack[i].start, hi), at |-> i]

RECURSIVE UpdateFrom(_, _, _, _, _)
UpdateFrom(sack, i, lo, hi, new) ==
  LET item == sack[i]
      last == i = Len(sack)
      Extended == [list |-> Grown(sack, i, lo, item.end), new |-> TRUE]
  IN IF hi > item.end THEN
       IF lo <= item.end + 1 THEN
         LET m == MergeOrGrow(sack, i, hi)
             top == m.list[m.at]
         IN IF lo >= top.start THEN [list |-> m.list, new |-> TRUE]
            ELSE IF m.at = Len(m.list)
              THEN [list |-> Grown(m.list, m.at, lo, top.end), new |-> TRUE]
              ELSE UpdateFrom(m.list, m.at + 1, lo, top.start - 1, TRUE)
       ELSE IF TouchesPrevious(sack, i, hi)
         THEN [list |-> Grown(sack, i - 1, lo, sack[i - 1].end), new |-> TRUE]
         ELSE [list |-> InsertAt(sack, i, Item(lo, hi)), new |-> TRUE]
     ELSE IF hi >= item.start THEN
       IF lo >= item.start THEN [list |-> sack, new |-> new]
       ELSE IF last THEN Extended
       ELSE UpdateFrom(sack, i + 1, lo, item.start - 1, TRUE)
     ELSE IF last THEN
       IF hi + 1 = item.start THEN Extended
       ELSE [list |-> Append(sack, Item(lo, hi)), new |-> TRUE]
     ELSE UpdateFrom(sack, i + 1, lo, hi, new)

update_sack_list(sack, lo, hi) ==
  IF sack = <<>> THEN [list |-> <<Item(lo, hi)>>, new |-> TRUE]
  ELSE UpdateFrom(sack, 1, lo, hi, FALSE)

record_pn_received(sack, pn) == update_sack_list(sack, pn, pn).list

(***************************************************************************)
(* Does lo..hi fill a hole?  The walk stops at the first item that does not *)
(* lie above hi; only a range inside that item fills none.                  *)
(***************************************************************************)
check_sack_list(sack, lo, hi) ==
  ~ \E i \in DOMAIN sack :
      /\ \A j \in 1..(i - 1) : hi < sack[j].start
      /\ hi \in Numbers(sack[i])
      /\ lo >= sack[i].start

(***************************************************************************)
(* A range that an acknowledged ACK frame reported is forgotten: a first    *)
(* item that starts with it is cut, but never to nothing; a later item is   *)
(* removed when it is exactly the range.  The walk over the later items     *)
(* stops at the first one that does not end above the range.                *)
(***************************************************************************)
Forgettable_ByEnd(sack, lo, hi) ==
  {i \in 2..Len(sack) : sack[i].end = hi /\ \A j \in 2..(i - 1) : sack[j].end > hi}

Forgettable(sack, lo, hi) ==
  {i \in 2..Len(sack) : sack[i] = Item(lo, hi) /\ \A j \in 2..(i - 1) : sack[j].end > hi}

process_ack_of_ack_range(sack, lo, hi) ==
  IF sack = <<>> THEN sack
  ELSE IF sack[1].start = lo
    THEN Grown(sack, 1, IF hi < sack[1].end THEN hi + 1 ELSE sack[1].end, sack[1].end)
    ELSE LET found == Forgettable(sack, lo, hi)
         IN IF found = {} THEN sack ELSE RemoveAt(sack, CHOOSE i \in found : TRUE)

(***************************************************************************)
(* The ACK frame: the highest number, the length of the first range, and    *)
(* for each further range the gap above it and its length.                  *)
(***************************************************************************)
AckGap(upper, lower) == upper.start - lower.end - 2

AckBlocks(l) ==
  [i \in 1..Min({Len(l) - 1, MaxAckBlocks}) |->
     [gap |-> AckGap(l[i], l[i + 1]), range |-> l[i + 1].end - l[i + 1].start]]

AckFrame(l) ==
  [largest |-> l[1].end, first_ack_block |-> l[1].end - l[1].start, ack_blocks |-> AckBlocks(l)]

\* the ranges a reader finds in a frame, from the highest
AckRanges(f) ==
  LET range[i \in 0..Len(f.ack_blocks)] ==
        1 + (IF i = 0 THEN f.first_ack_block ELSE f.ack_blocks[i].range)
      largest[i \in 0..Len(f.ack_blocks)] ==
        IF i = 0 THEN f.largest
                 ELSE largest[i - 1] - (f.ack_blocks[i].gap + 1 + range[i - 1])
  IN [i \in 1..(Len(f.ack_blocks) + 1) |-> Item(largest[i - 1] + 1 - range[i - 1], largest[i - 1])]
=============================================================================
