----------------------------- MODULE ListEdits -----------------------------
(***************************************************************************)
(* The two edits of a linked list that the modules with proofs share: an    *)
(* element put at a position, and the element at a position taken away.     *)
(***************************************************************************)
EXTENDS Integers, Sequences

Inserted(t, i, e) == SubSeq(t, 1, i - 1) \o <<e>> \o SubSeq(t, i, Len(t))
Removed(t, i) == SubSeq(t, 1, i - 1) \o SubSeq(t, i + 1, Len(t))
=============================================================================
