---------------------------- MODULE StreamBlocks ----------------------------
(***************************************************************************)
(* The queue of what was received of a stream and not delivered yet         *)
(* (stream_data), for the streams of the application and of the plugins:    *)
(* what a frame adds to it, and what can be delivered.  The loops over the  *)
(* queue are given by the position at which they stop.                     *)
(***************************************************************************)
EXTENDS ListEdits, FiniteSetsExt

End(f) == f.offset + f.length
Bytes(f) == f.offset..(End(f) - 1)

(***************************************************************************)
(* Reassembly.  A block is what one frame added to stream_data, from the    *)
(* lowest offset.  queue_network_input moves the start of the new data over *)
(* what was consumed and over the blocks it meets, until the first block    *)
(* that lies above; the data is kept up to that block, and what lies        *)
(* beyond is left to the frames that carry it again.                        *)
(***************************************************************************)
Block(lo, n) == [offset |-> lo, length |-> n]

StartBeyondConsumed(consumed, f) ==
  IF f.offset > consumed THEN 0
  ELSE IF End(f) <= consumed THEN f.length ELSE consumed - f.offset

WalkOver(b, f, start) ==
  IF End(f) <= End(b) THEN f.length
  ELSE IF f.offset < End(b) THEN End(b) - f.offset ELSE start

\* The start of the new data once i blocks were met.  They are in order (BlocksAreInOrder of
\* Streams), so that the last of them decides, unless it lies below the frame as the others do.
StartAfter(blocks, consumed, f, i) ==
  IF i = 0 THEN StartBeyondConsumed(consumed, f)
           ELSE WalkOver(blocks[i], f, StartBeyondConsumed(consumed, f))

\* the number of blocks met
Passed(blocks, consumed, f) ==
  Min({i \in 0..Len(blocks) :
         \/ i = Len(blocks)
         \/ StartAfter(blocks, consumed, f, i) >= f.length
         \/ blocks[i + 1].offset > f.offset + StartAfter(blocks, consumed, f, i)})

KeptLength(blocks, f, start, passed) ==
  IF passed < Len(blocks) /\ blocks[passed + 1].offset < End(f)
    THEN blocks[passed + 1].offset - (f.offset + start)
    ELSE f.length - start

Insert(blocks, f, start, passed) ==
  IF start < f.length /\ KeptLength(blocks, f, start, passed) > 0
    THEN Inserted(blocks, passed + 1, Block(f.offset + start, KeptLength(blocks, f, start, passed)))
    ELSE blocks

queue_network_input(blocks, consumed, f) ==
  LET At(passed) == Insert(blocks, f, StartAfter(blocks, consumed, f, passed), passed)
  IN  At(Passed(blocks, consumed, f))

(***************************************************************************)
(* Delivery, from the lowest block on, until one starts above what was      *)
(* consumed.                                                               *)
(***************************************************************************)
ConsumedAfter(blocks, consumed, i) == IF i = 0 THEN consumed ELSE End(blocks[i])

Contiguous_Strict(blocks, consumed) ==
  Min({i \in 0..Len(blocks) :
         i = Len(blocks) \/ blocks[i + 1].offset >= ConsumedAfter(blocks, consumed, i)})

Contiguous(blocks, consumed) ==
  Min({i \in 0..Len(blocks) :
         i = Len(blocks) \/ blocks[i + 1].offset > ConsumedAfter(blocks, consumed, i)})
-----------------------------------------------------------------------------
(***************************************************************************)
(* What the list is to be: blocks that are disjoint, in order, and not     *)
(* below what was delivered; and the bytes the server has, delivered or    *)
(* not.                                                                    *)
(***************************************************************************)
DataBlocks == [offset : Nat, length : Nat \ {0}]

Ordered(b, c) ==
  /\ b \in Seq(DataBlocks)
  /\ \A i \in 1..Len(b) : b[i].offset >= IF i = 1 THEN c ELSE End(b[i - 1])

HeldBy(b, c) == 0..(c - 1) \cup UNION {Bytes(b[i]) : i \in DOMAIN b}
=============================================================================
