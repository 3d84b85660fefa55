----------------------------- MODULE MemoryPool -----------------------------
(***************************************************************************)
(* The memory of a plugin with fixed blocks: the free blocks are chained    *)
(* through their first eight bytes, and blocks enter the chain one at each  *)
(* my_malloc, never all at once.  Blocks are numbered from 0; header[b] is  *)
(* the number stored in the first bytes of block b, arbitrary ("?") before  *)
(* it is written.  "held", "asked" and "returned" are the view of the      *)
(* plugin, which only frees what it holds.                                  *)
(***************************************************************************)
EXTENDS Integers, FiniteSets

CONSTANTS
  num_of_blocks,
  size_of_each_block,
  Sizes,          \* the sizes asked for
  MAGIC_NUMBER,
  NULL_BLOCK

ASSUME PoolAssumption ==
  /\ num_of_blocks \in Nat \ {0}
  /\ size_of_each_block \in Nat
  /\ Sizes \subseteq Nat
  /\ NULL_BLOCK \notin 0..num_of_blocks
  /\ MAGIC_NUMBER \notin 0..num_of_blocks

VARIABLES num_initialized, num_free_blocks, next, header, held, asked, returned

pool == <<num_initialized, num_free_blocks, next, header>>
pool_vars == <<num_initialized, num_free_blocks, next, header, held, asked, returned>>

Blocks == 0..(num_of_blocks - 1)

init_block_memory_management ==
  /\ num_initialized = 0
  /\ num_free_blocks = num_of_blocks
  /\ next = 0
  /\ header = [b \in Blocks |-> "?"]
  /\ held = {}
  /\ asked = 0
  /\ returned = NULL_BLOCK

TooLarge_NoHeader(size) == size > size_of_each_block

TooLarge(size) == size > size_of_each_block - 8

InitializeOne == num_initialized < num_of_blocks

Chained == IF InitializeOne THEN [header EXCEPT ![num_initialized] = num_initialized + 1] ELSE header

my_malloc_block(size) ==
  /\ asked' = size
  /\ \/ TooLarge(size) /\ returned' = NULL_BLOCK /\ UNCHANGED <<pool, held>>
     \/ /\ ~TooLarge(size)
        /\ num_initialized' = IF InitializeOne THEN num_initialized + 1 ELSE num_initialized
        /\ IF num_free_blocks > 0
           THEN /\ num_free_blocks' = num_free_blocks - 1
                /\ next' = IF num_free_blocks > 1 THEN Chained[next] ELSE NULL_BLOCK
                /\ header' = [Chained EXCEPT ![next] = MAGIC_NUMBER]
                /\ held' = held \cup {next}
                /\ returned' = next
           ELSE header' = Chained /\ returned' = NULL_BLOCK /\ UNCHANGED <<num_free_blocks, next, held>>

LinkTo == IF next # NULL_BLOCK THEN next ELSE num_of_blocks

Released(b) ==
  /\ header' = [header EXCEPT ![b] = LinkTo]
  /\ next' = b
  /\ num_free_blocks' = num_free_blocks + 1
  /\ held' = held \ {b}
  /\ returned' = NULL_BLOCK
  /\ UNCHANGED num_initialized

my_free_block(b) == b \in held /\ Released(b) /\ UNCHANGED asked

my_realloc_block(b, size) ==
  /\ b \in held
  /\ asked' = size
  /\ \/ TooLarge(size) /\ Released(b)
     \/ ~TooLarge(size) /\ returned' = b /\ UNCHANGED <<pool, held>>

PoolNext ==
  \/ \E size \in Sizes : my_malloc_block(size)
  \/ \E b \in held : my_free_block(b) \/ \E size \in Sizes : my_realloc_block(b, size)

PoolSpec == init_block_memory_management /\ [][PoolNext]_pool_vars

-----------------------------------------------------------------------------
Allocator == INSTANCE BlockAllocator WITH Largest <- size_of_each_block - 8

(* The pool implements an allocator: whatever the order in which blocks are *)
(* freed, my_malloc_block hands out a block nobody holds, and fails only    *)
(* when the plugin holds all of them or asks for more than a block.         *)
PoolIsAnAllocator == Allocator!ASpec
=============================================================================
