---------------------------- MODULE Plugin_proofs ----------------------------
(***************************************************************************)
(* Proofs about what a plugin runs on: its memory (MemoryPool) and the      *)
(* calls of protocol operations (ProtoopCalls).                            *)
(***************************************************************************)
EXTENDS MemoryPool, ProtoopCalls, SequenceTheorems, FiniteSetTheorems, TLAPS

\* The time the provers are given for a step.
USE SMTT(20), ZenonT(30)

(***************************************************************************)
(* The memory.  The pool of any number of blocks implements the allocator.  *)
(* The invariant names the chain of the free blocks: a sequence c, without  *)
(* repetition, of all the blocks that are not held, that starts at next and *)
(* in which every block leads to the following one, through its header once *)
(* it is initialized and by its position before.  The i-th block of the     *)
(* chain is initialized by the time i - 1 more blocks are handed out.       *)
(***************************************************************************)
Link(b) == IF b >= num_initialized THEN b + 1 ELSE header[b]

IsChain(c) ==
  /\ c \in [1..num_free_blocks -> Blocks]
  /\ \A i, j \in 1..num_free_blocks : c[i] = c[j] => i = j
  /\ \A b \in Blocks : b \notin held <=> \E i \in 1..num_free_blocks : c[i] = b
  /\ num_free_blocks > 0 => next = c[1]
  /\ \A i \in 1..num_free_blocks : i < num_free_blocks => Link(c[i]) = c[i + 1]
  /\ \A i \in 1..num_free_blocks : c[i] <= num_initialized + i - 1

(* The pool of the code is sound in every state: the counters and the chain *)
(* of free blocks agree with what the plugin holds.                         *)
PoolInv ==
  /\ num_initialized \in 0..num_of_blocks
  /\ num_free_blocks \in Nat
  /\ DOMAIN header = Blocks
  /\ held \subseteq Blocks
  /\ \A b \in held : b < num_initialized
  /\ num_free_blocks = 0 <=> next = NULL_BLOCK
  /\ \E c \in [1..num_free_blocks -> Blocks] : IsChain(c)

(* init_block_memory_management puts all the blocks in the chain, in order. *)
LEMMA InitChain == init_block_memory_management => PoolInv
<1> SUFFICES ASSUME init_block_memory_management PROVE PoolInv
  OBVIOUS
<1> DEFINE c == [i \in 1..num_free_blocks |-> i - 1]
<1>1. c \in [1..num_free_blocks -> Blocks]
  BY PoolAssumption DEF init_block_memory_management, Blocks
<1>2. IsChain(c)
  <2>1. \A b \in Blocks : b \notin held <=> \E i \in 1..num_free_blocks : c[i] = b
    <3> SUFFICES ASSUME NEW b \in Blocks PROVE \E i \in 1..num_free_blocks : c[i] = b
      BY DEF init_block_memory_management
    <3> b + 1 \in 1..num_free_blocks
      BY PoolAssumption DEF init_block_memory_management, Blocks
    <3> WITNESS b + 1 \in 1..num_free_blocks
    <3> QED BY PoolAssumption DEF init_block_memory_management, Blocks
  <2> QED BY <1>1, <2>1, PoolAssumption DEF init_block_memory_management, IsChain, Link, Blocks
<1> QED BY <1>1, <1>2, PoolAssumption DEF init_block_memory_management, PoolInv, Blocks

(* my_malloc_block takes the first block of the chain off, and the rest is  *)
(* a chain again although one more block was initialized.                   *)
LEMMA TakeFirst ==
  ASSUME PoolInv, num_free_blocks > 0,
         num_initialized' = IF InitializeOne THEN num_initialized + 1 ELSE num_initialized,
         num_free_blocks' = num_free_blocks - 1,
         next' = (IF num_free_blocks > 1 THEN Chained[next] ELSE NULL_BLOCK),
         header' = [Chained EXCEPT ![next] = MAGIC_NUMBER],
         held' = held \cup {next}
  PROVE  PoolInv' /\ next \in Blocks \ held
<1> PICK c \in [1..num_free_blocks -> Blocks] : IsChain(c)
  BY DEF PoolInv
<1> PICK d : d = [i \in 1..(num_free_blocks - 1) |-> c[i + 1]]
  BY Zenon
<1>1. next \in Blocks /\ next = c[1] /\ next \notin held
  BY DEF PoolInv, IsChain
<1>2. next <= num_initialized /\ next < num_initialized'
  <2>1. 1 \in 1..num_free_blocks /\ c[1] <= num_initialized + 1 - 1
    BY DEF PoolInv, IsChain
  <2> QED BY <1>1, <2>1, PoolAssumption DEF PoolInv, InitializeOne, Blocks
<1>3. /\ DOMAIN header' = Blocks
      /\ \A b \in Blocks : b # next => header'[b] = Chained[b]
      /\ \A b \in Blocks : Chained[b] = IF b = num_initialized THEN num_initialized + 1 ELSE header[b]
  <2>1. CASE InitializeOne
    <3>1. Chained = [header EXCEPT ![num_initialized] = num_initialized + 1]
      BY <2>1 DEF Chained
    <3> QED BY <1>1, <3>1 DEF PoolInv
  <2>2. CASE ~InitializeOne
    <3>1. Chained = header /\ num_initialized \notin Blocks
      BY <2>2, PoolAssumption DEF Chained, InitializeOne, PoolInv, Blocks
    <3> QED BY <1>1, <3>1 DEF PoolInv
  <2> QED BY <2>1, <2>2
<1>4. \A b \in Blocks : b # next => Link(b)' = Link(b)
  BY <1>3, PoolAssumption DEF PoolInv, Link, InitializeOne, Blocks
<1>5. Chained[next] = Link(next)
  BY <1>1, <1>2, <1>3 DEF Link, Blocks, PoolInv
<1>6. d \in [1..num_free_blocks' -> Blocks]
  BY DEF PoolInv
<1>7. \A i \in 1..num_free_blocks' : d[i] = c[i + 1] /\ d[i] # next
  BY <1>1 DEF PoolInv, IsChain
<1>8. IsChain(d)'
  <2>1. \A i, j \in 1..num_free_blocks' : d[i] = d[j] => i = j
    BY <1>7 DEF PoolInv, IsChain
  <2>2. \A b \in Blocks : b \notin held' <=> \E i \in 1..num_free_blocks' : d[i] = b
    <3> SUFFICES ASSUME NEW b \in Blocks
                 PROVE  b \notin held' <=> \E i \in 1..num_free_blocks' : d[i] = b
      OBVIOUS
    <3>1. ASSUME b \notin held' PROVE \E i \in 1..num_free_blocks' : d[i] = b
      <4> PICK k \in 1..num_free_blocks : c[k] = b
        BY <3>1 DEF IsChain
      <4> k # 1 /\ k - 1 \in 1..num_free_blocks'
        BY <3>1, <1>1 DEF PoolInv
      <4> WITNESS k - 1 \in 1..num_free_blocks'
      <4> QED BY <1>7 DEF PoolInv
    <3>2. ASSUME NEW i \in 1..num_free_blocks', d[i] = b PROVE b \notin held'
      BY <3>2, <1>7 DEF PoolInv, IsChain
    <3> QED BY <3>1, <3>2
  <2>3. num_free_blocks' > 0 => next' = d[1]
    BY <1>1, <1>5, <1>7 DEF PoolInv, IsChain
  <2>4. \A i \in 1..num_free_blocks' : i < num_free_blocks' => Link(d[i])' = d[i + 1]
    <3> SUFFICES ASSUME NEW i \in 1..num_free_blocks', i < num_free_blocks'
                 PROVE  Link(d[i])' = d[i + 1]
      OBVIOUS
    <3>1. d[i] \in Blocks /\ d[i] = c[i + 1] /\ d[i] # next /\ d[i + 1] = c[i + 2]
      BY <1>6, <1>7 DEF PoolInv
    <3>2. Link(d[i])' = Link(d[i])
      BY <1>4, <3>1
    <3>3. i + 1 \in 1..num_free_blocks /\ i + 1 < num_free_blocks /\ (i + 1) + 1 = i + 2
      BY DEF PoolInv
    <3>4. Link(c[i + 1]) = c[(i + 1) + 1]
      BY <3>3 DEF IsChain
    <3> QED BY <3>1, <3>2, <3>3, <3>4
  <2>5. \A i \in 1..num_free_blocks' : d[i] <= num_initialized' + i - 1
    <3> SUFFICES ASSUME NEW i \in 1..num_free_blocks' PROVE d[i] <= num_initialized' + i - 1
      OBVIOUS
    <3>0. i + 1 \in 1..num_free_blocks /\ i \in Nat
      BY DEF PoolInv
    <3>1. d[i] = c[i + 1] /\ c[i + 1] \in Blocks /\ c[i + 1] <= num_initialized + (i + 1) - 1
      BY <3>0, <1>7 DEF IsChain
    <3> QED BY <3>0, <3>1, PoolAssumption DEF PoolInv, InitializeOne, Blocks
  <2> QED BY <1>6, <2>1, <2>2, <2>3, <2>4, <2>5 DEF IsChain, Blocks
<1>9. num_free_blocks' = 0 <=> next' = NULL_BLOCK
  <2>1. CASE num_free_blocks > 1
    BY <2>1, <1>1, <1>5, PoolAssumption DEF PoolInv, IsChain, Blocks
  <2> QED BY <2>1 DEF PoolInv
<1>10. /\ num_initialized' \in 0..num_of_blocks
       /\ \A b \in held' : b < num_initialized'
  BY <1>2, PoolAssumption DEF PoolInv, InitializeOne, Blocks
<1>11. num_free_blocks' \in Nat /\ held' \subseteq Blocks /\ Blocks' = Blocks
  <2>1. num_free_blocks' \in Nat
    BY DEF PoolInv
  <2>2. held' \subseteq Blocks
    BY <1>1 DEF PoolInv
  <2> QED BY <2>1, <2>2 DEF Blocks
<1>12. \E e \in [1..num_free_blocks' -> Blocks'] : IsChain(e)'
  BY <1>6, <1>8, <1>11
<1> QED BY <1>1, <1>3, <1>9, <1>10, <1>11, <1>12 DEF PoolInv

(* my_malloc_block without a free block initializes nothing: by then all    *)
(* the blocks have been handed out once.                                    *)
LEMMA Exhausted ==
  ASSUME PoolInv, num_free_blocks = 0 PROVE Blocks \subseteq held /\ num_initialized = num_of_blocks
<1> PICK c \in [1..num_free_blocks -> Blocks] : IsChain(c)
  BY Zenon DEF PoolInv
<1>1. Blocks \subseteq held
  BY DEF IsChain, PoolInv
<1> QED BY <1>1, PoolAssumption DEF PoolInv, Blocks

(* A block that is freed, by my_free_block or by my_realloc_block, becomes  *)
(* the first of the chain.                                                  *)
LEMMA PutFirst ==
  ASSUME PoolInv, NEW b \in held, Released(b) PROVE PoolInv'
<1> PICK c \in [1..num_free_blocks -> Blocks] : IsChain(c)
  BY DEF PoolInv
<1> PICK d : d = [i \in 1..(num_free_blocks + 1) |-> IF i = 1 THEN b ELSE c[i - 1]]
  BY Zenon
<1>1. b \in Blocks /\ b < num_initialized /\ num_free_blocks' = num_free_blocks + 1
  BY DEF PoolInv, Released
<1>2. d \in [1..num_free_blocks' -> Blocks]
  BY <1>1 DEF PoolInv
<1>3. \A i \in 1..num_free_blocks : c[i] \in Blocks /\ c[i] # b
  BY <1>1 DEF IsChain
<1>4. /\ d[1] = b
      /\ \A i \in 1..num_free_blocks : d[i + 1] = c[i]
      /\ \A i \in 1..num_free_blocks' : i # 1 => i - 1 \in 1..num_free_blocks /\ d[i] = c[i - 1]
  BY <1>1 DEF PoolInv
<1>5. \A x \in Blocks : x # b => Link(x)' = Link(x)
  BY <1>1 DEF Link, Released, PoolInv
<1>6. num_free_blocks > 0 => Link(b)' = c[1]
  <2> SUFFICES ASSUME num_free_blocks > 0 PROVE Link(b)' = c[1]
    OBVIOUS
  <2>1. LinkTo = next /\ next = c[1]
    BY DEF LinkTo, PoolInv, IsChain
  <2>2. header'[b] = LinkTo /\ num_initialized' = num_initialized
    BY <1>1 DEF Released, PoolInv
  <2> QED BY <1>1, <2>1, <2>2 DEF Link, PoolInv, Blocks
<1>7. IsChain(d)'
  <2>1. \A i, j \in 1..num_free_blocks' : d[i] = d[j] => i = j
    <3> SUFFICES ASSUME NEW i \in 1..num_free_blocks', NEW j \in 1..num_free_blocks', d[i] = d[j]
                 PROVE  i = j
      OBVIOUS
    <3>1. CASE i # 1 /\ j # 1
      <4>1. c[i - 1] = c[j - 1] => i - 1 = j - 1
        BY Zenon, <3>1, <1>4 DEF IsChain
      <4> QED BY <3>1, <4>1, <1>1, <1>4 DEF PoolInv
    <3>2. CASE i = 1 /\ j # 1
      <4>1. j - 1 \in 1..num_free_blocks /\ d[j] = c[j - 1]
        BY <3>2, <1>4
      <4> QED BY <3>2, <4>1, <1>3, <1>4
    <3>3. CASE i # 1 /\ j = 1
      <4>1. i - 1 \in 1..num_free_blocks /\ d[i] = c[i - 1]
        BY <3>3, <1>4
      <4> QED BY <3>3, <4>1, <1>3, <1>4
    <3> QED BY <3>1, <3>2, <3>3
  <2>2. \A x \in Blocks : x \notin held' <=> \E i \in 1..num_free_blocks' : d[i] = x
    <3> SUFFICES ASSUME NEW x \in Blocks
                 PROVE  x \notin held' <=> \E i \in 1..num_free_blocks' : d[i] = x
      OBVIOUS
    <3>0. held' = held \ {b}
      BY DEF Released
    <3>1. ASSUME x \notin held' PROVE \E i \in 1..num_free_blocks' : d[i] = x
      <4>1. CASE x = b
        <5> 1 \in 1..num_free_blocks'
          BY <1>1 DEF PoolInv
        <5> WITNESS 1 \in 1..num_free_blocks'
        <5> QED BY <4>1, <1>4
      <4>2. CASE x # b
        <5> PICK k \in 1..num_free_blocks : c[k] = x
          BY <4>2, <3>0, <3>1 DEF IsChain
        <5> k + 1 \in 1..num_free_blocks'
          BY <1>1 DEF PoolInv
        <5> WITNESS k + 1 \in 1..num_free_blocks'
        <5> QED BY <1>4
      <4> QED BY <4>1, <4>2
    <3>2. ASSUME NEW i \in 1..num_free_blocks', d[i] = x PROVE x \notin held'
      <4>1. CASE i = 1
        BY <4>1, <3>0, <3>2, <1>4
      <4>2. CASE i # 1
        <5>1. i - 1 \in 1..num_free_blocks /\ c[i - 1] = x
          BY Zenon, <4>2, <3>2, <1>4
        <5> QED BY <5>1, <3>0 DEF IsChain
      <4> QED BY <4>1, <4>2
    <3> QED BY <3>1, <3>2
  <2>3. num_free_blocks' > 0 => next' = d[1]
    BY <1>4 DEF Released
  <2>4. \A i \in 1..num_free_blocks' : i < num_free_blocks' => Link(d[i])' = d[i + 1]
    <3> SUFFICES ASSUME NEW i \in 1..num_free_blocks', i < num_free_blocks'
                 PROVE  Link(d[i])' = d[i + 1]
      BY Zenon
    <3>0. i \in 1..num_free_blocks /\ d[i + 1] = c[i]
      BY <1>1, <1>4 DEF PoolInv
    <3>1. CASE i = 1
      BY <3>0, <3>1, <1>4, <1>6 DEF PoolInv
    <3>2. CASE i # 1
      <4>1. i - 1 \in 1..num_free_blocks /\ d[i] = c[i - 1] /\ d[i] \in Blocks /\ d[i] # b
        BY <3>2, <1>3, <1>4
      <4>2. Link(d[i])' = Link(d[i])
        BY <4>1, <1>5
      <4>3. Link(c[i - 1]) = c[(i - 1) + 1]
        BY <3>0, <4>1 DEF IsChain, PoolInv
      <4> QED BY <3>0, <4>1, <4>2, <4>3
    <3> QED BY <3>1, <3>2
  <2>5. \A i \in 1..num_free_blocks' : d[i] <= num_initialized' + i - 1
    <3> SUFFICES ASSUME NEW i \in 1..num_free_blocks' PROVE d[i] <= num_initialized' + i - 1
      OBVIOUS
    <3>1. CASE i = 1
      BY <3>1, <1>1, <1>4 DEF Released, PoolInv, Blocks
    <3>2. CASE i # 1
      <4>1. i - 1 \in 1..num_free_blocks /\ d[i] = c[i - 1] /\ c[i - 1] <= num_initialized + (i - 1) - 1
        BY <3>2, <1>4 DEF IsChain
      <4> QED BY <4>1, <1>3 DEF Released, PoolInv, Blocks
    <3> QED BY <3>1, <3>2
  <2> QED BY Zenon, <1>2, <2>1, <2>2, <2>3, <2>4, <2>5 DEF IsChain, Blocks
<1>8. next' # NULL_BLOCK /\ num_free_blocks' # 0 /\ num_free_blocks' \in Nat
  BY <1>1, PoolAssumption DEF Released, PoolInv, Blocks
<1>9. /\ DOMAIN header' = Blocks
      /\ num_initialized' = num_initialized
      /\ held' \subseteq held
  BY DEF Released, PoolInv
<1> QED BY Zenon, <1>1, <1>2, <1>7, <1>8, <1>9 DEF PoolInv, Blocks

(* A call that changes nothing of the pool, such as one for too large a     *)
(* block, preserves the invariant.                                          *)
LEMMA NothingMoved ==
  ASSUME PoolInv, UNCHANGED <<num_initialized, num_free_blocks, next, header, held>> PROVE PoolInv'
<1> PICK c \in [1..num_free_blocks -> Blocks] : IsChain(c)
  BY DEF PoolInv
<1>1. IsChain(c)'
  BY DEF IsChain, Link, Blocks
<1> QED BY <1>1 DEF PoolInv, Blocks

(* Every call preserves the invariant. *)
LEMMA StepChain == PoolInv /\ [PoolNext]_pool_vars => PoolInv'
<1> SUFFICES ASSUME PoolInv, [PoolNext]_pool_vars PROVE PoolInv'
  OBVIOUS
<1>1. ASSUME NEW size \in Sizes, my_malloc_block(size) PROVE PoolInv'
  <2>1. CASE TooLarge(size)
    BY <1>1, <2>1, NothingMoved DEF my_malloc_block, pool
  <2>2. CASE ~TooLarge(size) /\ num_free_blocks > 0
    BY <1>1, <2>2, TakeFirst DEF my_malloc_block
  <2>3. CASE ~TooLarge(size) /\ num_free_blocks = 0
    <3>1. num_initialized = num_of_blocks /\ ~InitializeOne
      BY <2>3, Exhausted, PoolAssumption DEF InitializeOne
    <3>2. UNCHANGED <<num_initialized, num_free_blocks, next, header, held>>
      BY <1>1, <2>3, <3>1 DEF my_malloc_block, Chained
    <3> QED BY <3>2, NothingMoved
  <2> QED BY <2>1, <2>2, <2>3 DEF PoolInv
<1>2. ASSUME NEW b \in held, my_free_block(b) PROVE PoolInv'
  BY <1>2, PutFirst DEF my_free_block
<1>3. ASSUME NEW b \in held, NEW size \in Sizes, my_realloc_block(b, size) PROVE PoolInv'
  <2>1. CASE TooLarge(size)
    BY <1>3, <2>1, PutFirst DEF my_realloc_block
  <2>2. CASE ~TooLarge(size)
    BY <1>3, <2>2, NothingMoved DEF my_realloc_block, pool
  <2> QED BY <2>1, <2>2
<1>4. CASE UNCHANGED pool_vars
  BY <1>4, NothingMoved DEF pool_vars
<1> QED BY <1>1, <1>2, <1>3, <1>4 DEF PoolNext

(* Whatever the number of blocks and the order of the calls, the chain of   *)
(* free blocks of my_malloc_block and my_free_block is intact.              *)
THEOREM PoolIsSound == PoolSpec => []PoolInv
BY InitChain, StepChain, PTL DEF PoolSpec

(* The code's pool implements the allocator a plugin expects: each step of  *)
(* my_malloc_block, my_free_block and my_realloc_block is one of its steps. *)
THEOREM PoolImplementsAllocator == PoolSpec => PoolIsAnAllocator
<1>1. init_block_memory_management => Allocator!AInit
  BY DEF init_block_memory_management, Allocator!AInit
<1>2. PoolInv /\ [PoolNext]_pool_vars => [Allocator!ANext]_(Allocator!avars)
  <2> SUFFICES ASSUME PoolInv, PoolNext PROVE Allocator!ANext
    BY DEF pool_vars, Allocator!avars
  <2>1. ASSUME NEW size \in Sizes, my_malloc_block(size) PROVE Allocator!ANext
    <3>0. asked' = size /\ (TooLarge(size) <=> asked' > size_of_each_block - 8) /\ size \in Nat
      BY <2>1, PoolAssumption DEF my_malloc_block, TooLarge
    <3>1. CASE TooLarge(size)
      BY <2>1, <3>0, <3>1 DEF my_malloc_block, Allocator!ANext, Allocator!Malloc
    <3>2. CASE ~TooLarge(size) /\ num_free_blocks > 0
      <4>1. next \in Blocks \ held
        BY <2>1, <3>2, TakeFirst DEF my_malloc_block
      <4>2. held' = held \cup {next} /\ returned' = next
        BY <2>1, <3>2 DEF my_malloc_block
      <4>3. asked' <= size_of_each_block - 8
        BY <3>0, <3>2, PoolAssumption
      <4> QED BY <4>1, <4>2, <4>3 DEF Allocator!ANext, Allocator!Malloc
    <3>3. CASE ~TooLarge(size) /\ num_free_blocks = 0
      <4>1. Blocks \subseteq held
        BY <3>3, Exhausted
      <4> QED BY <2>1, <3>3, <4>1 DEF my_malloc_block, Allocator!ANext, Allocator!Malloc
    <3> QED BY <3>1, <3>2, <3>3 DEF PoolInv
  <2>2. ASSUME NEW b \in held, my_free_block(b) PROVE Allocator!ANext
    BY <2>2 DEF my_free_block, Released, Allocator!ANext, Allocator!Free
  <2>3. ASSUME NEW b \in held, NEW size \in Sizes, my_realloc_block(b, size) PROVE Allocator!ANext
    <3>0. asked' = size /\ (TooLarge(size) <=> asked' > size_of_each_block - 8)
          /\ (~TooLarge(size) => asked' <= size_of_each_block - 8)
      BY <2>3, PoolAssumption DEF my_realloc_block, TooLarge
    <3>1. CASE TooLarge(size)
      BY <2>3, <3>0, <3>1 DEF my_realloc_block, Released, Allocator!ANext, Allocator!Realloc
    <3>2. CASE ~TooLarge(size)
      BY <2>3, <3>0, <3>2 DEF my_realloc_block, Allocator!ANext, Allocator!Realloc
    <3> QED BY <3>1, <3>2
  <2> QED BY <2>1, <2>2, <2>3 DEF PoolNext
<1> QED BY <1>1, <1>2, PoolIsSound, PTL DEF PoolSpec, PoolIsAnAllocator, Allocator!ASpec
-----------------------------------------------------------------------------
(***************************************************************************)
(* The calls of protocol operations.  What holds of the context at every    *)
(* moment, so that it can be put back: the arrays keep their size and the   *)
(* counts stay within it.                                                  *)
(***************************************************************************)
Argv == [1..PROTOOPARGS_MAX -> Values]

Counted(c) ==
  /\ c.inputv \in Argv /\ c.outputv \in Argv
  /\ c.inputc \in 0..PROTOOPARGS_MAX /\ c.outputc \in 0..PROTOOPARGS_MAX

Context(c) ==
  /\ DOMAIN c = {"plugin", "protoop", "anchor", "inputv", "inputc", "outputv", "outputc",
                 "output", "previous"}
  /\ Counted(c)

Stages == {"pre", "main", "post"}

(***************************************************************************)
(* What is kept of a call on the stack: what its caller sees is what its    *)
(* caller saved.                                                           *)
(***************************************************************************)
KeptFor(e) ==
  /\ {"stage", "replace_plugin"} \subseteq DOMAIN e /\ e.stage.anchor \in Stages
  /\ Counted(e.saved)
  /\ e.view = View(e.saved)

(***************************************************************************)
(* The plugin of a call whose operation was replaced: its call variable has *)
(* it once the replacing pluglet is through; before, while that pluglet     *)
(* runs, the context has it, or the call it is in the middle of will put it *)
(* back.                                                                    *)
(***************************************************************************)
PluginAt(i, st, c) == IF i = Len(st) THEN c.plugin ELSE st[i + 1].saved.plugin

Notes(e, p) ==
  /\ e.stage.anchor \in {"pre", "main"} => e.replace_plugin = None
  /\ e.stage.anchor = "main" /\ Ops[e.op].replace # None => p = Ops[e.op].replace
  /\ e.stage.anchor = "post" => e.replace_plugin = Ops[e.op].replace

CallInv ==
  /\ Context(cnx)
  /\ \E S : stack \in Seq(S)
  /\ \A i \in 1..Len(stack) : KeptFor(stack[i])
  /\ \A i \in 1..Len(stack) : Notes(stack[i], PluginAt(i, stack, cnx))
  /\ \A i, j \in 1..Len(stack) : stack[i].op = stack[j].op => i = j
  /\ RunningIsTheStack
  /\ PreviousPluginRan

(***************************************************************************)
(* protoop_inputv and protoop_outputv are copied up to the count that goes  *)
(* with them.                                                               *)
(***************************************************************************)
LEMMA CopyIsWhole ==
  ASSUME NEW dst \in Argv, NEW src \in Argv, NEW n \in 0..PROTOOPARGS_MAX
  PROVE  /\ Copy(dst, src, n) \in Argv
         /\ SubSeq(Copy(dst, src, n), 1, n) = SubSeq(src, 1, n)
<1>1. Copy(dst, src, n) \in Argv
  BY CallsAssumption DEF Copy, Argv
<1>2. \A i \in 1..n : Copy(dst, src, n)[i] = src[i]
  BY CallsAssumption DEF Copy, Argv
<1> DEFINE a == Copy(dst, src, n)
<1>3. a \in Seq(Values) /\ src \in Seq(Values) /\ Len(a) = PROTOOPARGS_MAX /\ Len(src) = PROTOOPARGS_MAX
  BY <1>1, CallsAssumption DEF Argv
<1> HIDE DEF a
<1>4. /\ SubSeq(a, 1, n) \in Seq(Values) /\ Len(SubSeq(a, 1, n)) = n
      /\ SubSeq(src, 1, n) \in Seq(Values) /\ Len(SubSeq(src, 1, n)) = n
      /\ \A i \in 1..n : SubSeq(a, 1, n)[i] = a[i] /\ SubSeq(src, 1, n)[i] = src[i]
  BY <1>3, CallsAssumption, SubSeqProperties
<1>5. \A i \in 1..n : SubSeq(a, 1, n)[i] = SubSeq(src, 1, n)[i]
  BY <1>2, <1>4 DEF a
<1>6. SubSeq(a, 1, n) = SubSeq(src, 1, n)
  BY <1>4, <1>5, SeqEqual
<1> QED BY <1>1, <1>6 DEF a

(***************************************************************************)
(* An operation goes through its observers and itself, and is then done.    *)
(***************************************************************************)
LEMMA StagesFollow ==
  ASSUME NEW o, NEW s, s.anchor \in Stages \cup {"start"}
  PROVE  Following(o, s).anchor \in Stages \cup {"done"}
BY DEF Following, FirstPost, Stages

(***************************************************************************)
(* Neither the start nor the end of a pluglet touches the arrays.           *)
(***************************************************************************)
LEMMA EnterKeepsContext ==
  ASSUME NEW c, Context(c), NEW o, NEW s, s.anchor \in Stages
  PROVE  Context(Enter(c, o, s))
BY DEF Enter, Context, Counted, Stages

LEMMA LeaveKeepsContext ==
  ASSUME NEW c, Context(c), NEW o, NEW s, NEW v
  PROVE  Context(Leave(c, o, s, v))
BY DEF Leave, Context, Counted

(***************************************************************************)
(* The pluglet that replaces the operation runs in the context of its       *)
(* plugin, and the call notes that plugin when the pluglet is through.      *)
(***************************************************************************)
LEMMA EnterNotes ==
  ASSUME NEW c, Context(c), NEW o, NEW s, s.anchor = "main", o.replace # None
  PROVE  Enter(c, o, s).plugin = o.replace
BY Zenon DEF Enter, Context

LEMMA StagesAreNoted ==
  ASSUME NEW e, NEW c, KeptFor(e), Notes(e, c.plugin)
  PROVE  LET o == Ops[e.op]
             ran == replace_plugin(c, o, e)
             nxt == Following(o, e.stage).anchor
         IN /\ nxt \in {"pre", "main"} => ran = None
            /\ nxt \in {"post", "done"} => ran = o.replace
BY DEF KeptFor, Notes, replace_plugin, Following, FirstPost, Stages

LEMMA PluginOfTop ==
  ASSUME NEW st, NEW c
  PROVE  PluginAt(Len(st), st, c) = c.plugin
BY Zenon DEF PluginAt

LEMMA PluginOfCaller ==
  ASSUME NEW st, NEW c, NEW i, i # Len(st)
  PROVE  PluginAt(i, st, c) = st[i + 1].saved.plugin
BY Zenon DEF PluginAt

(***************************************************************************)
(* After the last stage the caller's arguments, outputs, plugin, operation  *)
(* and anchor are back, and the plugin that replaced the operation is       *)
(* noted.                                                                   *)
(***************************************************************************)
LEMMA RestoreGivesBack ==
  ASSUME NEW c, Context(c), NEW ran, NEW s, Counted(s)
  PROVE  /\ Context(Restore(c, ran, s)) /\ View(Restore(c, ran, s)) = View(s)
         /\ Restore(c, ran, s).previous = ran /\ Restore(c, ran, s).plugin = s.plugin
<1> DEFINE r == Restore(c, ran, s)
<1>1. /\ DOMAIN r = DOMAIN c
      /\ r.inputv = Copy(c.inputv, s.inputv, s.inputc) /\ r.inputc = s.inputc
      /\ r.outputv = Copy(c.outputv, s.outputv, s.outputc) /\ r.outputc = s.outputc
      /\ r.plugin = s.plugin /\ r.protoop = s.protoop /\ r.anchor = s.anchor
      /\ r.previous = ran
  BY Zenon DEF Restore, Context
<1> HIDE DEF r
<1>2. /\ r.inputv \in Argv /\ SubSeq(r.inputv, 1, r.inputc) = SubSeq(s.inputv, 1, s.inputc)
      /\ r.outputv \in Argv /\ SubSeq(r.outputv, 1, r.outputc) = SubSeq(s.outputv, 1, s.outputc)
  <2>1. /\ c.inputv \in Argv /\ s.inputv \in Argv /\ s.inputc \in 0..PROTOOPARGS_MAX
        /\ c.outputv \in Argv /\ s.outputv \in Argv /\ s.outputc \in 0..PROTOOPARGS_MAX
    BY DEF Context, Counted
  <2>2. /\ Copy(c.inputv, s.inputv, s.inputc) \in Argv
        /\ SubSeq(Copy(c.inputv, s.inputv, s.inputc), 1, s.inputc) = SubSeq(s.inputv, 1, s.inputc)
    BY <2>1, CopyIsWhole, Zenon
  <2>3. /\ Copy(c.outputv, s.outputv, s.outputc) \in Argv
        /\ SubSeq(Copy(c.outputv, s.outputv, s.outputc), 1, s.outputc) = SubSeq(s.outputv, 1, s.outputc)
    BY <2>1, CopyIsWhole, Zenon
  <2> QED BY Zenon, <1>1, <2>2, <2>3
<1>3. Context(r)
  BY <1>1, <1>2 DEF Context, Counted
<1>4. View(r) = View(s)
  BY Zenon, <1>1, <1>2 DEF View
<1> QED BY <1>1, <1>3, <1>4 DEF r

(***************************************************************************)
(* Before the first call nothing runs.                                      *)
(***************************************************************************)
LEMMA InitCalls == CallInit => CallInv
<1> SUFFICES ASSUME CallInit PROVE CallInv
  OBVIOUS
<1>1. Blank \in Argv
  BY CallsAssumption DEF Blank, Argv
<1>2. Context(cnx)
  BY <1>1, CallsAssumption DEF CallInit, Context, Counted
<1>3. stack = <<>> /\ running = {} /\ results.plugin = results.ran
  BY DEF CallInit
<1>4. stack \in Seq({}) /\ Len(stack) = 0
  BY <1>3
<1>5. RunningIsTheStack
  <2>1. Cardinality(running) = 0
    BY <1>3, FS_EmptySet
  <2>2. {stack[i].op : i \in DOMAIN stack} = {}
    BY <1>3
  <2> QED BY <1>3, <1>4, <2>1, <2>2 DEF RunningIsTheStack
<1> QED BY <1>2, <1>3, <1>4, <1>5 DEF CallInv, PreviousPluginRan

(***************************************************************************)
(* The operations that run are finitely many.                               *)
(***************************************************************************)
LEMMA StackIsFinite ==
  ASSUME RunningIsTheStack, NEW S, stack \in Seq(S)
  PROVE  IsFiniteSet(running)
<1>1. DOMAIN stack = 1..Len(stack) /\ Len(stack) \in Nat
  OBVIOUS
<1>2. IsFiniteSet(1..Len(stack))
  BY <1>1, FS_Interval
<1>3. running = {stack[i].op : i \in 1..Len(stack)}
  BY <1>1 DEF RunningIsTheStack
<1> DEFINE f == [i \in 1..Len(stack) |-> stack[i].op]
<1>4. f \in Surjection(1..Len(stack), running)
  BY <1>3 DEF Surjection
<1> QED BY <1>2, <1>4, FS_Surjection

(***************************************************************************)
(* A call saves what its caller sees and adds its operation to the ones     *)
(* that run.                                                                *)
(***************************************************************************)
LEMMA CallKeeps ==
  ASSUME CallInv, NEW k, NEW args \in Arguments, NEW intern, run_protoop(k, args, intern)
  PROVE  CallInv' /\ (Len(stack') < Len(stack) => FALSE)
<1> DEFINE called == [cnx EXCEPT !.inputv = Copy(@, args, Len(args)), !.inputc = Len(args),
                                 !.outputc = 0]
           r == Resolve(k)
           o == Ops[r]
           first == Following(o, [anchor |-> "start", i |-> 0])
           e == [op |-> r, stage |-> first, replace_plugin |-> None, saved |-> Saved(cnx), view |-> View(cnx),
                 output |-> cnx.output]
<1>1. PICK S : stack \in Seq(S)
  BY DEF CallInv
<1>2. CASE UNCHANGED <<cnx, running, stack, results>>
  BY <1>1, <1>2 DEF CallInv, RunningIsTheStack, PreviousPluginRan, PluginAt
<1>3. CASE ~ UNCHANGED <<cnx, running, stack, results>>
  <2>1. /\ r \notin running /\ running' = running \cup {r}
        /\ cnx' = Enter([called EXCEPT !.protoop = r[1]], o, first)
        /\ stack' = Append(stack, e)
        /\ results' = results /\ first.anchor \notin {"done", "post"}
        /\ Len(args) <= PROTOOPARGS_MAX
    <3>0. Len(args) <= PROTOOPARGS_MAX
      <4>1. Len(args) \in Nat
        BY CallsAssumption DEF Arguments
      <4>2. ~ (Len(args) > PROTOOPARGS_MAX)
        BY <1>3 DEF run_protoop
      <4> QED BY <4>1, <4>2, CallsAssumption
    <3>1. r \notin running /\ running' = running \cup {r}
        /\ cnx' = Enter([called EXCEPT !.protoop = r[1]], o, first)
        /\ stack' = Append(stack, e)
        /\ results' = results
      BY <1>3 DEF run_protoop, Exit, Loops
    <3>2. first.anchor \notin {"done", "post"}
      BY DEF Following
    <3> QED BY <3>0, <3>1, <3>2
  <2>2. first.anchor \in Stages
    BY <2>1, StagesFollow DEF Stages
  <2>3. Context([called EXCEPT !.protoop = r[1]])
    <3>1. Len(args) \in 0..PROTOOPARGS_MAX /\ args \in [1..Len(args) -> Values]
      BY <2>1, CallsAssumption DEF Arguments
    <3>2. Context(cnx)
      BY DEF CallInv
    <3>3. Copy(cnx.inputv, args, Len(args)) \in Argv
      BY <3>1, <3>2, CallsAssumption DEF Copy, Argv, Context, Counted
    <3>4. 0 \in 0..PROTOOPARGS_MAX
      BY CallsAssumption
    <3> QED BY <3>1, <3>2, <3>3, <3>4 DEF Context, Counted
  <2>4. Context(cnx')
    <3> HIDE DEF called, o, first
    <3> QED BY <2>1, <2>2, <2>3, EnterKeepsContext
  <2>5. KeptFor(e)
    <3>1. Counted(Saved(cnx)) /\ View(cnx) = View(Saved(cnx))
      BY DEF CallInv, Context, Counted, Saved, View
    <3> HIDE DEF first
    <3> QED BY <2>2, <3>1 DEF KeptFor
  <2>6. e.op = r /\ e.saved.plugin = cnx.plugin
    BY DEF Saved
  <2>14. Notes(e, cnx'.plugin)
    <3>1. first.anchor = "main" /\ o.replace # None => cnx'.plugin = o.replace
      <4> HIDE DEF called, o, first
      <4> QED BY Zenon, <2>1, <2>3, EnterNotes
    <3> HIDE DEF first
    <3> QED BY <2>1, <3>1 DEF Notes
  <2> HIDE DEF e, called, first, o
  <2>7. /\ stack' \in Seq(S \cup {e}) /\ Len(stack') = Len(stack) + 1 /\ Len(stack) \in Nat
        /\ \A i \in 1..Len(stack) : stack'[i] = stack[i]
        /\ stack'[Len(stack) + 1] = e
        /\ DOMAIN stack' = 1..Len(stack') /\ DOMAIN stack = 1..Len(stack)
    BY <1>1, <2>1
  <2>8. \A i \in 1..Len(stack') : i \in 1..Len(stack) \/ i = Len(stack) + 1
    BY <2>7
  <2>9. \A i \in 1..Len(stack') : KeptFor(stack'[i])
    BY <2>5, <2>7, <2>8 DEF CallInv
  <2>10. running = {stack[i].op : i \in 1..Len(stack)} /\ Cardinality(running) = Len(stack)
    BY <2>7 DEF CallInv, RunningIsTheStack
  <2>11. \A i, j \in 1..Len(stack') : stack'[i].op = stack'[j].op => i = j
    BY <2>1, <2>6, <2>7, <2>8, <2>10 DEF CallInv
  <2>12. running' = {stack'[i].op : i \in 1..Len(stack')}
    BY <2>1, <2>6, <2>7, <2>8, <2>10
  <2>13. Cardinality(running') = Len(stack')
    <3>1. IsFiniteSet(running)
      BY <1>1, StackIsFinite DEF CallInv
    <3>2. Cardinality(running') = Cardinality(running) + 1
      BY Zenon, <2>1, <3>1, FS_AddElement
    <3> QED BY <2>7, <2>10, <3>2
  <2>15. \A i \in 1..Len(stack') : Notes(stack'[i], PluginAt(i, stack', cnx'))
    <3>1. PluginAt(Len(stack) + 1, stack', cnx') = cnx'.plugin
      BY Zenon, <2>7, PluginOfTop
    <3>2. \A i \in 1..Len(stack) : PluginAt(i, stack', cnx') = PluginAt(i, stack, cnx)
      <4> SUFFICES ASSUME NEW i \in 1..Len(stack)
                   PROVE  PluginAt(i, stack', cnx') = PluginAt(i, stack, cnx)
        OBVIOUS
      <4>1. i # Len(stack') /\ (i = Len(stack) \/ i + 1 \in 1..Len(stack))
        <5>1. Len(stack) \in Nat /\ Len(stack') = Len(stack) + 1
          BY Zenon, <2>7
        <5> QED BY <5>1
      <4>2. PluginAt(i, stack', cnx') = stack'[i + 1].saved.plugin
        BY Zenon, <4>1, PluginOfCaller
      <4>3. CASE i = Len(stack)
        BY Zenon, <2>6, <2>7, <4>2, <4>3, PluginOfTop
      <4>4. CASE i # Len(stack)
        BY Zenon, <2>7, <4>1, <4>2, <4>4, PluginOfCaller
      <4> QED BY <4>3, <4>4
    <3> QED BY Zenon, <2>7, <2>8, <2>14, <3>1, <3>2 DEF CallInv
  <2> QED BY <2>1, <2>4, <2>7, <2>9, <2>11, <2>12, <2>13, <2>15 DEF CallInv, RunningIsTheStack, PreviousPluginRan
<1> QED BY <1>2, <1>3

(***************************************************************************)
(* An output is set within the array.                                       *)
(***************************************************************************)
LEMMA OutputKeeps ==
  ASSUME CallInv, NEW i \in 1..PROTOOPARGS_MAX, NEW v \in Values, set_output(i, v)
  PROVE  CallInv' /\ stack' = stack
<1>1. Context(cnx)
  BY DEF CallInv
<1>2. Context(cnx')
  <2>1. cnx' = [cnx EXCEPT !.outputv[i] = v, !.outputc = IF i = @ + 1 THEN i ELSE @]
    BY DEF set_output
  <2>2. /\ DOMAIN cnx' = DOMAIN cnx /\ cnx'.inputv = cnx.inputv /\ cnx'.inputc = cnx.inputc
        /\ cnx'.outputv = [cnx.outputv EXCEPT ![i] = v]
        /\ cnx'.outputc = IF i = cnx.outputc + 1 THEN i ELSE cnx.outputc
    BY <1>1, <2>1 DEF Context
  <2>3. cnx'.outputv \in Argv /\ cnx'.outputc \in 0..PROTOOPARGS_MAX
    BY <1>1, <2>2, CallsAssumption DEF Context, Counted, Argv
  <2> QED BY <1>1, <2>2, <2>3 DEF Context, Counted
<1>3. cnx'.plugin = cnx.plugin
  BY <1>1 DEF set_output, Context
<1> QED BY <1>2, <1>3 DEF CallInv, set_output, RunningIsTheStack, PreviousPluginRan, PluginAt

(***************************************************************************)
(* A return goes on with the next stage of the operation, or ends the call. *)
(***************************************************************************)
LEMMA ReturnKeeps ==
  ASSUME CallInv, NEW v, return(v)
  PROVE  /\ CallInv'
         /\ Len(stack') < Len(stack) => View(cnx') = Top.view
<1> DEFINE f == Top
           o == Ops[f.op]
           left == Leave(cnx, o, f.stage, v)
           ran == replace_plugin(cnx, o, f)
           nxt == Following(o, f.stage)
           n == Len(stack)
<1>1. PICK S : stack \in Seq(S)
  BY DEF CallInv
<1>2. n \in Nat /\ n >= 1 /\ f = stack[n] /\ DOMAIN stack = 1..n
  BY <1>1 DEF return, Top
<1>3. n \in Nat /\ n >= 1
  BY <1>2
<1>4. KeptFor(f) /\ f.stage.anchor \in Stages
  BY <1>2 DEF CallInv, KeptFor
<1>5. nxt.anchor \in Stages \cup {"done"}
  BY <1>4, StagesFollow
<1>6. Context(left)
  BY LeaveKeepsContext DEF CallInv
<1>10. Notes(f, cnx.plugin)
  <2>1. n \in 1..n
    BY <1>3
  <2>2. Notes(stack[n], PluginAt(n, stack, cnx))
    BY Zenon, <2>1 DEF CallInv
  <2> QED BY Zenon, <1>2, <2>2, PluginOfTop
<1>11. /\ nxt.anchor \in {"pre", "main"} => ran = None
       /\ nxt.anchor \in {"post", "done"} => ran = o.replace
  BY Zenon, <1>4, <1>10, StagesAreNoted
<1>7. CASE UNCHANGED <<cnx, running, stack, results>>
  BY <1>2, <1>7 DEF CallInv, RunningIsTheStack, PreviousPluginRan, PluginAt
<1>8. CASE nxt.anchor # "done" /\ ~ UNCHANGED <<cnx, running, stack, results>>
  <2> DEFINE e == [f EXCEPT !.stage = nxt, !.replace_plugin = ran]
  <2>1. /\ cnx' = Enter(left, o, nxt) /\ stack' = [stack EXCEPT ![n] = e]
        /\ UNCHANGED <<running, results>>
    BY <1>8 DEF return, Exit
  <2>2. stack' = [stack EXCEPT ![n] = e]
    BY <2>1
  <2>3. /\ e.op = f.op /\ e.saved = f.saved /\ e.view = f.view /\ e.stage = nxt /\ e.replace_plugin = ran
        /\ {"stage", "replace_plugin"} \subseteq DOMAIN e
    BY <1>4 DEF KeptFor
  <2>4. Context(cnx')
    <3> HIDE DEF left, nxt, o
    <3> QED BY <1>5, <1>6, <1>8, <2>1, EnterKeepsContext
  <2>5. KeptFor(e)
    <3> HIDE DEF e, nxt
    <3> QED BY <1>4, <1>5, <1>8, <2>3 DEF KeptFor
  <2>13. Notes(e, cnx'.plugin)
    <3>1. nxt.anchor = "main" /\ o.replace # None => cnx'.plugin = o.replace
      <4> HIDE DEF left, nxt, o
      <4> QED BY Zenon, <1>6, <2>1, EnterNotes
    <3> HIDE DEF e, nxt, ran
    <3> QED BY <1>11, <2>3, <3>1 DEF Notes
  <2> HIDE DEF e, f, left, nxt, o, ran
  <2>6. /\ stack' \in Seq(S \cup {e}) /\ Len(stack') = n /\ DOMAIN stack' = 1..n
        /\ stack'[n] = e /\ \A i \in 1..n : i # n => stack'[i] = stack[i]
    BY <1>1, <1>3, <2>2
  <2>7. \A i \in 1..n : stack'[i].op = stack[i].op
    BY Zenon, <1>2, <2>3, <2>6
  <2>8. \A i \in 1..Len(stack') : KeptFor(stack'[i])
    BY Zenon, <2>5, <2>6 DEF CallInv
  <2>9. \A i, j \in 1..Len(stack') : stack'[i].op = stack'[j].op => i = j
    BY Zenon, <2>6, <2>7 DEF CallInv
  <2>10. RunningIsTheStack'
    BY <1>2, <2>1, <2>6, <2>7 DEF CallInv, RunningIsTheStack
  <2>11. PreviousPluginRan'
    BY <2>1 DEF CallInv, PreviousPluginRan
  <2>12. ~ (Len(stack') < Len(stack))
    <3>1. Len(stack') = n
      BY Zenon, <2>6
    <3> QED BY <1>3, <3>1
  <2>14. \A i \in 1..Len(stack') : Notes(stack'[i], PluginAt(i, stack', cnx'))
    <3>1. PluginAt(n, stack', cnx') = cnx'.plugin
      BY Zenon, <2>6, PluginOfTop
    <3>2. \A i \in 1..n : i # n => PluginAt(i, stack', cnx') = PluginAt(i, stack, cnx)
      <4>1. \A i \in 1..n : i # n => i + 1 \in 1..n
        BY <1>3
      <4>2. \A i \in 1..n : stack'[i].saved = stack[i].saved
        BY Zenon, <1>2, <2>3, <2>6
      <4>3. Len(stack') = n
        BY Zenon, <2>6
      <4> SUFFICES ASSUME NEW i \in 1..n, i # n
                   PROVE  PluginAt(i, stack', cnx') = PluginAt(i, stack, cnx)
        BY Zenon
      <4>4. PluginAt(i, stack', cnx') = stack'[i + 1].saved.plugin
        BY Zenon, <4>3, PluginOfCaller
      <4>5. PluginAt(i, stack, cnx) = stack[i + 1].saved.plugin
        BY Zenon, PluginOfCaller
      <4> QED BY Zenon, <4>1, <4>2, <4>4, <4>5
    <3> QED BY Zenon, <2>6, <2>13, <3>1, <3>2 DEF CallInv
  <2> QED BY Zenon, <2>4, <2>6, <2>8, <2>9, <2>10, <2>11, <2>12, <2>14 DEF CallInv
<1>9. CASE nxt.anchor = "done" /\ ~ UNCHANGED <<cnx, running, stack, results>>
  <2>1. /\ cnx' = Restore(left, ran, f.saved) /\ running' = running \ {f.op}
        /\ stack' = SubSeq(stack, 1, Len(stack) - 1)
        /\ results' = [plugin |-> cnx'.previous, ran |-> o.replace]
    BY <1>9 DEF return, Exit
  <2>2. /\ Context(cnx') /\ View(cnx') = View(f.saved) /\ cnx'.previous = o.replace
        /\ cnx'.plugin = f.saved.plugin
    <3>1. ran = o.replace
      BY <1>9, <1>11
    <3> HIDE DEF left, o, f, ran
    <3> QED BY <1>4, <1>6, <2>1, <3>1, RestoreGivesBack DEF KeptFor
  <2>3. View(cnx') = Top.view
    BY <1>4, <2>2 DEF KeptFor
  <2>4. PreviousPluginRan'
    BY <2>1, <2>2 DEF PreviousPluginRan
  <2> HIDE DEF left, o, nxt, ran
  <2>5. /\ stack' \in Seq(S) /\ Len(stack') = n - 1 /\ DOMAIN stack' = 1..(n - 1)
        /\ \A i \in 1..(n - 1) : stack'[i] = stack[i]
    BY <1>1, <1>2, <2>1
  <2>6. \A i \in 1..(n - 1) : i \in 1..n /\ i # n
    BY <1>3
  <2>7. \A i \in 1..Len(stack') : KeptFor(stack'[i])
    BY Zenon, <2>5, <2>6 DEF CallInv
  <2>8. \A i, j \in 1..Len(stack') : stack'[i].op = stack'[j].op => i = j
    BY Zenon, <2>5, <2>6 DEF CallInv
  <2>9. running = {stack[i].op : i \in 1..n} /\ Cardinality(running) = n
    BY <1>2 DEF CallInv, RunningIsTheStack
  <2>10. running' = {stack'[i].op : i \in DOMAIN stack'}
    <3>1. \A i \in 1..n : stack[i].op = f.op => i = n
      <4>1. n \in 1..n /\ f.op = stack[n].op
        BY <1>2
      <4> QED BY <4>1 DEF CallInv
    <3>2. \A i \in 1..n : i # n => i \in 1..(n - 1)
      BY <1>3
    <3> HIDE DEF f, n
    <3>3. running' = running \ {f.op} /\ DOMAIN stack' = 1..(n - 1) /\ n \in 1..n
      BY <1>2, <2>1, <2>5
    <3>4. \A i \in 1..(n - 1) : stack'[i].op \in running \ {f.op}
      BY <2>5, <2>6, <2>9, <3>1
    <3>5. \A x \in running \ {f.op} : \E i \in 1..(n - 1) : x = stack'[i].op
      BY <1>2, <2>5, <2>9, <3>2
    <3> QED BY <3>3, <3>4, <3>5
  <2>11. Cardinality(running') = n - 1
    <3>1. IsFiniteSet(running) /\ f.op \in running
      BY <1>1, <1>2, <2>9, StackIsFinite DEF CallInv
    <3> HIDE DEF f
    <3>2. Cardinality(running \ {f.op}) = Cardinality(running) - 1
      BY <3>1, FS_RemoveElement
    <3> QED BY <2>1, <2>9, <3>2
  <2>12. \A i \in 1..Len(stack') : Notes(stack'[i], PluginAt(i, stack', cnx'))
    <3>1. \A i \in 1..(n - 1) : PluginAt(i, stack', cnx') = PluginAt(i, stack, cnx)
      <4> SUFFICES ASSUME NEW i \in 1..(n - 1)
                   PROVE  PluginAt(i, stack', cnx') = PluginAt(i, stack, cnx)
        OBVIOUS
      <4>1. i # n /\ (i = n - 1 => i + 1 = n) /\ (i # n - 1 => i + 1 \in 1..(n - 1))
        BY <1>3
      <4>2. PluginAt(i, stack, cnx) = stack[i + 1].saved.plugin
        BY Zenon, <4>1, PluginOfCaller
      <4>3. CASE i = n - 1
        <5>1. stack[i + 1] = f
          BY Zenon, <1>2, <4>1, <4>3
        <5>2. PluginAt(i, stack', cnx') = cnx'.plugin
          BY Zenon, <2>5, <4>3, PluginOfTop
        <5> QED BY Zenon, <2>2, <4>2, <5>1, <5>2
      <4>4. CASE i # n - 1
        <5>1. PluginAt(i, stack', cnx') = stack'[i + 1].saved.plugin
          BY Zenon, <2>5, <4>4, PluginOfCaller
        <5>2. stack'[i + 1] = stack[i + 1]
          BY Zenon, <2>5, <4>1, <4>4
        <5> QED BY Zenon, <4>2, <5>1, <5>2
      <4> QED BY <4>3, <4>4
    <3> QED BY Zenon, <2>5, <2>6, <3>1 DEF CallInv
  <2> QED BY <2>2, <2>3, <2>4, <2>5, <2>7, <2>8, <2>10, <2>11, <2>12 DEF CallInv, RunningIsTheStack
<1> QED BY <1>7, <1>8, <1>9

(***************************************************************************)
(* Every step keeps the invariant, and the step that ends a call gives the  *)
(* caller its context back.                                                 *)
(***************************************************************************)
LEMMA StepKeepsCalls ==
  CallInv /\ [CallNext]_call_vars =>
    CallInv' /\ (Len(stack') < Len(stack) => View(cnx') = Top.view)
<1> SUFFICES ASSUME CallInv, [CallNext]_call_vars
             PROVE  CallInv' /\ (Len(stack') < Len(stack) => View(cnx') = Top.view)
  OBVIOUS
<1>1. Len(stack) \in Nat
  BY DEF CallInv
<1>2. ASSUME NEW k \in Calls, NEW a \in Arguments, run_protoop(k, a, TRUE)
      PROVE  CallInv' /\ ~ (Len(stack') < Len(stack))
  BY Zenon, <1>2, CallKeeps
<1>3. ASSUME NEW k \in Calls, run_protoop(k, <<>>, FALSE)
      PROVE  CallInv' /\ ~ (Len(stack') < Len(stack))
  <2>1. <<>> \in Arguments
    <3>1. 0 \in 0..(PROTOOPARGS_MAX + 1) /\ <<>> \in [1..0 -> Values]
      BY CallsAssumption
    <3> QED BY <3>1 DEF Arguments
  <2> QED BY Zenon, <1>3, <2>1, CallKeeps
<1>4. ASSUME NEW i \in 1..PROTOOPARGS_MAX, NEW v \in Values, set_output(i, v)
      PROVE  CallInv' /\ ~ (Len(stack') < Len(stack))
  BY <1>1, <1>4, OutputKeeps
<1>5. ASSUME NEW v \in Values, return(v)
      PROVE  CallInv' /\ (Len(stack') < Len(stack) => View(cnx') = Top.view)
  BY <1>5, ReturnKeeps
<1>6. CASE UNCHANGED call_vars
  BY <1>1, <1>6 DEF call_vars, CallInv, RunningIsTheStack, PreviousPluginRan, PluginAt
<1> QED BY Zenon, <1>2, <1>3, <1>4, <1>5, <1>6 DEF CallNext

(***************************************************************************)
(* For all operations, plugged in any way, and any nesting of their calls,  *)
(* a call gives its caller its context back, notes the plugin that replaced *)
(* the operation, and no operation runs twice at a time.                    *)
(***************************************************************************)
THEOREM CallsStayIsolated == CallSpec => CallsAreIsolated
<1>1. CallInit => CallInv
  BY InitCalls
<1>2. CallInv /\ [CallNext]_call_vars => CallInv'
  BY StepKeepsCalls
<1>3. CallInv /\ [CallNext]_call_vars => [Len(stack') < Len(stack) => View(cnx') = Top.view]_call_vars
  BY StepKeepsCalls
<1>4. CallInv => PreviousPluginRan /\ RunningIsTheStack
  BY DEF CallInv
<1> QED BY <1>1, <1>2, <1>3, <1>4, PTL DEF CallSpec, CallsAreIsolated, CallerIsUndisturbed
=============================================================================
