--------------------------- MODULE BlockAllocator ---------------------------
(***************************************************************************)
(* What a plugin expects of my_malloc, my_free and my_realloc: a block that *)
(* nobody holds as long as there is one and the request fits in a block,    *)
(* NULL_BLOCK otherwise.                                                   *)
(***************************************************************************)
EXTENDS Integers

CONSTANTS Blocks, Largest, NULL_BLOCK

VARIABLES
  held,      \* the blocks the plugin holds
  asked,     \* the size of the last request
  returned   \* what the last call returned

avars == <<held, asked, returned>>

AInit == held = {} /\ asked = 0 /\ returned = NULL_BLOCK

Malloc ==
  \/ \E b \in Blocks \ held : asked' <= Largest /\ held' = held \cup {b} /\ returned' = b
  \/ (asked' > Largest \/ Blocks \subseteq held) /\ returned' = NULL_BLOCK /\ UNCHANGED held

Free == \E b \in held : held' = held \ {b} /\ returned' = NULL_BLOCK

Realloc ==
  \E b \in held : \/ asked' <= Largest /\ returned' = b /\ UNCHANGED held
                  \/ asked' > Largest /\ returned' = NULL_BLOCK /\ held' = held \ {b}

ANext == Malloc \/ Free \/ Realloc
ASpec == AInit /\ [][ANext]_avars
=============================================================================
