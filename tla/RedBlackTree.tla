--------------------------- MODULE RedBlackTree ---------------------------
(***************************************************************************)
(* The left-leaning red-black tree in which the plugins keep what they     *)
(* look up by packet number, symbol identifier or deadline                 *)
(* (picoquic/red_black_tree.c).  A subtree is a value: Null, or a node     *)
(* with its two subtrees; a function that rewrites nodes through pointers  *)
(* returns the subtree it leaves behind.                                   *)
(*                                                                         *)
(* The plugin that keeps a private copy of the tree walks down with an     *)
(* explicit stack instead of recursion (plugins/loss_monitor/              *)
(* red_black_tree.h); the operators named Stack... are that copy.          *)
(***************************************************************************)
EXTENDS Integers, Sequences, SequencesExt, FiniteSets, FiniteSetsExt

CONSTANTS
    Keys,           \* the keys put into the tree
    Values,         \* the values stored under them
    RBT_MAX_DEPTH,  \* the capacity of the explicit stack
    UINT64_MAX      \* the ceiling the stack copy starts from

VARIABLE root       \* red_black_tree_t: the root of the tree

RED   == TRUE
BLACK == FALSE

Null == [null |-> TRUE]

rbt_new_node(key, val, color, size) ==
    [key |-> key, val |-> val, color |-> color, size |-> size,
     left |-> Null, right |-> Null]

is_red(x) == x # Null /\ x.color = RED

rbt_node_size(x) == IF x = Null THEN 0 ELSE x.size

rbt_size(tree) == rbt_node_size(tree)

rbt_is_empty(tree) == tree = Null

(* The size of a node is recomputed from its children.                     *)
Resized(h) ==
    [h EXCEPT !.size = rbt_node_size(h.left) + rbt_node_size(h.right) + 1]

rbt_rotate_right(h) ==
    LET x == h.left
    IN  [x EXCEPT !.right = Resized([h EXCEPT !.left = x.right, !.color = RED]),
                  !.color = h.color,
                  !.size = h.size]

rbt_rotate_left(h) ==
    LET x == h.right
    IN  [x EXCEPT !.left = Resized([h EXCEPT !.right = x.left, !.color = RED]),
                  !.color = h.color,
                  !.size = h.size]

rbt_flip_colors(h) ==
    [h EXCEPT !.color = ~@, !.left.color = ~@, !.right.color = ~@]

rbt_move_red_left(h) ==
    LET f == rbt_flip_colors(h)
    IN  IF is_red(f.right.left)
        THEN rbt_flip_colors(
                 rbt_rotate_left([f EXCEPT !.right = rbt_rotate_right(@)]))
        ELSE f

rbt_move_red_right(h) ==
    LET f == rbt_flip_colors(h)
    IN  IF is_red(f.left.left)
        THEN rbt_flip_colors(rbt_rotate_right(f))
        ELSE f

(* Two reds in a row on the left are rotated; two red children are flipped.*)
RotatedIfSteep(h) ==
    IF is_red(h.left) /\ is_red(h.left.left) THEN rbt_rotate_right(h) ELSE h

FlippedIfBothRed(h) ==
    IF is_red(h.left) /\ is_red(h.right) THEN rbt_flip_colors(h) ELSE h

rbt_balance_NoLean(h) == Resized(FlippedIfBothRed(RotatedIfSteep(h)))

rbt_balance(h) ==
    Resized(FlippedIfBothRed(RotatedIfSteep(
        IF is_red(h.right) THEN rbt_rotate_left(h) ELSE h)))

(* What rbt_node_put does to every node on its way back up.                *)
FixUp(h) ==
    Resized(FlippedIfBothRed(RotatedIfSteep(
        IF is_red(h.right) /\ ~is_red(h.left) THEN rbt_rotate_left(h) ELSE h)))

-----------------------------------------------------------------------------
(* Searching.                                                              *)

RECURSIVE Find(_, _)
Find(x, key) ==
    CASE x = Null     -> Null
      [] key < x.key  -> Find(x.left, key)
      [] key > x.key  -> Find(x.right, key)
      [] OTHER        -> x

rbt_get(tree, key) == Find(tree, key)

rbt_contains(tree, key) == rbt_size(tree) # 0 /\ rbt_get(tree, key) # Null

RECURSIVE rbt_node_min(_)
rbt_node_min(x) == IF x = Null \/ x.left = Null THEN x ELSE rbt_node_min(x.left)

RECURSIVE rbt_node_max(_)
rbt_node_max(x) == IF x = Null \/ x.right = Null THEN x ELSE rbt_node_max(x.right)

(* The smallest key not below the one asked for is that of the last node   *)
(* at which the search went left.                                          *)
RECURSIVE CeilingFrom(_, _, _)
CeilingFrom(x, key, ceil) ==
    CASE x = Null    -> ceil
      [] key = x.key -> x
      [] key > x.key -> CeilingFrom(x.right, key, ceil)
      [] OTHER       -> CeilingFrom(x.left, key, x)

rbt_node_ceiling(x, key) == CeilingFrom(x, key, Null)

-----------------------------------------------------------------------------
(* Updating.  When the plugin's memory holds no further node (~room), the  *)
(* link the new node would have taken stays NULL.                          *)

RECURSIVE rbt_node_put(_, _, _, _)
rbt_node_put(node, key, val, room) ==
    IF node = Null
    THEN IF room THEN rbt_new_node(key, val, RED, 1) ELSE Null
    ELSE FixUp(
           CASE key < node.key ->
                  [node EXCEPT !.left = rbt_node_put(@, key, val, room)]
             [] key > node.key ->
                  [node EXCEPT !.right = rbt_node_put(@, key, val, room)]
             [] OTHER -> [node EXCEPT !.val = val])

Blackened(tree) == IF tree = Null THEN Null ELSE [tree EXCEPT !.color = BLACK]

rbt_put(tree, key, val, room) == Blackened(rbt_node_put(tree, key, val, room))

RECURSIVE rbt_node_delete_and_get_min(_)
rbt_node_delete_and_get_min(node) ==
    IF node = Null \/ node.left = Null
    THEN Null
    ELSE LET n == IF ~is_red(node.left) /\ ~is_red(node.left.left)
                  THEN rbt_move_red_left(node)
                  ELSE node
         IN  rbt_balance([n EXCEPT !.left = rbt_node_delete_and_get_min(@)])

(* The root is red while a deletion goes down, if neither child is.        *)
Reddened(tree) ==
    IF is_red(tree.left) \/ is_red(tree.right) THEN tree
    ELSE [tree EXCEPT !.color = RED]

rbt_delete_and_get_min(tree) ==
    IF rbt_is_empty(tree) THEN tree
    ELSE Blackened(rbt_node_delete_and_get_min(Reddened(tree)))

(* The function for the maximum looks at the root and one level below it;  *)
(* it has no recursive call.                                               *)
rbt_node_delete_and_get_max(node) ==
    LET n == IF is_red(node.left) THEN rbt_rotate_right(node) ELSE node
    IN  IF n.right = Null THEN Null
        ELSE rbt_balance(IF ~is_red(n.right) /\ ~is_red(n.right.left)
                         THEN rbt_move_red_right(n)
                         ELSE n)

rbt_delete_and_get_max(tree) ==
    IF rbt_is_empty(tree) THEN tree
    ELSE Blackened(rbt_node_delete_and_get_max(Reddened(tree)))

RECURSIVE rbt_node_delete(_, _)
rbt_node_delete(node, key) ==
    IF node = Null THEN Null
    ELSE IF key < node.key
    THEN LET n == IF ~is_red(node.left) /\ ~is_red(node.left.left)
                  THEN rbt_move_red_left(node)
                  ELSE node
         IN  rbt_balance([n EXCEPT !.left = rbt_node_delete(@, key)])
    ELSE LET n == IF is_red(node.left) THEN rbt_rotate_right(node) ELSE node
         IN  IF key = n.key /\ n.right = Null THEN Null
             ELSE LET m == IF ~is_red(n.right) /\ ~is_red(n.right.left)
                           THEN rbt_move_red_right(n)
                           ELSE n
                      x == rbt_node_min(m.right)
                  IN  rbt_balance(
                        IF key = m.key
                        THEN [m EXCEPT
                                !.key = x.key,
                                !.val = x.val,
                                !.right = rbt_node_delete_and_get_min(@)]
                        ELSE [m EXCEPT !.right = rbt_node_delete(@, key)])

rbt_delete(tree, key) ==
    IF ~rbt_contains(tree, key) THEN tree
    ELSE Blackened(rbt_node_delete(Reddened(tree), key))

-----------------------------------------------------------------------------
(* The copy with an explicit stack: a path is the sequence of the nodes    *)
(* left behind, each with the side on which the walk left it.              *)

rbt_stack_push(stack, node, right) ==
    IF node = Null \/ Len(stack) = RBT_MAX_DEPTH THEN stack
    ELSE Append(stack, [node |-> node, right |-> right])

WithChild(entry, child) ==
    IF entry.right THEN [entry.node EXCEPT !.right = child]
    ELSE [entry.node EXCEPT !.left = child]

(* The way back up: the last entry is popped first.                        *)
Unwind(current, stack, Fix(_)) ==
    FoldRight(LAMBDA entry, child : Fix(WithChild(entry, child)), stack, current)

RECURSIVE StackPutFrom(_, _, _, _)
StackPutFrom(current, stack, key, val) ==
    IF current = Null
    THEN Unwind(rbt_new_node(key, val, RED, 1), stack, FixUp)
    ELSE IF key = current.key
    THEN Unwind([current EXCEPT !.val = val], stack, FixUp)
    ELSE LET right == key > current.key
         IN  StackPutFrom(IF right THEN current.right ELSE current.left,
                          rbt_stack_push(stack, current, right), key, val)

StackPut(tree, key, val) == Blackened(StackPutFrom(tree, <<>>, key, val))

RECURSIVE StackDeleteMinFrom(_, _)
StackDeleteMinFrom(current, stack) ==
    IF current = Null \/ current.left = Null
    THEN Unwind(Null, stack, rbt_balance)
    ELSE LET n == IF ~is_red(current.left) /\ ~is_red(current.left.left)
                  THEN rbt_move_red_left(current)
                  ELSE current
         IN  StackDeleteMinFrom(n.left, rbt_stack_push(stack, n, FALSE))

StackDeleteMin(tree) == Blackened(StackDeleteMinFrom(Reddened(tree), <<>>))

RECURSIVE StackDeleteMaxFrom(_, _)
StackDeleteMaxFrom(current, stack) ==
    LET n == IF is_red(current.left) THEN rbt_rotate_right(current) ELSE current
    IN  IF n.right = Null
        THEN Unwind(Null, stack, rbt_balance)
        ELSE LET m == IF ~is_red(n.right) /\ ~is_red(n.right.left)
                      THEN rbt_move_red_right(n)
                      ELSE n
             IN  StackDeleteMaxFrom(m.right, rbt_stack_push(stack, m, TRUE))

StackDeleteMax(tree) == Blackened(StackDeleteMaxFrom(Reddened(tree), <<>>))

(* The node that took over its successor is pushed once more, so that its  *)
(* size is adjusted on the way back.                                       *)
AfterSuccessor(stack, d, r) ==
    Unwind(r, rbt_stack_push(stack, d, TRUE), rbt_balance)

RECURSIVE StackDeleteFrom(_, _, _)
StackDeleteFrom(current, stack, key) ==
    IF current = Null THEN Unwind(Null, stack, rbt_balance)
    ELSE IF key < current.key
    THEN LET n == IF ~is_red(current.left) /\ ~is_red(current.left.left)
                  THEN rbt_move_red_left(current)
                  ELSE current
         IN  StackDeleteFrom(n.left, rbt_stack_push(stack, n, FALSE), key)
    ELSE LET n == IF is_red(current.left) THEN rbt_rotate_right(current)
                  ELSE current
         IN  IF key = n.key /\ n.right = Null
             THEN Unwind(Null, stack, rbt_balance)
             ELSE LET m == IF ~is_red(n.right) /\ ~is_red(n.right.left)
                           THEN rbt_move_red_right(n)
                           ELSE n
                      x == rbt_node_min(m.right)
                      r == StackDeleteMinFrom(m.right, <<>>)
                      d == [m EXCEPT !.key = x.key, !.val = x.val, !.right = r]
                  IN  IF key = m.key
                      THEN AfterSuccessor(stack, d, r)
                      ELSE StackDeleteFrom(m.right,
                                           rbt_stack_push(stack, m, TRUE), key)

(* The copy takes a key whose value is NULL for a key it does not hold.    *)
StackContains(tree, key) ==
    LET x == Find(tree, key) IN x # Null /\ x.val # 0

StackDelete(tree, key) ==
    IF ~StackContains(tree, key) THEN tree
    ELSE Blackened(StackDeleteFrom(Reddened(tree), <<>>, key))

RECURSIVE StackCeilingFrom(_, _, _)
StackCeilingFrom(stack, key, best) ==
    IF stack = <<>> THEN best
    ELSE LET x == Last(stack).node
             below == Front(stack)
         IN  IF key = x.key
             THEN [found |-> TRUE, key |-> x.key, val |-> x.val]
             ELSE IF key > x.key
             THEN StackCeilingFrom(rbt_stack_push(below, x.right, TRUE), key, best)
             ELSE StackCeilingFrom(
                    rbt_stack_push(below, x.left, FALSE), key,
                    IF x.key < best.key
                    THEN [found |-> TRUE, key |-> x.key, val |-> x.val]
                    ELSE [best EXCEPT !.found = TRUE])

StackCeiling(tree, key) ==
    StackCeilingFrom(rbt_stack_push(<<>>, tree, FALSE), key,
                     [found |-> FALSE, key |-> UINT64_MAX, val |-> 0])

-----------------------------------------------------------------------------
(* The calls the plugins make.  A first node that does not fit in the      *)
(* plugin's memory makes rbt_put write through a NULL root; that call is   *)
(* left out.  No plugin calls the deletion of the maximum.                 *)

Init == root = Null

Put(key, val, room) ==
    /\ room \/ root # Null
    /\ root' = rbt_put(root, key, val, room)

Delete(key) == root' = rbt_delete(root, key)

DeleteMin == root' = rbt_delete_and_get_min(root)

Next ==
    \/ \E key \in Keys, val \in Values, room \in BOOLEAN : Put(key, val, room)
    \/ \E key \in Keys : Delete(key)
    \/ DeleteMin

Spec == Init /\ [][Next]_root

-----------------------------------------------------------------------------
(* What is expected: the tree is a map from the keys it holds, in order.   *)

RECURSIVE InOrder(_)
InOrder(x) ==
    IF x = Null THEN <<>>
    ELSE InOrder(x.left) \o <<<<x.key, x.val>>>> \o InOrder(x.right)

Contents(x) == ToSet(InOrder(x))

Held(x) == {e[1] : e \in Contents(x)}

Without(map, key) == {e \in map : e[1] # key}

RECURSIVE BlackHeight(_)
BlackHeight(x) ==
    IF x = Null THEN 0
    ELSE LET l == BlackHeight(x.left)
             r == BlackHeight(x.right)
         IN  IF l = -1 \/ l # r THEN -1
             ELSE IF x.color = BLACK THEN l + 1 ELSE l

RECURSIVE Nodes(_)
Nodes(x) == IF x = Null THEN {} ELSE {x} \cup Nodes(x.left) \cup Nodes(x.right)

NodeIsSound(x) ==
    /\ ~is_red(x.right)
    /\ is_red(x) => ~is_red(x.left)
    /\ x.size = Len(InOrder(x))

(* rbt_put, rbt_delete and rbt_delete_and_get_min leave a left-leaning     *)
(* red-black tree after any sequence of calls: black root, no red link to  *)
(* the right, no two red links in a row, the same number of black links on *)
(* every path, every size equal to the nodes below.                        *)
TreeIsBalanced ==
    /\ ~is_red(root)
    /\ \A x \in Nodes(root) : NodeIsSound(x)
    /\ BlackHeight(root) # -1

(* On every tree the calls can build, rbt_put stores exactly one pair,     *)
(* rbt_delete takes out exactly one key, rbt_delete_and_get_min takes out  *)
(* exactly the pair it reports, and a put for which there is no memory     *)
(* loses nothing that was stored.                                          *)
UpdatesAreExact ==
    /\ \A key \in Keys, val \in Values :
         /\ Contents(rbt_put(root, key, val, TRUE)) =
              Without(Contents(root), key) \cup {<<key, val>>}
         /\ key \notin Held(root) =>
              Contents(rbt_put(root, key, val, FALSE)) = Contents(root)
    /\ \A key \in Keys :
         Contents(rbt_delete(root, key)) = Without(Contents(root), key)
    /\ root # Null =>
         Contents(rbt_delete_and_get_min(root)) =
           Without(Contents(root), rbt_node_min(root).key)

(* rbt_get, rbt_min, rbt_max and rbt_ceiling answer for the whole map on   *)
(* every tree the calls can build.                                         *)
LookupsAreExact ==
    /\ \A key \in Keys :
         LET above == {k \in Held(root) : k >= key}
             ceil  == rbt_node_ceiling(root, key)
         IN  /\ rbt_contains(root, key) = (key \in Held(root))
             /\ IF above = {} THEN ceil = Null
                ELSE ceil # Null /\ <<Min(above), ceil.val>> \in Contents(root)
                                /\ ceil.key = Min(above)
    /\ root # Null => /\ rbt_node_min(root).key = Min(Held(root))
                      /\ rbt_node_max(root).key = Max(Held(root))

(* The copy of the tree that keeps its own stack builds the same trees and *)
(* finds the same ceilings as the recursive one, as long as no value is    *)
(* NULL, without outgrowing its stack; and its deletion of the maximum     *)
(* takes out the maximum.                                                  *)
StackCopyAgrees ==
    (\A e \in Contents(root) : e[2] # 0) =>
      /\ \A key \in Keys :
           /\ StackPut(root, key, 1) = rbt_put(root, key, 1, TRUE)
           /\ StackDelete(root, key) = rbt_delete(root, key)
           /\ LET c == rbt_node_ceiling(root, key)
                  s == StackCeiling(root, key)
              IN  IF c = Null THEN ~s.found
                  ELSE s = [found |-> TRUE, key |-> c.key, val |-> c.val]
      /\ root # Null =>
           /\ StackDeleteMin(root) = rbt_delete_and_get_min(root)
           /\ Contents(StackDeleteMax(root)) =
                Without(Contents(root), rbt_node_max(root).key)

(* What red_black_tree.c says of rbt_delete_max: "Removes the largest key  *)
(* and associated value from the symbol table."                            *)
DeleteMaxRemoves ==
    root # Null => Contents(rbt_delete_and_get_max(root)) =
                     Without(Contents(root), Max(Held(root)))

=============================================================================
