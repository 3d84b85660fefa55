----------------------------- MODULE SplayTree -----------------------------
(***************************************************************************)
(* The splay tree of the transport (picoquic/picosplay.c): every insertion *)
(* and every successful search brings its node to the root by rotations    *)
(* that rewrite three links per edge.  Nodes are numbered cells and every  *)
(* link (parent, left, right) is a pointer, so that an update of one end   *)
(* of a link and not of the other shows.                                   *)
(***************************************************************************)
EXTENDS Integers, Sequences, SequencesExt, FiniteSets, FiniteSetsExt

CONSTANTS
    Values,     \* the values stored, in the order of the comparator
    Cells       \* the nodes malloc can return, numbered from 1

VARIABLE tree   \* picosplay_tree with the nodes it reaches

NULL == 0

Allocated(t) == {n \in Cells : t.value[n] # NULL}

mark_gp(t, child) ==
    LET p     == t.parent[child]
        grand == t.parent[p]
        u     == [t EXCEPT !.parent[child] = grand, !.parent[p] = child]
    IN  IF grand = NULL THEN u
        ELSE IF u.left[grand] = p
             THEN [u EXCEPT !.left[grand] = child]
             ELSE [u EXCEPT !.right[grand] = child]

(* The subtree that changes sides learns of its new parent.                *)
Adopted(t, node, p) == IF node = NULL THEN t ELSE [t EXCEPT !.parent[node] = p]

rotate(t, child) ==
    LET p == t.parent[child]
        u == mark_gp(t, child)
    IN  IF t.left[p] = child
        THEN [Adopted([u EXCEPT !.left[p] = u.right[child]], u.right[child], p)
                EXCEPT !.right[child] = p]
        ELSE [Adopted([u EXCEPT !.right[p] = u.left[child]], u.left[child], p)
                EXCEPT !.left[child] = p]

zig(t, x) == rotate(t, x)

zigzig(t, x, p) == rotate(rotate(t, p), x)

zigzag(t, x) == rotate(rotate(t, x), x)

RECURSIVE splay(_, _)
splay(t, x) ==
    LET p == t.parent[x]
        g == t.parent[p]
    IN  IF p = NULL THEN [t EXCEPT !.root = x]
        ELSE splay(IF g = NULL THEN zig(t, x)
                   ELSE IF (x = t.left[p]) = (p = t.left[g]) THEN zigzig(t, x, p)
                   ELSE zigzag(t, x), x)

(* The place a new value gets: the parent of the empty link it falls to.   *)
RECURSIVE PlaceBelow(_, _, _)
PlaceBelow(t, curr, value) ==
    LET left == value < t.value[curr]
        next == IF left THEN t.left[curr] ELSE t.right[curr]
    IN  IF next = NULL THEN [parent |-> curr, left |-> left]
        ELSE PlaceBelow(t, next, value)

picosplay_insert(t, value) ==
    LET Linked(u, new, at) ==
            IF at.left THEN [u EXCEPT !.parent[new] = at.parent, !.left[at.parent] = new]
            ELSE [u EXCEPT !.parent[new] = at.parent, !.right[at.parent] = new]
        Placed(u, new) ==
            IF t.root = NULL THEN [u EXCEPT !.root = new, !.parent[new] = NULL]
            ELSE Linked(u, new, PlaceBelow(t, t.root, value))
        With(new) == splay(Placed([t EXCEPT !.value[new] = value, !.left[new] = NULL,
                                            !.right[new] = NULL], new), new)
    IN  [With(Min(Cells \ Allocated(t))) EXCEPT !.size = @ + 1]

RECURSIVE FindFrom(_, _, _)
FindFrom(t, curr, value) ==
    CASE curr = NULL            -> NULL
      [] value = t.value[curr]  -> curr
      [] value < t.value[curr]  -> FindFrom(t, t.left[curr], value)
      [] OTHER                  -> FindFrom(t, t.right[curr], value)

picosplay_find(t, value) ==
    LET Found(node) == IF node = NULL THEN t ELSE splay(t, node)
    IN  Found(FindFrom(t, t.root, value))

RECURSIVE leftmost(_, _)
leftmost(t, node) ==
    IF node = NULL \/ t.left[node] = NULL THEN node ELSE leftmost(t, t.left[node])

RECURSIVE rightmost(_, _)
rightmost(t, node) ==
    IF node = NULL \/ t.right[node] = NULL THEN node
    ELSE rightmost(t, t.right[node])

(* The successor of the root leaves its place to its right subtree, unless *)
(* it is the root's own child.                                             *)
Detached(t, x, node) ==
    IF t.parent[x] = node THEN t
    ELSE LET u == Adopted([t EXCEPT !.left[t.parent[x]] = t.right[x]],
                          t.right[x], t.parent[x])
         IN  [u EXCEPT !.right[x] = t.right[node], !.parent[t.right[node]] = x]

Joined(d, x, node) ==
    [d EXCEPT !.root = x, !.parent[x] = NULL, !.left[x] = d.left[node], !.parent[d.left[node]] = x]

\* The node is at the root: its subtrees become one tree.
Unlinked(s, node) ==
    LET Replaced(x) == Joined(Detached(s, x, node), x, node)
    IN  IF s.left[node] = NULL THEN Adopted([s EXCEPT !.root = s.right[node]], s.right[node], NULL)
        ELSE IF s.right[node] = NULL
        THEN [s EXCEPT !.root = s.left[node], !.parent[s.left[node]] = NULL]
        ELSE Replaced(leftmost(s, s.right[node]))

picosplay_delete_hint(t, node) ==
    IF node = NULL THEN t
    ELSE [Unlinked(splay(t, node), node)
          EXCEPT !.size = @ - 1, !.value[node] = NULL, !.left[node] = NULL,
                 !.right[node] = NULL, !.parent[node] = NULL]

picosplay_delete(t, value) ==
    picosplay_delete_hint(picosplay_find(t, value), FindFrom(t, t.root, value))

RECURSIVE picosplay_empty_tree(_)
picosplay_empty_tree(t) ==
    IF t.root = NULL THEN t
    ELSE picosplay_empty_tree(picosplay_delete_hint(t, t.root))

picosplay_first(t) == leftmost(t, t.root)

picosplay_last(t) == rightmost(t, t.root)

RECURSIVE ClimbFrom(_, _)
ClimbFrom(t, node) ==
    IF t.parent[node] # NULL /\ node = t.right[t.parent[node]]
    THEN ClimbFrom(t, t.parent[node])
    ELSE t.parent[node]

picosplay_next(t, node) ==
    IF t.right[node] # NULL THEN leftmost(t, t.right[node])
    ELSE ClimbFrom(t, node)

-----------------------------------------------------------------------------
Empty == [root |-> NULL, size |-> 0,
          parent |-> [n \in Cells \cup {NULL} |-> NULL],
          left   |-> [n \in Cells \cup {NULL} |-> NULL],
          right  |-> [n \in Cells \cup {NULL} |-> NULL],
          value  |-> [n \in Cells \cup {NULL} |-> NULL]]

Init == tree = Empty

Insert(value) ==
    /\ Allocated(tree) # Cells
    /\ tree' = picosplay_insert(tree, value)

Search(value) == tree' = picosplay_find(tree, value)

Delete(value) == tree' = picosplay_delete(tree, value)

Next == \E value \in Values : Insert(value) \/ Search(value) \/ Delete(value)

Spec == Init /\ [][Next]_tree

-----------------------------------------------------------------------------
RECURSIVE Below(_, _)
Below(t, node) ==
    IF node = NULL THEN <<>>
    ELSE Below(t, t.left[node]) \o <<node>> \o Below(t, t.right[node])

RECURSIVE Walk(_, _, _)
Walk(t, node, n) ==
    IF node = NULL \/ n = 0 THEN <<>>
    ELSE <<node>> \o Walk(t, picosplay_next(t, node), n - 1)

(* Both ends of every link agree after any sequence of insertions,         *)
(* searches and deletions, the root has no parent, every allocated node is *)
(* in the tree, and size counts them.                                      *)
LinksAgree ==
    /\ \A n \in Allocated(tree) :
         /\ tree.left[n] # NULL => tree.parent[tree.left[n]] = n
         /\ tree.right[n] # NULL => tree.parent[tree.right[n]] = n
         /\ (tree.parent[n] = NULL) = (n = tree.root)
    /\ ToSet(Below(tree, tree.root)) = Allocated(tree)
    /\ tree.size = Cardinality(Allocated(tree))

(* The tree is a sorted list of the values put into it and not taken out:  *)
(* picosplay_first and picosplay_next visit them in order, each once;      *)
(* what was found or inserted is at the root; picosplay_empty_tree leaves  *)
(* nothing behind.                                                         *)
TreeIsTheList ==
    LET walk == Walk(tree, picosplay_first(tree), Cardinality(Cells) + 1)
    IN  /\ walk = Below(tree, tree.root)
        /\ \A i \in 1 .. Len(walk) - 1 :
             tree.value[walk[i]] <= tree.value[walk[i + 1]]
        /\ walk # <<>> => picosplay_last(tree) = Last(walk)
        /\ \A v \in Values :
             LET f == picosplay_find(tree, v)
             IN  (\E n \in Allocated(tree) : tree.value[n] = v) =>
                   f.value[f.root] = v
        /\ Allocated(picosplay_empty_tree(tree)) = {}

=============================================================================
