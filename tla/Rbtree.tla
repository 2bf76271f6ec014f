------------------------------- MODULE Rbtree -------------------------------
(***************************************************************************)
(* The red-black tree of lib/rbtree.c that keeps the VMAs of an address    *)
(* space and the timers of a CPU.  Nodes are their keys and 0 is NULL.     *)
(* Left and right are sides, so each mirrored pair of branches in the code *)
(* is one definition.  Callers hold their lock around a call, so a call is *)
(* one step.                                                               *)
(***************************************************************************)
EXTENDS Integers, FiniteSets, Sequences

CONSTANT Keys   \* the keys nodes may have: a finite set of positive numbers

VARIABLES
  tree,      \* the root and the nodes' rb_parent, rb_left, rb_right, rb_red
  members    \* history: the nodes inserted and not erased

rbVars == <<tree, members>>

NULL == 0
Sides == {"left", "right"}
Opposite(side) == IF side = "left" THEN "right" ELSE "left"
SideOf(t, parent, node) == IF node = t.kid["left"][parent] THEN "left" ELSE "right"

IsRed(t, node) == node # NULL /\ t.red[node]

\* The tree with the nodes of B black and those of R red.
Coloured(t, B, R) ==
  [t EXCEPT !.red = [k \in Keys |-> IF k \in R THEN TRUE ELSE IF k \in B THEN FALSE ELSE @[k]]]

ChangeChild(t, old, new, parent) ==
  LET s == IF parent = NULL
           THEN [t EXCEPT !.root = new]
           ELSE [t EXCEPT !.kid[SideOf(t, parent, old)][parent] = new]
  IN IF new = NULL THEN s ELSE [s EXCEPT !.up[new] = parent]

\* rb_rotate_left and rb_rotate_right: the child of the other side moves up.
Rotate(t, node, side) ==
  LET next  == t.kid[Opposite(side)][node]
      inner == t.kid[side][next]
      a == [t EXCEPT !.kid[Opposite(side)][node] = inner]
      b == IF inner = NULL THEN a ELSE [a EXCEPT !.up[inner] = node]
      c == ChangeChild(b, node, next, b.up[node])
  IN [c EXCEPT !.kid[side][next] = node, !.up[node] = next]

RECURSIVE InsertColor(_, _)
InsertColor(t, node) ==
  LET parent == t.up[node] IN
  IF ~IsRed(t, parent) THEN Coloured(t, {t.root}, {})
  ELSE LET grand == t.up[parent]
           side  == SideOf(t, grand, parent)
           uncle == t.kid[Opposite(side)][grand]
           inner == node = t.kid[Opposite(side)][parent]
           a == IF inner THEN Rotate(t, parent, side) ELSE t
           n == IF inner THEN parent ELSE node
       IN IF IsRed(t, uncle)
          THEN InsertColor(Coloured(t, {parent, uncle}, {grand}), grand)
          ELSE InsertColor(Rotate(Coloured(a, {a.up[n]}, {grand}), grand, Opposite(side)), n)

\* rb_link_node at the place where the caller's search of the tree ended.
RECURSIVE Descend(_, _, _)
Descend(t, node, at) ==
  LET side == IF node < at THEN "left" ELSE "right"
      next == t.kid[side][at]
  IN IF next = NULL THEN <<at, side>> ELSE Descend(t, node, next)

LinkNode(t, node) ==
  LET fresh == [t EXCEPT !.kid["left"][node] = NULL, !.kid["right"][node] = NULL,
                         !.red[node] = TRUE]
      place == Descend(t, node, t.root)
  IN IF t.root = NULL THEN [fresh EXCEPT !.root = node, !.up[node] = NULL]
     ELSE [fresh EXCEPT !.kid[place[2]][place[1]] = node, !.up[node] = place[1]]

\* Faulty variant: a black sibling whose far child is black is not rotated first.
Straightened(t, parent, side, sibling) == t

\* The sibling's far child is made red where only its near one was.
Straighten(t, parent, side, sibling) ==
  LET far == Opposite(side) IN
  IF IsRed(t, t.kid[far][sibling]) THEN t
  ELSE Rotate(Coloured(t, {t.kid[side][sibling]}, {sibling}), sibling, far)

RECURSIVE EraseFixup(_, _, _)
EraseFixup(t, node, parent) ==
  IF node = t.root \/ IsRed(t, node) THEN Coloured(t, {node}, {})
  ELSE LET side == SideOf(t, parent, node)
           far  == Opposite(side)
           a == IF IsRed(t, t.kid[far][parent])
                THEN Rotate(Coloured(t, {t.kid[far][parent]}, {parent}), parent, side)
                ELSE t
           sibling == a.kid[far][parent]
           b == Straighten(a, parent, side, sibling)
           heir == b.kid[far][parent]
           c == [Coloured(b, {parent, b.kid[far][heir]}, {}) EXCEPT !.red[heir] = b.red[parent]]
           d == Rotate(c, parent, side)
       IN IF \A s \in Sides : ~IsRed(a, a.kid[s][sibling])
          THEN EraseFixup(Coloured(a, {}, {sibling}), parent, a.up[parent])
          ELSE Coloured(d, {d.root}, {})

RECURSIVE Outermost(_, _, _)
Outermost(t, node, side) ==
  IF t.kid[side][node] = NULL THEN node ELSE Outermost(t, t.kid[side][node], side)

\* The node out of the tree, and where the blacks may no longer balance.
Unlinked(t, node) ==
  LET left  == t.kid["left"][node]
      right == t.kid["right"][node]
      only  == IF left = NULL THEN right ELSE left
      next  == Outermost(t, right, "left")
      child == t.kid["right"][next]
      direct == t.up[next] = node
      a == IF direct
           THEN IF child = NULL THEN t ELSE [t EXCEPT !.up[child] = next]
           ELSE [ChangeChild(t, next, child, t.up[next]) EXCEPT !.kid["right"][next] = right,
                                                                !.up[right] = next]
      b == ChangeChild(a, node, next, a.up[node])
      c == [b EXCEPT !.kid["left"][next] = left, !.up[left] = next, !.red[next] = t.red[node]]
  IN IF left = NULL \/ right = NULL
     THEN [t |-> ChangeChild(t, node, only, t.up[node]), red |-> t.red[node],
           child |-> only, parent |-> t.up[node]]
     ELSE [t |-> c, red |-> t.red[next], child |-> child,
           parent |-> IF direct THEN next ELSE t.up[next]]

\* A node outside every tree is its own parent (RB_CLEAR_NODE).
Cleared(t, node) ==
  [t EXCEPT !.kid["left"][node] = NULL, !.kid["right"][node] = NULL,
            !.red[node] = FALSE, !.up[node] = node]

Erased(t, node) ==
  LET u == Unlinked(t, node)
  IN Cleared(IF u.red THEN u.t ELSE EraseFixup(u.t, u.child, u.parent), node)

\* rb_first and rb_last, rb_next and rb_prev: the end on a side, the neighbour.
End(t, side) == IF t.root = NULL THEN NULL ELSE Outermost(t, t.root, side)

RECURSIVE Climb(_, _, _)
Climb(t, node, side) ==
  LET parent == t.up[node]
  IN IF parent # NULL /\ node = t.kid[side][parent] THEN Climb(t, parent, side) ELSE parent

Neighbour(t, node, side) ==
  IF t.kid[side][node] # NULL THEN Outermost(t, t.kid[side][node], Opposite(side))
  ELSE Climb(t, node, side)

-----------------------------------------------------------------------------

RbInit ==
  /\ tree = [root |-> NULL, up |-> [k \in Keys |-> k], red |-> [k \in Keys |-> FALSE],
             kid |-> [s \in Sides |-> [k \in Keys |-> NULL]]]
  /\ members = {}

\* vma_insert and timer_start: search, link, recolour.
Insert(node) ==
  /\ node \notin members
  /\ tree' = InsertColor(LinkNode(tree, node), node)
  /\ members' = members \cup {node}

\* vma_remove and remove_timer_locked.
Erase(node) ==
  /\ node \in members
  /\ tree' = Erased(tree, node)
  /\ members' = members \ {node}

RbNext == \E node \in Keys : Insert(node) \/ Erase(node)

RbSpec == RbInit /\ [][RbNext]_rbVars

-----------------------------------------------------------------------------

\* The nodes met from one end to the other, at most n of them.
RECURSIVE Walk(_, _, _, _)
Walk(t, node, side, n) ==
  IF node = NULL \/ n = 0 THEN <<>>
  ELSE <<node>> \o Walk(t, Neighbour(t, node, side), side, n - 1)

\* The black nodes on the way down from a node, or -1 where two ways differ.
RECURSIVE Blacks(_, _)
Blacks(t, node) ==
  IF node = NULL THEN 0
  ELSE LET l == Blacks(t, t.kid["left"][node])
           r == Blacks(t, t.kid["right"][node])
       IN IF l # r THEN -1 ELSE IF l = -1 THEN -1 ELSE l + (IF t.red[node] THEN 0 ELSE 1)

Ordered(w) == \A i, j \in DOMAIN w : i < j => w[i] < w[j]
Backwards(w) == [i \in DOMAIN w |-> w[Len(w) + 1 - i]]

(* After any sequence of insertions and erasures both walks (rb_first with *)
(* rb_next, rb_last with rb_prev) meet exactly the linked nodes in order,  *)
(* children and parents agree, an erased node is an empty node again, and  *)
(* the tree is balanced: no red node has a red parent and every way down   *)
(* has as many black nodes.                                                *)
RbInv ==
  LET n == Cardinality(Keys) + 1
      up == Walk(tree, End(tree, "left"), "right", n)
  IN /\ {up[i] : i \in DOMAIN up} = members /\ Ordered(up)
     /\ Walk(tree, End(tree, "right"), "left", n) = Backwards(up)
     /\ \A k \in members : \A s \in Sides :
          tree.kid[s][k] # NULL => tree.up[tree.kid[s][k]] = k
     /\ \A k \in Keys \ members : tree.up[k] = k
     /\ ~IsRed(tree, tree.root)
     /\ \A k \in members : tree.red[k] => ~IsRed(tree, tree.up[k])
     /\ Blacks(tree, tree.root) # -1
=============================================================================
