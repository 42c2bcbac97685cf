--------------------------- MODULE TreeReuseStack ---------------------------
(***************************************************************************)
(* The exact reuse stack, treereusestack.{h,cc}: a splay tree of blocks,   *)
(* ordered by the time of their last access, in which every node knows the *)
(* number of nodes to its right, so that the depth of a block is a sum     *)
(* along the path to it.  An invalidated block leaves its node as a hole.  *)
(*                                                                         *)
(* The nodes are a heap of records, and the operations on the tree change  *)
(* the same fields in the same order as the code's, along the path that    *)
(* the code keeps in p_stack.                                              *)
(*                                                                         *)
(* Left out: the capacity call-backs and ReplaceTree, which nothing calls, *)
(* performance counters and printing.                                      *)
(***************************************************************************)
EXTENDS Integers, Sequences, SequencesExt, FiniteSets, FiniteSetsExt

CONSTANTS
  Address,          \* blocks
  MaxReferences     \* bound on reference_count_

ASSUME TreeAssumption == MaxReferences \in Nat

VARIABLES
  node,               \* the heap: per node inum, addr, lft, rt, rtwt
  root,
  last_access,        \* per block, the inum of its node; 0 if not in the table
  reference_count_,
  hole_set_,
  tot_addrs,
  stackSize,
  distance            \* what the last StackAccess returned

vars == <<node, root, last_access, reference_count_, hole_set_, tot_addrs, stackSize,
          distance>>

NULL == 0
\* A place of the list for each block, as a new block fills a hole if there is one,
\* and the constructor's node.
NodeId == 1 .. Cardinality(Address) + 1
kHoleAddress == -1
kStackNotFound == -1

Free == [inum |-> -1]
Allocated(h) == {p \in NodeId : h[p] # Free}

\* The node the constructor makes, which no access ever finds.
Dummy == [inum |-> 0, addr |-> 1, lft |-> NULL, rt |-> NULL, rtwt |-> 0]

Init ==
  /\ node = [p \in NodeId |-> IF p = 1 THEN Dummy ELSE Free]
  /\ root = 1
  /\ last_access = [a \in Address |-> 0]
  /\ reference_count_ = 0 /\ hole_set_ = {} /\ tot_addrs = 0 /\ stackSize = 0
  /\ distance = kStackNotFound

-----------------------------------------------------------------------------
(* The tree.  A tree is a heap and a root, [node, root].                   *)

\* The nodes from the root to the one with this inum.
PathTo(tree, inum) ==
  LET h == tree.node
      path[p \in NodeId \cup {NULL}] ==
        IF p = NULL THEN <<>>
        ELSE Cons(p, IF h[p].inum > inum THEN path[h[p].lft]
                     ELSE IF h[p].inum < inum THEN path[h[p].rt] ELSE <<>>)
  IN path[tree.root]

\* p and its left descendants: the last one is the least of the subtree.
LeftSpine(h, first) ==
  LET spine[p \in NodeId \cup {NULL}] ==
        IF p = NULL THEN <<>> ELSE Cons(p, spine[h[p].lft])
  IN spine[first]

WentLeft(h, path, k) == h[path[k]].lft = path[k + 1]

\* The number of nodes with a greater inum than the last one of the path has.
Above(h, path) ==
  FoldLeftDomain(LAMBDA sum, k :
    sum + (IF k = Len(path) THEN h[path[k]].rtwt
           ELSE IF WentLeft(h, path, k) THEN h[path[k]].rtwt + 1 ELSE 0), 0, path)

\* The last node of the path is about to leave the tree: it no longer counts for
\* those that have it on their right, nor for itself, as its successor replaces it.
Discount(h, path) ==
  [p \in NodeId |->
     IF \E k \in DOMAIN path : p = path[k] /\ (k = Len(path) \/ ~WentLeft(h, path, k))
       THEN [h[p] EXCEPT !.rtwt = @ - 1] ELSE h[p]]

\* What parent has as its child old becomes new.
Relink(h, parent, old, new) ==
  IF h[parent].lft = old THEN [h EXCEPT ![parent].lft = new]
                         ELSE [h EXCEPT ![parent].rt = new]

-----------------------------------------------------------------------------
(* Rotations and splaying, on a heap and the path p_stack.                 *)

\* p_stack[y] leaves the path, the nodes below it move up.
Shorten(stack, y) ==
  [stack EXCEPT ![y] = stack[y + 1], ![y + 1] = stack[Min({y + 2, Len(stack)})]]

Hang(s, y) ==
  IF y > 1 THEN Relink(s.node, s.p_stack[y - 1], s.p_stack[y], s.p_stack[y + 1])
           ELSE s.node

rotate_left(s, y) ==
  LET lower == s.p_stack[y + 1]
      upper == s.p_stack[y]
      h == Hang(s, y)
  IN [ node |-> [h EXCEPT ![upper].rt = h[lower].lft,
                          ![upper].rtwt = @ - (h[lower].rtwt + 1),
                          ![lower].lft = upper],
       p_stack |-> Shorten(s.p_stack, y) ]

\* Mutant: the nodes that moved to the right of the lower node are not counted.
rotate_right_uncounted(s, y) ==
  LET lower == s.p_stack[y + 1]
      upper == s.p_stack[y]
      h == Hang(s, y)
  IN [ node |-> [h EXCEPT ![upper].lft = h[lower].rt, ![lower].rt = upper,
                          ![lower].rtwt = @ + 1],
       p_stack |-> Shorten(s.p_stack, y) ]

rotate_right(s, y) ==
  LET lower == s.p_stack[y + 1]
      upper == s.p_stack[y]
      h == Hang(s, y)
  IN [ node |-> [h EXCEPT ![upper].lft = h[lower].rt,
                          ![lower].rt = upper,
                          ![lower].rtwt = @ + h[upper].rtwt + 1],
       p_stack |-> Shorten(s.p_stack, y) ]

\* The node at this place of the path moves up two places, or to the root.
splay(s, at) ==
  LET isLeft == s.p_stack[at] = s.node[s.p_stack[at - 1]].lft
      parentIsLeft == s.p_stack[at - 1] = s.node[s.p_stack[at - 2]].lft
  IN
  IF at = 2 THEN IF isLeft THEN rotate_right(s, 1) ELSE rotate_left(s, 1)
  ELSE IF isLeft /\ parentIsLeft THEN rotate_right(rotate_right(s, at - 2), at - 2)
  ELSE IF isLeft THEN rotate_left(rotate_right(s, at - 1), at - 2)
  ELSE IF parentIsLeft THEN rotate_right(rotate_left(s, at - 1), at - 2)
  ELSE rotate_left(rotate_left(s, at - 2), at - 2)

\* at, at - 2, ... while greater than 1.
SplayFrom(s, at) ==
  FoldLeft(splay, s, [k \in 1 .. at \div 2 |-> at - 2 * (k - 1)])

-----------------------------------------------------------------------------
(* Operations on the tree                                                  *)

InsertNewNode(tree, id, addr) ==
  [ node |-> [tree.node EXCEPT ![id] =
                [inum |-> reference_count_ + 1, addr |-> addr,
                 lft |-> tree.root, rt |-> NULL, rtwt |-> 0]],
    root |-> id ]

\* Moves the node with this inum to the top: its successor's node, or its own if
\* there is nothing on its right, is taken out of the tree and put on top, and the
\* path to it is splayed.
RefTree(tree, inum, addr) ==
  LET h == tree.node
      found == PathTo(tree, inum)
      pos == Len(found)
      path == found \o LeftSpine(h, h[Last(found)].rt)
      top == Len(path)
      moved == path[top]
      at == IF pos < top THEN top - 1
            ELSE Max({0} \cup {k \in 1 .. pos - 1 : WentLeft(h, found, k)})
      unlinked == Relink(Discount(h, found), path[top - 1], moved,
                         IF pos < top THEN h[moved].rt ELSE h[moved].lft)
      replaced == [unlinked EXCEPT ![path[pos]].addr = h[moved].addr,
                                   ![path[pos]].inum = h[moved].inum]
      splayed == SplayFrom([node |-> replaced, p_stack |-> path], at)
  IN
  IF h[tree.root].inum = inum /\ h[tree.root].rtwt = 0
    THEN [tree EXCEPT !.node[tree.root].inum = reference_count_ + 1]
    ELSE InsertNewNode([node |-> splayed.node, root |-> splayed.p_stack[1]], moved, addr)

\* Takes the node with this inum out, or its successor after the two have changed
\* contents.  The node that is left over is the result's node of the field gone.
delete_inum(tree, inum) ==
  LET path == PathTo(tree, inum)
      ptr == Last(path)
      h == Discount(tree.node, path)
      spine == LeftSpine(h, h[ptr].rt)
      succ == Last(spine)
      Unlink(g, p, parents, child) ==
        IF parents = <<>> THEN [node |-> g, root |-> child, gone |-> p]
        ELSE [node |-> Relink(g, Last(parents), p, child), root |-> tree.root, gone |-> p]
  IN
  IF h[ptr].lft = NULL THEN Unlink(h, ptr, Front(path), h[ptr].rt)
  ELSE IF h[ptr].rt = NULL THEN Unlink(h, ptr, Front(path), h[ptr].lft)
  ELSE Unlink([h EXCEPT ![ptr].addr = h[succ].addr, ![ptr].inum = h[succ].inum,
                        ![succ].addr = h[ptr].addr, ![succ].inum = h[ptr].inum],
              succ, path \o Front(spine), h[succ].rt)

Tree == [node |-> node, root |-> root]

GetDepthAndNode(inum) ==
  LET path == PathTo(Tree, inum) IN [depth |-> Above(node, path), ptr |-> Last(path)]

GetDepth(addr) ==
  IF last_access[addr] = 0 THEN kStackNotFound ELSE GetDepthAndNode(last_access[addr]).depth

-----------------------------------------------------------------------------
(* Accesses and invalidations                                              *)

HashLookup(addr) ==
  /\ last_access' = [last_access EXCEPT ![addr] = reference_count_ + 1]
  /\ IF last_access[addr] = 0
       THEN tot_addrs' = tot_addrs + 1 /\ stackSize' = stackSize + 1
       ELSE UNCHANGED <<tot_addrs, stackSize>>

NewNode == CHOOSE p \in NodeId : node[p] = Free

\* The hole that may be filled: the first element of an ordered set.
hole_top == Min(hole_set_)

\* Mutant: any hole is filled, below the block or above it.
LeapfrogsAny(inum) == hole_set_ # {}

\* A hole above the block is filled; inum is 0 for a new block.
Leapfrogs(inum) == hole_set_ # {} /\ inum < hole_top

\* DoHoleAccess and what StackAccess does with the node that it returns.
HoleAccess(inum, addr) ==
  LET emptied == IF inum = 0 THEN node
                 ELSE [node EXCEPT ![GetDepthAndNode(inum).ptr].addr = kHoleAddress]
      deleted == delete_inum([node |-> emptied, root |-> root], hole_top)
      tree == InsertNewNode(deleted, deleted.gone, addr)
  IN
  /\ hole_set_' = (hole_set_ \ {hole_top}) \cup ({inum} \ {0})
  /\ distance' = IF inum = 0 THEN kStackNotFound ELSE GetDepthAndNode(inum).depth
  /\ node' = tree.node /\ root' = tree.root

PlainAccess(inum, addr) ==
  LET tree == IF inum = 0 THEN InsertNewNode(Tree, NewNode, addr)
                          ELSE RefTree(Tree, inum, addr)
  IN
  /\ distance' = IF inum = 0 THEN kStackNotFound ELSE GetDepthAndNode(inum).depth
  /\ node' = tree.node /\ root' = tree.root
  /\ UNCHANGED hole_set_

StackAccess(addr) ==
  LET inum == last_access[addr] IN
  /\ reference_count_ < MaxReferences
  /\ reference_count_' = reference_count_ + 1
  /\ HashLookup(addr)
  /\ IF Leapfrogs(inum) THEN HoleAccess(inum, addr) ELSE PlainAccess(inum, addr)

SnoopInvalidate(addr) ==
  LET inum == last_access[addr] IN
  /\ inum # 0
  /\ hole_set_' = hole_set_ \cup {inum}
  /\ node' = [node EXCEPT ![GetDepthAndNode(inum).ptr].addr = kHoleAddress]
  /\ last_access' = [last_access EXCEPT ![addr] = 0]
  /\ stackSize' = stackSize - 1
  /\ UNCHANGED <<root, reference_count_, tot_addrs, distance>>

Next == \E a \in Address : StackAccess(a) \/ SnoopInvalidate(a)

Spec == Init /\ [][Next]_vars

-----------------------------------------------------------------------------
(* Properties                                                              *)

\* The nodes of the subtree of p, least depth first.
InOrder(first) ==
  LET list[p \in NodeId \cup {NULL}] ==
        IF p = NULL THEN <<>> ELSE list[node[p].rt] \o <<p>> \o list[node[p].lft]
  IN list[first]

\* What treeCheck checks and more: the tree has every allocated node exactly once,
\* in the order of their inums, and rtwt is the size of the right subtree, however
\* nodes were swapped, unlinked, reused and rotated.
TreeIsSound ==
  LET nodes == InOrder(root) IN
  /\ ToSet(nodes) = Allocated(node) /\ Len(nodes) = Cardinality(Allocated(node))
  /\ \A k \in 1 .. Len(nodes) - 1 : node[nodes[k]].inum > node[nodes[k + 1]].inum
  /\ \A p \in Allocated(node) : node[p].rtwt = Len(InOrder(node[p].rt))

\* The stack as HoleStack describes it.
Stack ==
  LET nodes == InOrder(root) IN
  [k \in 1 .. Len(nodes) - 1 |-> node[nodes[k]].addr]

H == INSTANCE HoleStack WITH stack <- Stack

\* The tree implements a list of blocks and holes, distances included.
ImplementsHoleStack == H!Spec
=============================================================================
