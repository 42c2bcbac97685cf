----------------------- MODULE ApproximateReuseStack -----------------------
(***************************************************************************)
(* The approximate reuse stack, approximatereusestack.{h,cc}: a splay tree *)
(* of nodes, each of which stands for all blocks and holes last used in an *)
(* interval of time, from after its predecessor's time to its own.  Deep   *)
(* nodes may stand for more of them, so that the tree stays small at the   *)
(* price of a bounded error of the distances.                              *)
(*                                                                         *)
(* The nodes are a heap of records.  Left out: the capacity of a node,     *)
(* which only treeCompression reads and after having set it; performance   *)
(* counters and printing.  What the code asserts is part of NodesAreSound. *)
(***************************************************************************)
EXTENDS Integers, Sequences, SequencesExt, FiniteSets, FiniteSetsExt, TLC

CONSTANTS
  Address,                   \* blocks
  errorRate,                 \* the error allowed, as a record [num, den]
  CompressAt,                \* how many nodes make the tree be compressed: in the code a
                             \* multiple of the logarithm of its weight
  MaxTime                    \* bound on currentTime

VARIABLES
  node,               \* the heap: per node time, size, weight, left, right, prev
  root, newest,
  treenodeCount,
  last_access,        \* per block, the time of its last access; 0 if not in the table
  hole_set_,
  currentTime,
  distance            \* what the last StackAccess returned

vars == <<node, root, newest, treenodeCount, last_access, hole_set_, currentTime, distance>>

NULL == 0
\* A place of the stack for each block, as a new block fills a hole if there is one.
NodeId == 1 .. Cardinality(Address) + 1
kStackNotFound == -1

\* Nodes that are not allocated.
Gone == [time |-> -1]
Allocated(h) == {p \in NodeId : h[p] # Gone}

Init ==
  /\ node = [p \in NodeId |-> Gone]
  /\ root = NULL /\ newest = NULL /\ treenodeCount = 0
  /\ last_access = [a \in Address |-> 0] /\ hole_set_ = {} /\ currentTime = 0
  /\ distance = kStackNotFound

-----------------------------------------------------------------------------
(* The tree, as a record of node, root, newest and treenodeCount.          *)

node_weight(h, p) == IF p = NULL THEN 0 ELSE h[p].weight

Opposite(side) == IF side = "left" THEN "right" ELSE "left"
SideOf(h, p, key) == IF key < h[p].time THEN "left" ELSE "right"

\* Mutant: the rotated node keeps its weight.
RotateUnweighted(h, t, side) ==
  LET y == h[t][side] IN
  [h EXCEPT ![t][side] = h[y][Opposite(side)], ![y][Opposite(side)] = t]

\* t's child on that side takes its place.
Rotate(h, t, side) ==
  LET y == h[t][side]
      moved == [h EXCEPT ![t][side] = h[y][Opposite(side)], ![y][Opposite(side)] = t]
  IN [moved EXCEPT ![t].weight =
        node_weight(moved, moved[t].left) + node_weight(moved, moved[t].right) + h[t].size]

\* One turn of splay's loop.  t is the node reached; links has the nodes that were
\* linked left or right, by the side that the search went on from them.
SplayTurn(s, key) ==
  LET side == SideOf(s.node, s.t, key)
      y == s.node[s.t][side]
      zigzig == key # s.node[y].time /\ SideOf(s.node, y, key) = side
      h == IF zigzig THEN Rotate(s.node, s.t, side) ELSE s.node
      t == IF zigzig THEN y ELSE s.t
      stop == [node |-> h, t |-> t, links |-> s.links, done |-> TRUE]
  IN
  IF s.done \/ key = s.node[s.t].time \/ y = NULL THEN [s EXCEPT !.done = TRUE]
  ELSE IF h[t][side] = NULL THEN stop
  ELSE [node |-> h, t |-> h[t][side], links |-> [s.links EXCEPT ![side] = Append(@, t)],
        done |-> FALSE]

\* The nodes linked on one side become a spine that ends in t's subtree of the other
\* side.
Assembled(s, side) ==
  LET spine == s.links[side]
      rest == s.node[s.t][Opposite(side)]
      below(k) == IF k < Len(spine) THEN spine[k + 1] ELSE rest
      weight[k \in 1 .. Len(spine) + 1] ==
        IF k > Len(spine) THEN node_weight(s.node, rest)
        ELSE weight[k + 1] + s.node[spine[k]].size
               + node_weight(s.node, s.node[spine[k]][Opposite(side)])
  IN
  [ node |-> [p \in NodeId |->
       IF p \in ToSet(spine)
         THEN LET k == CHOOSE i \in DOMAIN spine : spine[i] = p
              IN [s.node[p] EXCEPT ![side] = below(k), !.weight = weight[k]]
         ELSE s.node[p]],
    top |-> IF spine = <<>> THEN rest ELSE spine[1],
    weight |-> weight[1] ]

\* The node that was reached gets what was linked on either side below it.
Reassembled(tree, s) ==
  LET lower == Assembled(s, "right")
      upper == Assembled([s EXCEPT !.node = lower.node], "left")
  IN
  [tree EXCEPT
     !.node = [upper.node EXCEPT ![s.t].left = lower.top, ![s.t].right = upper.top,
                                 ![s.t].weight = lower.weight + upper.weight
                                                   + s.node[s.t].size],
     !.root = s.t]

\* The node of the key, or the last one on the way to it, becomes the root.
splay(tree, key) ==
  LET start == [node |-> tree.node, t |-> tree.root,
                links |-> [left |-> <<>>, right |-> <<>>], done |-> FALSE]
  IN Reassembled(tree, FoldLeft(LAMBDA s, i : SplayTurn(s, key), start, [i \in NodeId |-> i]))

-----------------------------------------------------------------------------
(* Operations on the tree                                                  *)

\* Whether treeSearch goes on to the left of the node.
GoesLeft(h, p, time) ==
  time < h[p].time /\ h[p].prev # NULL /\ time <= h[h[p].prev].time

\* The way from the root to the node whose interval has the time.
SearchPath(tree, time) ==
  LET h == tree.node
      path[p \in NodeId \cup {NULL}] ==
        IF p = NULL THEN <<>>
        ELSE Cons(p, path[IF GoesLeft(h, p, time) THEN h[p].left
                          ELSE IF time > h[p].time THEN h[p].right ELSE NULL])
  IN path[tree.root]

\* Everything newer than the interval of the last node of the path.
SearchDistance(h, path, time) ==
  LET newer(p) == node_weight(h, h[p].right)
      last(k) == k = Len(path)
  IN
  FoldLeftDomain(LAMBDA sum, k :
    sum + (IF GoesLeft(h, path[k], time)
             THEN newer(path[k]) + IF last(k) THEN 0 ELSE h[path[k]].size ELSE 0)
        + (IF last(k) THEN newer(path[k]) ELSE 0), 0, path)

\* The node after the one with this key, which has left the tree.
findSuccessor(tree, key) ==
  LET h == tree.node
      search[p \in NodeId \cup {NULL}] ==
        IF p = NULL THEN NULL
        ELSE IF key > h[p].time THEN search[h[p].right]
        ELSE LET found == search[h[p].left] IN IF found = NULL THEN p ELSE found
  IN search[tree.root]

\* The subtrees of the root p are joined below the greatest key of the left one.
Joined(tree, p, key) ==
  LET upper == tree.node[p].right
      lower == splay([tree EXCEPT !.root = tree.node[p].left], key)
  IN IF tree.node[p].left = NULL THEN [tree EXCEPT !.root = upper]
     ELSE [lower EXCEPT !.node[lower.root].right = upper,
                        !.node[lower.root].weight = @ + node_weight(lower.node, upper)]

\* The node leaves the chain as well, and is freed.
Unchained(tree, p, key) ==
  LET succ == findSuccessor(tree, key)
      prev == tree.node[p].prev
      chained == IF succ = NULL THEN tree.node ELSE [tree.node EXCEPT ![succ].prev = prev]
  IN [ node |-> [chained EXCEPT ![p] = Gone], root |-> tree.root,
       newest |-> IF succ = NULL THEN prev ELSE tree.newest,
       treenodeCount |-> tree.treenodeCount - 1 ]

treeDelete(tree, p) ==
  LET key == tree.node[p].time IN Unchained(Joined(splay(tree, key), p, key), p, key)

\* treeSearch with do_delete: one time less in the interval.
treeSearchDelete(tree, time) ==
  LET path == SearchPath(tree, time)
      p == Last(path)
      lighter == [q \in NodeId |-> IF q \in ToSet(path) THEN [tree.node[q] EXCEPT !.weight = @ - 1]
                                                        ELSE tree.node[q]]
      smaller == [tree EXCEPT !.node = [lighter EXCEPT ![p].size = @ - 1]]
  IN IF smaller.node[p].size = 0 THEN treeDelete(smaller, p) ELSE smaller

Unused(tree) == CHOOSE p \in NodeId : tree.node[p] = Gone

\* A node newer than all others becomes the root.  The case of an older one, and the
\* correction for a subtree on the right of the old root, are never reached.
treeInsert(tree, p, time) ==
  LET new(left, weight) == [time |-> time, size |-> 1, weight |-> weight, left |-> left,
                            right |-> NULL, prev |-> tree.newest]
      top == splay(tree, time)
      old == top.node[top.root]
      right == old.right
      weight == IF right = NULL THEN old.weight ELSE old.weight - top.node[right].size
  IN
  IF tree.root = NULL
    THEN [tree EXCEPT !.node[p] = new(NULL, 1), !.root = p, !.newest = p, !.treenodeCount = 1]
    ELSE [ node |-> [top.node EXCEPT
                       ![top.root].right = NULL, ![top.root].weight = weight,
                       ![p] = [new(top.root, old.weight + 1) EXCEPT !.right = right]],
           root |-> p, newest |-> p, treenodeCount |-> tree.treenodeCount + 1 ]

-----------------------------------------------------------------------------
(* Compression                                                             *)

\* The nodes from p on, newest first.
Chain(h, first) ==
  LET chain[p \in NodeId \cup {NULL}] == IF p = NULL THEN <<>> ELSE Cons(p, chain[h[p].prev])
  IN chain[first]

\* How many times a node may stand for if that many are newer.
Capacity(newer) == Max({1, (newer * errorRate.num) \div (errorRate.den - errorRate.num)})

\* Mutant: what the node already stands for is not counted.
FitsAlone(held, more, newer) == more <= Capacity(newer)

Fits(held, more, newer) == held + more <= Capacity(newer)

\* The nodes that are kept, newest first, and their sizes: each one merges as many of
\* those before it as its capacity allows.
Kept(h, first) ==
  LET chain == Chain(h, first)
      merge(acc, p) ==
        LET n == Len(acc.ids) IN
        IF Fits(acc.sizes[n], h[p].size, acc.newer)
          THEN [acc EXCEPT !.sizes[n] = @ + h[p].size]
          ELSE [ids |-> Append(acc.ids, p), sizes |-> Append(acc.sizes, h[p].size),
                newer |-> acc.newer + acc.sizes[n]]
  IN FoldLeft(merge, [ids |-> <<Head(chain)>>, sizes |-> <<h[Head(chain)].size>>, newer |-> 0],
              Tail(chain))

\* A leaf is added; the nodes on the way to it count it.
AddLeaf(tree, p) ==
  LET h == tree.node
      path[q \in NodeId \cup {NULL}] ==
        IF q = NULL THEN <<>> ELSE Cons(q, path[h[q][SideOf(h, q, h[p].time)]])
      way == path[tree.root]
      parent == Last(way)
      heavier == [q \in NodeId |-> IF q \in ToSet(way) THEN [h[q] EXCEPT !.weight = @ + h[p].size]
                                                       ELSE h[q]]
  IN IF tree.root = NULL THEN [tree EXCEPT !.root = p]
     ELSE [tree EXCEPT !.node = [heavier EXCEPT ![parent][SideOf(h, parent, h[p].time)] = p]]

\* Nodes are merged and the tree is built anew: the trees for any order of the nodes.
treeCompression(tree) ==
  LET kept == Kept(tree.node, tree.newest)
      ids == kept.ids
      leaves == [p \in NodeId |->
                   IF p \notin ToSet(ids) THEN Gone
                   ELSE LET k == CHOOSE i \in DOMAIN ids : ids[i] = p
                        IN [tree.node[p] EXCEPT
                              !.size = kept.sizes[k], !.weight = kept.sizes[k],
                              !.left = NULL, !.right = NULL,
                              !.prev = IF k = Len(ids) THEN NULL ELSE ids[k + 1]]]
      bare == [node |-> leaves, root |-> NULL, newest |-> tree.newest,
               treenodeCount |-> Len(ids)]
  IN {FoldLeft(AddLeaf, bare, [k \in DOMAIN ids |-> order[ids[k]]]) :
        order \in Permutations(ToSet(ids))}

-----------------------------------------------------------------------------
(* Accesses and invalidations                                              *)

Tree == [node |-> node, root |-> root, newest |-> newest, treenodeCount |-> treenodeCount]

treeSearch(time) ==
  LET path == SearchPath(Tree, time) IN SearchDistance(node, path, time)

hashLookup(addr) == last_access' = [last_access EXCEPT ![addr] = currentTime + 1]

\* The hole that may be filled: the first element of an ordered set.
hole_top == Min(hole_set_)

\* A hole above the block is filled; time is 0 for a new block.
FillsHole(time) == hole_set_ # {} /\ hole_top > time

\* The tree without the time that leaves it, if one does.
Vacated(time) ==
  IF FillsHole(time) THEN treeSearchDelete(Tree, hole_top)
  ELSE IF time # 0 THEN treeSearchDelete(Tree, time)
  ELSE Tree

\* The trees there may be once the time has been added.
Filled(tree, time) ==
  LET inserted == treeInsert(tree, Unused(tree), time) IN
  IF inserted.treenodeCount < CompressAt THEN {inserted} ELSE treeCompression(inserted)

StackAccess(addr) ==
  LET time == last_access[addr] IN
  /\ currentTime < MaxTime
  /\ currentTime' = currentTime + 1
  /\ hashLookup(addr)
  /\ distance' = IF time = 0 THEN kStackNotFound ELSE treeSearch(time)
  /\ hole_set_' = IF FillsHole(time) THEN (hole_set_ \ {hole_top}) \cup ({time} \ {0})
                                     ELSE hole_set_
  /\ \E tree \in Filled(Vacated(time), currentTime + 1) :
        /\ node' = tree.node /\ root' = tree.root /\ newest' = tree.newest
        /\ treenodeCount' = tree.treenodeCount

SnoopInvalidate(addr) ==
  /\ last_access[addr] # 0
  /\ hole_set_' = hole_set_ \cup {last_access[addr]}
  /\ last_access' = [last_access EXCEPT ![addr] = 0]
  /\ UNCHANGED <<node, root, newest, treenodeCount, currentTime, distance>>

Next == \E a \in Address : StackAccess(a) \/ SnoopInvalidate(a)

Spec == Init /\ [][Next]_vars

-----------------------------------------------------------------------------
(* Properties                                                              *)

\* The times of blocks and holes.
Live == ({last_access[a] : a \in Address} \ {0}) \cup hole_set_

InOrder(first) ==
  LET list[p \in NodeId \cup {NULL}] ==
        IF p = NULL THEN <<>> ELSE list[node[p].right] \o <<p>> \o list[node[p].left]
  IN list[first]

\* What doTreeCheck checks and more: the tree is ordered, the chain of predecessors
\* goes through all its nodes in that order, weights are the sizes of the subtrees, and
\* a node's size is how many blocks and holes were last used in its interval.
NodesAreSound ==
  LET nodes == InOrder(root) IN
  /\ nodes = Chain(node, newest) /\ Len(nodes) = treenodeCount
  /\ ToSet(nodes) = Allocated(node)
  /\ \A k \in 1 .. Len(nodes) - 1 : node[nodes[k]].time > node[nodes[k + 1]].time
  /\ \A p \in Allocated(node) :
       LET before == IF node[p].prev = NULL THEN 0 ELSE node[node[p].prev].time IN
       /\ node[p].size = Cardinality({time \in Live : before < time /\ time <= node[p].time})
       /\ node[p].size > 0
       /\ node[p].weight =
            node[p].size + node_weight(node, node[p].left) + node_weight(node, node[p].right)
=============================================================================
