--------------------------- MODULE MCReuseStacks ---------------------------
(***************************************************************************)
(* TreeReuseStack, and ReuseDistance2Stacks with its approximate stack: a  *)
(* behaviour is one of the system that is chosen at the start, and what    *)
(* the other one keeps stays as it is.                                     *)
(*                                                                         *)
(* States are told apart up to the names of the blocks and nodes and up to *)
(* the differences between times, of which only the order counts.  That    *)
(* makes the state spaces finite without a bound on the accesses.          *)
(***************************************************************************)
EXTENDS TreeReuseStack

CONSTANTS errorRate, CompressAt

ASSUME ApproximateAssumption ==
  /\ errorRate.num \in Nat /\ errorRate.den \in Nat /\ errorRate.num < errorRate.den
  /\ CompressAt \in Nat

VARIABLES
  kStackType,
  \* the approximate stack
  a_node, a_root, a_newest, a_treenodeCount, a_last_access, a_hole_set_, a_currentTime,
  a_distance,
  \* reusedistance2stacks
  exact_stack, exact_distance, error

Two == INSTANCE ReuseDistance2Stacks WITH
  MaxTime <- MaxReferences, node <- a_node, root <- a_root, newest <- a_newest,
  treenodeCount <- a_treenodeCount, last_access <- a_last_access,
  hole_set_ <- a_hole_set_, currentTime <- a_currentTime, distance <- a_distance,
  stack <- exact_stack, d1 <- exact_distance, worst_error <- error

approximateVars ==
  <<a_node, a_root, a_newest, a_treenodeCount, a_last_access, a_hole_set_, a_currentTime,
    a_distance, exact_stack, exact_distance, error>>

Half == [num |-> 1, den |-> 2]

MCInit == kStackType \in {"exact", "approximate"} /\ Init /\ Two!ToolInit

MCNext ==
  /\ UNCHANGED kStackType
  /\ \/ kStackType = "exact" /\ Next /\ UNCHANGED approximateVars
     \/ kStackType = "approximate" /\ Two!ToolNext /\ UNCHANGED vars

MCSpec == MCInit /\ [][MCNext]_<<kStackType, vars, approximateVars>>

-----------------------------------------------------------------------------
(* Views                                                                   *)

RankIn(times, t) == Cardinality({u \in times : u < t})

Inums ==
  {node[p].inum : p \in Allocated(node)} \cup {last_access[a] : a \in Address}
    \cup hole_set_ \cup {0}

Rank(inum) == RankIn(Inums, inum)

\* Whether the node has a block, and whether the table agrees about it.
Content(p) ==
  IF node[p].addr \in Address
    THEN IF last_access[node[p].addr] = node[p].inum THEN "block" ELSE "lost"
    ELSE node[p].addr

Shape ==
  LET shape[p \in NodeId \cup {NULL}] ==
        IF p = NULL THEN <<>>
        ELSE <<Content(p), Rank(node[p].inum), node[p].rtwt,
               shape[node[p].lft], shape[node[p].rt]>>
  IN shape[root]

TreeView ==
  <<Shape, {Rank(i) : i \in hole_set_}, stackSize, distance,
    {Rank(last_access[a]) : a \in Address}>>

Times ==
  {a_node[p].time : p \in Two!Allocated(a_node)} \cup {a_last_access[a] : a \in Address}
    \cup a_hole_set_ \cup {0}

TimeRank(t) == RankIn(Times, t)

ApproximateShape ==
  LET shape[p \in NodeId \cup {NULL}] ==
        IF p = NULL THEN <<>>
        ELSE <<TimeRank(a_node[p].time), a_node[p].size, a_node[p].weight,
               IF a_node[p].prev = NULL THEN 0 ELSE TimeRank(a_node[a_node[p].prev].time),
               shape[a_node[p].left], shape[a_node[p].right]>>
  IN shape[a_root]

ApproximateView ==
  <<ApproximateShape, {TimeRank(t) : t \in a_hole_set_}, a_distance, a_treenodeCount,
    [k \in DOMAIN exact_stack |->
       IF exact_stack[k] \in Address THEN TimeRank(a_last_access[exact_stack[k]]) ELSE -1],
    exact_distance, error>>

StacksView ==
  IF kStackType = "exact" THEN <<kStackType, TreeView>> ELSE <<kStackType, ApproximateView>>

-----------------------------------------------------------------------------
(* Properties                                                              *)

\* What treeCheck checks of the exact tree and more, see TreeReuseStack; and the nodes of
\* the approximate tree agree with the list and the counts, see ApproximateReuseStack.
TreesAreSound == TreeIsSound /\ Two!NodesAreSound

\* The approximate stack knows the same blocks as the exact one, and its distances are
\* too small by at most the part that errorRate allows, see ReuseDistance2Stacks.
ErrorIsBounded == Two!ErrorIsBounded
=============================================================================
