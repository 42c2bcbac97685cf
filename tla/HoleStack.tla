----------------------------- MODULE HoleStack -----------------------------
(***************************************************************************)
(* What a reuse stack with invalidations promises: accesses to a list of   *)
(* blocks and holes, each of which returns the depth it found, and         *)
(* invalidations of blocks that are in the list.                           *)
(***************************************************************************)
EXTENDS HoleList

CONSTANT Address

VARIABLES stack,      \* blocks and holes, last used first
          distance    \* what the last access returned

vars == <<stack, distance>>

Init == stack = <<>> /\ distance = NotFound

Access(a) == stack' = Accessed(stack, a) /\ distance' = DepthIn(stack, a)

Invalidate(a) ==
  /\ a \in BlocksOf(stack)
  /\ stack' = Invalidated(stack, a)
  /\ UNCHANGED distance

Next == \E a \in Address : Access(a) \/ Invalidate(a)

Spec == Init /\ [][Next]_vars
=============================================================================
