------------------------ MODULE ReuseDistance2Stacks ------------------------
(***************************************************************************)
(* The Pin tool reusedistance2stacks.cc: every access goes to an exact and *)
(* to an approximate stack of the thread, and the distances are compared.  *)
(* The exact stack is the list that TreeReuseStack is shown to implement.  *)
(*                                                                         *)
(* These are the stacks of one thread; a write of another thread is an     *)
(* invalidation at any time.  An access is one block, and what happens     *)
(* under stacks_lock is one step.                                          *)
(***************************************************************************)
EXTENDS ApproximateReuseStack

VARIABLES
  stack,         \* the exact stack, see HoleList
  d1,            \* what the exact stack returned for the last access
  worst_error    \* as a fraction: d2 - d1 and d1

toolVars == <<stack, d1, worst_error, vars>>

List == INSTANCE HoleList

ToolInit ==
  /\ Init
  /\ stack = <<>> /\ d1 = kStackNotFound
  /\ worst_error = <<0, 1>>

\* Both stacks return the same constant for a block that is not found.
ErrorOf(exact, approximate) ==
  IF exact \in {0, kStackNotFound} THEN <<0, 1>> ELSE <<approximate - exact, exact>>

Larger(e, f) == IF e[1] * f[2] > f[1] * e[2] THEN e ELSE f

\* RecordMemRead and RecordMemWrite; d2 is distance.
RecordMem(addr) ==
  /\ d1' = List!DepthIn(stack, addr)
  /\ stack' = List!Accessed(stack, addr)
  /\ StackAccess(addr)
  /\ worst_error' = Larger(ErrorOf(d1', distance'), worst_error)

\* Another thread writes the block.
Snooped(addr) ==
  /\ SnoopInvalidate(addr)
  /\ stack' = List!Invalidated(stack, addr)
  /\ UNCHANGED <<d1, worst_error>>

ToolNext == \E a \in Address : RecordMem(a) \/ Snooped(a)

ToolSpec == ToolInit /\ [][ToolNext]_toolVars

-----------------------------------------------------------------------------
(* Properties                                                              *)

\* The approximate stack knows the same blocks as the exact one, and its distance is
\* too small by at most the part of it that errorRate allows, however often nodes were
\* merged, left by their blocks or filled at a hole.
ErrorIsBounded ==
  IF d1 = kStackNotFound THEN distance = kStackNotFound
  ELSE /\ distance <= d1
       /\ distance * errorRate.den >= d1 * (errorRate.den - errorRate.num)
=============================================================================
