---------------------------- MODULE ThreadQueue ----------------------------
(***************************************************************************)
(* The walks over the circular queue of threads (threadqueue.h) by which   *)
(* the awake threads of a round divide the work for all threads, sleeping  *)
(* ones included: from itself up to the next awake thread.  Slots are      *)
(* numbered from 0, n is their number.                                     *)
(***************************************************************************)
EXTENDS Integers

\* The slot d calls of CircularThreadQueue::GetNextIndex after t.
After(t, d, n) == (t + d) % n

\* Distance from t to the next awake slot; the whole circle if there is none.
Gap(t, awake, n) ==
  CHOOSE d \in 1 .. n :
    /\ d = n \/ After(t, d, n) \in awake
    /\ \A e \in 1 .. d - 1 : After(t, e, n) \notin awake

\* MultistageBarrier::GetAdjacentSleepers throws when t finds itself alone
\* in a round of several threads.
AdjacentFails(t, awake, n, team) == Gap(t, awake, n) = n /\ team # 1

GetAdjacentSleepers(t, awake, n) == After(t, Gap(t, awake, n), n)

\* Mutant: the answer is used as it is.
EndSleepersPlain(t, awake, n) == GetAdjacentSleepers(t, awake, n)

\* SynchronizedOperations turns an answer equal to t into "go once around".
EndSleepers(t, awake, n) ==
  LET next == GetAdjacentSleepers(t, awake, n) IN IF next = t THEN -1 ELSE next

\* Mutant: every thread works for itself only.
WalkSelf(t, end, n) == {t}

\* The slots that the loop "for (i = t; i != end; i = next)" works for.
Walk(t, end, n) ==
  { After(t, d, n) : d \in { e \in 0 .. n - 1 :
                               \A f \in 0 .. e : After(t, f, n) # end } }

\* The slots t works for in a round.
Served(t, awake, n) == Walk(t, EndSleepers(t, awake, n), n)
=============================================================================
