------------------------------- MODULE Mutex -------------------------------
(***************************************************************************)
(* What RdaLock and FutexLock promise: at most one thread owns the lock,   *)
(* and the waiting ones get it in any order.                               *)
(***************************************************************************)
CONSTANT Thread

VARIABLES waiting,   \* threads that asked for the lock
          owner      \* the thread that has it, as a set

vars == <<waiting, owner>>

Init == waiting = {} /\ owner = {}

Request(t) ==
  /\ t \notin waiting \cup owner
  /\ waiting' = waiting \cup {t}
  /\ UNCHANGED owner

Acquire(t) ==
  /\ t \in waiting /\ owner = {}
  /\ waiting' = waiting \ {t}
  /\ owner' = {t}

\* The lock is free and nobody has to be asked twice.
AcquireAtOnce(t) ==
  /\ t \notin waiting /\ owner = {}
  /\ owner' = {t}
  /\ UNCHANGED waiting

Release(t) ==
  /\ owner = {t}
  /\ owner' = {}
  /\ UNCHANGED waiting

Next == \E t \in Thread : Request(t) \/ Acquire(t) \/ AcquireAtOnce(t) \/ Release(t)

Spec == Init /\ [][Next]_vars
=============================================================================
