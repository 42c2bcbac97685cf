----------------------------- MODULE FifoMutex -----------------------------
(***************************************************************************)
(* What the ticket lock promises: at most one thread owns the lock, and    *)
(* threads get it in the order in which they asked.                        *)
(***************************************************************************)
EXTENDS Sequences

CONSTANT Thread

VARIABLES queue,   \* the waiting threads, first come first
          owner    \* the thread that has the lock, as a set

vars == <<queue, owner>>

Init == queue = <<>> /\ owner = {}

Request(t) ==
  /\ \A i \in DOMAIN queue : queue[i] # t
  /\ t \notin owner
  /\ queue' = Append(queue, t)
  /\ UNCHANGED owner

Acquire ==
  /\ queue # <<>> /\ owner = {}
  /\ owner' = {Head(queue)}
  /\ queue' = Tail(queue)

\* The lock is free and nobody is waiting.
AcquireAtOnce(t) ==
  /\ queue = <<>> /\ owner = {}
  /\ owner' = {t}
  /\ UNCHANGED queue

Release ==
  /\ owner # {}
  /\ owner' = {}
  /\ UNCHANGED queue

Next == Acquire \/ Release \/ \E t \in Thread : Request(t) \/ AcquireAtOnce(t)

Spec == Init /\ [][Next]_vars
=============================================================================
