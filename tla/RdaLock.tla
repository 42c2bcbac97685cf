------------------------------ MODULE RdaLock ------------------------------
(***************************************************************************)
(* The spin lock of rda_stacks/src/rda-sync.h, which guards the barrier,   *)
(* the write set lists and the registration of threads: test and set,      *)
(* after a failure only reads until the word is seen to be 0.              *)
(***************************************************************************)
EXTENDS Naturals

CONSTANT Thread

VARIABLES lock,   \* the word, 0 or 1
          pc      \* per thread: "idle", "test" (about to test and set), "spin"
                  \* (about to read), "critical"

vars == <<lock, pc>>

Init == lock = 0 /\ pc = [t \in Thread |-> "idle"]

At(t, label) == pc[t] = label
Goto(t, label) == pc' = [pc EXCEPT ![t] = label]

GetLock(t) ==
  /\ At(t, "idle")
  /\ Goto(t, "test")
  /\ UNCHANGED lock

\* Mutant: the word is taken to be 0.
SetBlindly(t) ==
  /\ At(t, "test")
  /\ lock' = 1
  /\ Goto(t, "critical")

\* The exchange returns what the word was, and leaves a 1 in any case.
TestAndSet(t) ==
  /\ At(t, "test")
  /\ lock' = 1
  /\ Goto(t, IF lock = 0 THEN "critical" ELSE "spin")

\* A read that finds a 1 changes nothing.
Spin(t) ==
  /\ At(t, "spin") /\ lock = 0
  /\ Goto(t, "test")
  /\ UNCHANGED lock

TryLock(t) ==
  /\ At(t, "idle")
  /\ lock' = 1
  /\ Goto(t, IF lock = 0 THEN "critical" ELSE "idle")

\* Also the destructor of a LockHolder.
ReleaseLock(t) ==
  /\ At(t, "critical")
  /\ lock' = 0
  /\ Goto(t, "idle")

\* What a thread does of its own accord once it has asked for the lock.
Proceed(t) == TestAndSet(t) \/ Spin(t) \/ ReleaseLock(t)

Next == \E t \in Thread : GetLock(t) \/ TryLock(t) \/ Proceed(t)

Spec == Init /\ [][Next]_vars

-----------------------------------------------------------------------------

\* The lock as Mutex describes it.
Waiting == {t \in Thread : pc[t] \in {"test", "spin"}}
Owner == {t \in Thread : At(t, "critical")}
=============================================================================
