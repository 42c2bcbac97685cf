----------------------------- MODULE FutexLock -----------------------------
(***************************************************************************)
(* The lock of PinReuseDistance/futex_lock.h, which reusedistance.cc can   *)
(* be built with to guard its stacks.  The lock word is 0 when free, 1     *)
(* when taken, 2 when taken and threads may be asleep in the kernel.  Each *)
(* atomic instruction and each system call is a step.  The futex calls are *)
(* the kernel's: FUTEX_WAIT compares and falls asleep in one step, and may *)
(* return without a reason; FUTEX_WAKE wakes one sleeper of its choice.    *)
(***************************************************************************)
EXTENDS Naturals, FiniteSets

CONSTANT Thread

VARIABLES lock,   \* the word
          pc      \* per thread, the instruction it is about to execute

vars == <<lock, pc>>

Control ==
  { "idle",          \* does not want the lock
    "announce",      \* about to turn a 1 into a 2
    "wait",          \* about to call FUTEX_WAIT
    "asleep",        \* in the kernel
    "take",          \* about to turn a 0 into a 2
    "critical",      \* owns the lock
    "wake" }         \* released the lock, about to call FUTEX_WAKE

Init == lock = 0 /\ pc = [t \in Thread |-> "idle"]

At(t, label) == pc[t] = label
Goto(t, label) == pc' = [pc EXCEPT ![t] = label]
Asleep == {t \in Thread : At(t, "asleep")}

-----------------------------------------------------------------------------
(* FutexGetLock                                                            *)

\* The first compare and swap succeeds, or the loop begins.
GetLock(t) ==
  /\ At(t, "idle")
  /\ IF lock = 0 THEN lock' = 1 /\ Goto(t, "critical")
                 ELSE Goto(t, "announce") /\ UNCHANGED lock

\* Whoever is going to sleep marks the lock, unless it has become free.
Announce(t) ==
  /\ At(t, "announce")
  /\ lock' = IF lock = 1 THEN 2 ELSE lock
  /\ Goto(t, IF lock = 0 THEN "take" ELSE "wait")

\* The kernel puts the thread to sleep only if the word is still 2.
FutexWait(t) ==
  /\ At(t, "wait")
  /\ Goto(t, IF lock = 2 THEN "asleep" ELSE "take")
  /\ UNCHANGED lock

\* A signal ends the call.
Interrupted(t) ==
  /\ At(t, "asleep")
  /\ Goto(t, "take")
  /\ UNCHANGED lock

\* Mutant: the lock is taken as if nobody else could be asleep.
TakeAlone(t) ==
  /\ At(t, "take")
  /\ IF lock = 0 THEN lock' = 1 /\ Goto(t, "critical")
                 ELSE Goto(t, "announce") /\ UNCHANGED lock

\* A thread that has waited does not know whether others still do: it leaves a 2.
Take(t) ==
  /\ At(t, "take")
  /\ IF lock = 0 THEN lock' = 2 /\ Goto(t, "critical")
                 ELSE Goto(t, "announce") /\ UNCHANGED lock

-----------------------------------------------------------------------------
(* FutexReleaseLock                                                        *)

\* Mutant: the kernel is called for the other value.
ReleaseInverted(t) ==
  /\ At(t, "critical")
  /\ lock' = 0
  /\ Goto(t, IF lock = 1 THEN "wake" ELSE "idle")

Release(t) ==
  /\ At(t, "critical")
  /\ lock' = 0
  /\ Goto(t, IF lock > 1 THEN "wake" ELSE "idle")

\* FUTEX_WAKE of one thread.
FutexWake(t) ==
  /\ At(t, "wake")
  /\ \/ Asleep = {} /\ Goto(t, "idle")
     \/ \E s \in Asleep : pc' = [pc EXCEPT ![t] = "idle", ![s] = "take"]
  /\ UNCHANGED lock

-----------------------------------------------------------------------------

\* What a thread does of its own accord once it has asked for the lock.
Proceed(t) ==
  Announce(t) \/ FutexWait(t) \/ Take(t) \/ Release(t) \/ FutexWake(t)

Next == \E t \in Thread : GetLock(t) \/ Interrupted(t) \/ Proceed(t)

Spec == Init /\ [][Next]_vars

-----------------------------------------------------------------------------
(* Properties                                                              *)

TypeOK == lock \in 0 .. 2 /\ pc \in [Thread -> Control]

\* The lock word says whether the lock is taken, and never by two threads.
LockWordInv ==
  /\ lock # 0 <=> \E t \in Thread : At(t, "critical")
  /\ \A t, u \in Thread : At(t, "critical") /\ At(u, "critical") => t = u

\* No wake-up is lost: while a thread sleeps, either the word makes the next
\* release call the kernel, or a thread is about to do so, or one that is awake
\* in FutexGetLock will set the word to 2 before it owns the lock or sleeps.
NoLostWakeup ==
  Asleep # {} =>
    \/ lock = 2
    \/ \E t \in Thread : pc[t] \in {"announce", "wait", "take", "wake"}

\* The lock as Mutex describes it.
Waiting == {t \in Thread : pc[t] \in {"announce", "wait", "asleep", "take"}}
Owner == {t \in Thread : At(t, "critical")}
=============================================================================
