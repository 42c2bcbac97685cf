------------------------- MODULE MultistageBarrier -------------------------
(***************************************************************************)
(* The barrier of rda_stacks/src/rda-sync.{h,cc}, used in the way its      *)
(* callers use it: ParallelSampledStack::SynchronizedOperations runs       *)
(* WaitStart, WaitStage(1), WaitStage(2) in this order, and outside of a   *)
(* round a thread may Sleep (Pin: futex wait, thread exit) and later Wake. *)
(*                                                                         *)
(* Grain of atomicity.  What a method does between RdaGetLock and          *)
(* RdaReleaseLock is one step, enabled while lock_ is 0, because it writes *)
(* at most one word that other threads read without the lock.  The one     *)
(* exception is the end of a round, where stage_ is seen to be 3, then 0,  *)
(* and then generation_ is bumped: these are three steps under the lock.   *)
(* Reads in the spin loops take no lock.                                   *)
(*                                                                         *)
(* Slots 0 .. FounderCount-1 are registered before the threads run, as in  *)
(* sync_test.cc; the others call AddThread while the barrier is in use, as *)
(* ParallelSampledStack::GetThreadStack does.                              *)
(***************************************************************************)
EXTENDS Integers, FiniteSets, ThreadQueue

CONSTANTS ThreadCount,     \* threads that ever use the barrier
          FounderCount,    \* those registered before any of them runs
          max_threads,     \* capacity of the barrier (16 in rda-sync.h)
          MaxGeneration    \* bound of the model: no round begins after this one

ASSUME CountAssumption ==
  /\ ThreadCount \in Nat /\ FounderCount \in Nat /\ max_threads \in Nat
  /\ FounderCount <= ThreadCount /\ FounderCount <= max_threads
  /\ max_threads <= ThreadCount

ASSUME GenerationAssumption == MaxGeneration \in Nat

stage_count == 3
Stage == 0 .. stage_count - 1
Thread == 0 .. ThreadCount - 1

VARIABLES
  lock_,            \* the spin lock word, 0 or 1
  threads_,         \* threads the current round waits for
  next_threads_,    \* threads awake: what the next round will wait for
  count_,           \* per stage, the threads counted in
  awake_,           \* per thread
  stage_,           \* stage being waited for
  generation_,      \* number of the round
  total_threads_,   \* slots handed out
  stages,           \* per thread, the last stage it waited at
  generations,      \* per thread, generation_ when it last waited or slept
  pc,               \* per thread, where it is (see Control)
  seen,             \* per thread, the argument of its WaitForEnd
  tally,            \* per thread, rounds it believes to be over (i of sync_test.cc)
  failure           \* the exception that ended the process, or "none"

vars == <<lock_, threads_, next_threads_, count_, awake_, stage_, generation_,
          total_threads_, stages, generations, pc, seen, tally, failure>>

Control ==
  { "unborn",    \* has not called AddThread
    "app",       \* awake, in application code
    "spin",      \* counted in at stages[t], spinning on stage_
    "work",      \* in the synchronised stage that follows stages[t]
    "closing",   \* last to arrive at the last stage: holds the lock, stage_ = 3
    "closed",    \* same thread, stage_ back to 0, generation_ not yet bumped
    "asleep",    \* between Sleep and Wake
    "waiting",   \* Wake found a round in progress: in WaitForEnd
    "waking" }   \* Wake is about to take the lock again

Failures ==
  { "none", "thread returned by barrier # tid", "WaitStart returned 0",
    "invalid argument in wait", "stage wrong in wait",
    "stage or count wrong in waitstart", "sum of threads too high",
    "Sleep during barrier" }

Init ==
  /\ lock_ = 0
  /\ threads_ = 0
  /\ next_threads_ = FounderCount
  /\ count_ = [s \in Stage |-> 0]
  /\ awake_ = [t \in Thread |-> TRUE]
  /\ stage_ = 0
  /\ generation_ = 1
  /\ total_threads_ = FounderCount
  /\ stages = [t \in Thread |-> 0]
  /\ generations = [t \in Thread |-> 0]
  /\ pc = [t \in Thread |-> IF t < FounderCount THEN "app" ELSE "unborn"]
  /\ seen = [t \in Thread |-> 0]
  /\ tally = [t \in Thread |-> 0]
  /\ failure = "none"

Goto(t, label) == pc' = [pc EXCEPT ![t] = label]

\* An uncaught exception: the process ends and nothing else happens.
Throw(what) ==
  /\ failure' = what
  /\ UNCHANGED <<lock_, threads_, next_threads_, count_, awake_, stage_,
                 generation_, total_threads_, stages, generations, pc, seen, tally>>

-----------------------------------------------------------------------------
(* Registration and the barrier itself                                     *)

\* AddThread means to wait for the end of a round, but in a loop on stage_ > 0
\* && count_[0] > 0.  The two never hold together (CountingInv), so the loop is
\* the guard here, and the wait inside it has no action.
Register(t) ==
  /\ ~(stage_ > 0 /\ count_[0] > 0)
  /\ total_threads_' = total_threads_ + 1
  /\ next_threads_' = next_threads_ + 1
  /\ awake_' = [awake_ EXCEPT ![t] = TRUE]
  /\ Goto(t, "app")
  /\ UNCHANGED <<lock_, threads_, count_, stage_, generation_, stages,
                 generations, seen, tally, failure>>

\* The slot number is the thread's identity.  With all slots taken AddThread
\* returns -1, on which its caller GetThreadStack throws.
AddThread(t) ==
  /\ pc[t] = "unborn" /\ t = total_threads_ /\ lock_ = 0
  /\ IF total_threads_ = max_threads
       THEN Throw("thread returned by barrier # tid")
       ELSE Register(t)

\* The team size of a round is fixed by the first thread to arrive.
TeamSize == IF count_[0] = 0 THEN next_threads_ ELSE threads_

\* What both outcomes of counting in at stage s share.
CountIn(t, s) ==
  /\ stages' = [stages EXCEPT ![t] = s]
  /\ generations' = [generations EXCEPT ![t] = generation_]
  /\ UNCHANGED <<next_threads_, awake_, generation_, total_threads_, seen, tally,
                 failure>>

\* Not the last to arrive at stage s: count in, let go of the lock and spin.
JoinWaiters(t, s) ==
  /\ count_' = [count_ EXCEPT ![s] = @ + 1]
  /\ Goto(t, "spin")
  /\ UNCHANGED <<stage_, lock_>>

\* Mutant: the counter is left as it is.
ReleaseStageUncounted(t, s) ==
  /\ UNCHANGED count_
  /\ stage_' = s + 1
  /\ Goto(t, IF s + 1 = stage_count THEN "closing" ELSE "work")
  /\ lock_' = IF s + 1 = stage_count THEN 1 ELSE 0

\* The last to arrive at stage s: reset the counter and release the others.
\* WaitStage goes on under the lock in ResetStage when s is the last stage.
ReleaseStage(t, s) ==
  /\ count_' = [count_ EXCEPT ![s] = 0]
  /\ stage_' = s + 1
  /\ Goto(t, IF s + 1 = stage_count THEN "closing" ELSE "work")
  /\ lock_' = IF s + 1 = stage_count THEN 1 ELSE 0

StartEarly(t) ==
  /\ count_[0] + 1 # TeamSize
  /\ threads_' = TeamSize
  /\ CountIn(t, 0)
  /\ JoinWaiters(t, 0)

StartLast(t) ==
  /\ count_[0] + 1 = TeamSize
  /\ threads_' = TeamSize
  /\ CountIn(t, 0)
  /\ ReleaseStage(t, 0)

\* A sleeping caller would sit the round out and get 0, on which its caller
\* SynchronizedOperations throws.
WaitStart(t) ==
  /\ pc[t] = "app" /\ lock_ = 0
  /\ generation_ <= MaxGeneration
  /\ IF ~awake_[t] THEN Throw("WaitStart returned 0")
     ELSE IF stage_ # 0 \/ count_[1] # 0 \/ count_[2] # 0
            THEN Throw("stage or count wrong in waitstart")
            ELSE StartEarly(t) \/ StartLast(t)

StageEarly(t, s) ==
  /\ count_[s] + 1 # threads_
  /\ CountIn(t, s)
  /\ JoinWaiters(t, s)
  /\ UNCHANGED threads_

StageLast(t, s) ==
  /\ count_[s] + 1 = threads_
  /\ CountIn(t, s)
  /\ ReleaseStage(t, s)
  /\ UNCHANGED threads_

\* The argument of the call is the stage after the one last waited at.
WaitStage(t) ==
  LET stage == stages[t] + 1 IN
  /\ pc[t] = "work" /\ lock_ = 0
  /\ IF ~awake_[t] \/ stage >= stage_count THEN Throw("invalid argument in wait")
     ELSE IF stage_ # stage THEN Throw("stage wrong in wait")
                            ELSE StageEarly(t, stage) \/ StageLast(t, stage)

ResetStage(t) ==
  /\ pc[t] = "closing"
  /\ stage_' = 0
  /\ Goto(t, "closed")
  /\ UNCHANGED <<lock_, threads_, next_threads_, count_, awake_, generation_,
                 total_threads_, stages, generations, seen, tally, failure>>

BumpGeneration(t) ==
  /\ pc[t] = "closed"
  /\ generation_' = generation_ + 1
  /\ lock_' = 0
  /\ tally' = [tally EXCEPT ![t] = @ + 1]
  /\ Goto(t, "app")
  /\ UNCHANGED <<threads_, next_threads_, count_, awake_, stage_,
                 total_threads_, stages, generations, seen, failure>>

Counted == count_[0] + count_[1] + count_[2]

\* The spin loops end when stage_ is seen to have changed: the thread enters
\* the stage's work, or is back in the application after the last stage.
LeaveSpin(t) ==
  /\ IF stages[t] = stage_count - 1
       THEN Goto(t, "app") /\ tally' = [tally EXCEPT ![t] = @ + 1]
       ELSE Goto(t, "work") /\ UNCHANGED tally
  /\ UNCHANGED <<lock_, threads_, next_threads_, count_, awake_, stage_,
                 generation_, total_threads_, stages, generations, seen, failure>>

\* Threads spinning at stages 1 and 2 run this from time to time.  It takes the
\* lock, and does nothing unless it throws.
WaitConsistency(t) ==
  /\ stages[t] > 0 /\ lock_ = 0
  /\ Counted > threads_
  /\ Throw("sum of threads too high")

Spin(t) ==
  /\ pc[t] = "spin"
  /\ IF stage_ # stages[t] THEN LeaveSpin(t) ELSE WaitConsistency(t)

-----------------------------------------------------------------------------
(* Leaving and coming back                                                 *)

\* Mutant: the round in which the thread left is not remembered.
FallAsleepUnrecorded(t) ==
  /\ next_threads_' = next_threads_ - 1
  /\ awake_' = [awake_ EXCEPT ![t] = FALSE]
  /\ Goto(t, "asleep")
  /\ UNCHANGED <<lock_, generation_, generations, total_threads_, stages, seen,
                 tally, failure>>

FallAsleep(t) ==
  /\ next_threads_' = next_threads_ - 1
  /\ awake_' = [awake_ EXCEPT ![t] = FALSE]
  /\ generations' = [generations EXCEPT ![t] = generation_]
  /\ Goto(t, "asleep")
  /\ UNCHANGED <<lock_, generation_, total_threads_, stages, seen, tally, failure>>

\* Mutant: the thread is taken out of the waiting ones.
SleepUncounts(t) ==
  /\ count_[0] = 0
  /\ FallAsleep(t)
  /\ count_' = [count_ EXCEPT ![0] = @ - 1]
  /\ UNCHANGED <<threads_, stage_>>

SleepBetweenRounds(t) ==
  /\ count_[0] = 0
  /\ FallAsleep(t)
  /\ UNCHANGED <<threads_, count_, stage_>>

\* Mutant: the round goes on waiting for this thread.
SleepStaysInTeam(t) ==
  /\ count_[0] # 0
  /\ FallAsleep(t)
  /\ UNCHANGED <<threads_, count_, stage_>>

\* Mutant: nobody looks whether this thread was the last one missing.
SleepReleasesNobody(t) ==
  /\ count_[0] # 0
  /\ FallAsleep(t)
  /\ threads_' = threads_ - 1
  /\ UNCHANGED <<count_, stage_>>

\* Mutant: the team is compared before this thread is taken out of it.
SleepComparesEarly(t) ==
  /\ count_[0] # 0
  /\ FallAsleep(t)
  /\ threads_' = threads_ - 1
  /\ IF count_[0] = threads_
       THEN count_' = [count_ EXCEPT ![0] = 0] /\ stage_' = 1
       ELSE UNCHANGED <<count_, stage_>>

\* Others wait at stage 0: the round goes on without this thread, which may
\* have been the last one missing.
SleepLeavesTeam(t) ==
  /\ count_[0] # 0
  /\ FallAsleep(t)
  /\ threads_' = threads_ - 1
  /\ IF count_[0] = threads_ - 1
       THEN count_' = [count_ EXCEPT ![0] = 0] /\ stage_' = 1
       ELSE UNCHANGED <<count_, stage_>>

Sleep(t) ==
  /\ pc[t] = "app" /\ lock_ = 0
  /\ IF stage_ > 0 THEN Throw("Sleep during barrier")
                   ELSE SleepBetweenRounds(t) \/ SleepLeavesTeam(t)

\* Mutants: Wake with the condition of AddThread, and with half of its own.
NeverInProgress == stage_ > 0 /\ count_[0] > 0
OnlyGathering == count_[0] > 0
OnlyReleased == stage_ > 0

RoundInProgress == stage_ > 0 \/ count_[0] > 0

\* Wake retries until it finds no round in progress.
WakeMustWait(t) ==
  /\ RoundInProgress
  /\ seen' = [seen EXCEPT ![t] = generation_]
  /\ Goto(t, "waiting")
  /\ UNCHANGED <<lock_, threads_, next_threads_, count_, awake_, stage_,
                 generation_, total_threads_, stages, generations, tally, failure>>

\* Wake returns the number of rounds that were missed.
WakeSucceeds(t) ==
  /\ ~RoundInProgress
  /\ next_threads_' = next_threads_ + 1
  /\ awake_' = [awake_ EXCEPT ![t] = TRUE]
  /\ tally' = [tally EXCEPT ![t] = @ + generation_ - generations[t]]
  /\ Goto(t, "app")
  /\ UNCHANGED <<lock_, threads_, count_, stage_, generation_, total_threads_,
                 stages, generations, seen, failure>>

Wake(t) ==
  /\ pc[t] \in {"asleep", "waking"} /\ lock_ = 0
  /\ WakeMustWait(t) \/ WakeSucceeds(t)

WaitForEnd(t) ==
  /\ pc[t] = "waiting"
  /\ generation_ # seen[t]
  /\ Goto(t, "waking")
  /\ UNCHANGED <<lock_, threads_, next_threads_, count_, awake_, stage_,
                 generation_, total_threads_, stages, generations, seen, tally,
                 failure>>

-----------------------------------------------------------------------------

ThreadStep(t) ==
  \/ AddThread(t) \/ WaitStart(t) \/ WaitStage(t)
  \/ ResetStage(t) \/ BumpGeneration(t) \/ Spin(t)
  \/ Sleep(t) \/ Wake(t) \/ WaitForEnd(t)

Next == failure = "none" /\ \E t \in Thread : ThreadStep(t)

Spec == Init /\ [][Next]_vars

(***************************************************************************)
(* Fairness.  A thread inside a barrier method, or in the finite work of a *)
(* stage, keeps running and obtains lock_ when it needs it; an awake       *)
(* thread in application code comes to its next memory reference, where it *)
(* sees the synchronize flag, or falls asleep.  Nothing makes a sleeping   *)
(* thread wake, or a new one appear.                                       *)
(***************************************************************************)
Obliged(t) ==
  \/ WaitStart(t) \/ Sleep(t)
  \/ WaitStage(t) \/ ResetStage(t) \/ BumpGeneration(t) \/ Spin(t)
  \/ WaitForEnd(t)
  \/ pc[t] = "waking" /\ Wake(t)

FairSpec == Spec /\ \A t \in Thread : WF_vars(failure = "none" /\ Obliged(t))

-----------------------------------------------------------------------------
(* Properties                                                              *)

Awake == {t \in Thread : t < total_threads_ /\ awake_[t]}

Waiters(s) == {t \in Thread : pc[t] = "spin" /\ stages[t] = s}

TypeOK ==
  /\ lock_ \in {0, 1}
  /\ threads_ \in Int
  /\ next_threads_ \in Int
  /\ count_ \in [Stage -> Nat]
  /\ awake_ \in [Thread -> BOOLEAN]
  /\ stage_ \in 0 .. stage_count
  /\ generation_ \in Nat
  /\ total_threads_ \in 0 .. max_threads
  /\ stages \in [Thread -> Stage]
  /\ generations \in [Thread -> Nat]
  /\ pc \in [Thread -> Control]
  /\ seen \in [Thread -> Nat]
  /\ tally \in [Thread -> Int]
  /\ failure \in Failures

\* The segment of the round a thread is in: application code (0), the first or
\* the second synchronised stage.  A spinning thread enters the next segment at
\* the moment stage_ changes, even if it has not seen it yet.
SegmentOf(t) ==
  CASE pc[t] = "work" -> stages[t] + 1
    [] pc[t] = "spin" -> IF stage_ = stages[t] THEN stages[t]
                                               ELSE (stages[t] + 1) % stage_count
    [] OTHER -> 0

\* While one thread does the work of a synchronised stage, every awake thread
\* is in that stage: none runs application code, none is a stage ahead or
\* behind.  The unlocked walks of SynchronizedOperations over other threads'
\* lists rely on it.
StageSeparation ==
  \A t, u \in Awake : pc[t] = "work" => SegmentOf(u) = SegmentOf(t)

\* None of the exceptions of rda-sync.cc is ever thrown.
NoFailure == failure = "none"

\* next_threads_ counts the awake threads; while threads wait at a stage,
\* threads_ is the number of awake threads and the stage's counter the number
\* of waiting ones, and never all of them.
TeamAccounting ==
  /\ next_threads_ = Cardinality(Awake)
  /\ \A s \in Stage : count_[s] # 0 =>
        /\ stage_ = s
        /\ count_[s] = Cardinality(Waiters(s))
        /\ threads_ = Cardinality(Awake)
        /\ count_[s] < threads_

\* A thread in application code has counted every finished round exactly once,
\* whether it took part in it or was told of it by Wake: the sleeping worker of
\* sync_test.cc stops after kBarrierLoops rounds like the others because of it.
RoundLedger ==
  \A t \in Awake : lock_ = 0 /\ pc[t] = "app" => tally[t] = generation_ - 1

\* During the synchronised stages of a round the awake threads divide all
\* registered slots among themselves: no slot is left out because its thread
\* sleeps, none is worked on by two threads, and GetAdjacentSleepers does not
\* throw.
EverySlotServedOnce ==
  \A t \in Awake : pc[t] = "work" =>
    /\ ~AdjacentFails(t, Awake, total_threads_, threads_)
    /\ \A slot \in 0 .. total_threads_ - 1 :
          Cardinality({u \in Awake : slot \in Served(u, Awake, total_threads_)}) = 1

\* A waiting thread is never one too many, so WaitConsistency never throws and
\* a full team never goes unnoticed, even if threads join at any time.
NoMissedRelease ==
  \A s \in Stage : count_[s] # 0 => count_[s] < threads_ /\ Counted = count_[s]

\* What the code maintains whatever threads join and when.  The count of awake
\* threads is right, the lock word is held exactly while a round is being
\* closed, and only the current stage has waiting threads.
Sleepers == {"asleep", "waiting", "waking"}
Closers == {t \in Thread : pc[t] \in {"closing", "closed"}}

RegistrationInv ==
  /\ \A t \in Thread : t < total_threads_ <=> pc[t] # "unborn"
  /\ \A t \in Thread : awake_[t] <=> pc[t] \notin Sleepers
  /\ next_threads_ = Cardinality(Awake)

ClosingInv ==
  /\ lock_ = 1 <=> Closers # {}
  /\ \A t, u \in Closers : t = u
  /\ \A t \in Closers : stage_ = IF pc[t] = "closing" THEN stage_count ELSE 0
  /\ stage_ = stage_count => lock_ = 1

CountingInv ==
  /\ \A s \in Stage : count_[s] # 0 =>
        stage_ = s /\ lock_ = 0 /\ count_[s] < threads_
  /\ stage_ \in {1, 2} => threads_ >= 1

Bookkeeping == RegistrationInv /\ ClosingInv /\ CountingInv

\* Where a thread can be while stage_ has a given value.
InStep(t) ==
  \/ pc[t] \in Sleepers \cup {"closing", "closed"}
  \/ pc[t] = "app" /\ stage_ \in {0, stage_count}
  \/ pc[t] = "work" /\ stages[t] + 1 = stage_ /\ stage_ < stage_count
  \/ pc[t] = "spin" /\ \/ stage_ \in {stages[t], stages[t] + 1}
                       \/ stage_ = 0 /\ stages[t] = stage_count - 1

\* When all threads are registered at the start the team stays together: the
\* strengthening from which the properties above follow.
TeamInv ==
  /\ total_threads_ = ThreadCount
  /\ failure = "none"
  /\ stage_ \in Stage => count_[stage_] = Cardinality(Waiters(stage_))
  /\ count_[0] # 0 \/ stage_ \in {1, 2} => threads_ = Cardinality(Awake)
  /\ \A t \in Thread : InStep(t)

\* The rounds each thread has counted, in terms of where it is.  The current
\* round is generation_ + lock_, as lock_ is 1 only at the end of a round.
Due(t) ==
  IF pc[t] \in Sleepers THEN generations[t] - 1
  ELSE IF \/ pc[t] \in {"closing", "closed"}
          \/ pc[t] = "spin" /\ stages[t] = 2 /\ stage_ # 2
         THEN generation_ + lock_ - 2
         ELSE generation_ + lock_ - 1

LedgerInv == \A t \in Thread : tally[t] = Due(t)

\* From the release of a round to its end no thread changes between awake and
\* asleep, so the division of the slots computed in stage 1 holds in stage 2.
AwakeFrozenDuringRound == [][stage_ # 0 => awake_' = awake_]_vars

\* Whoever spins in the barrier is released, and a Wake that found a round in
\* progress gets past the end of that round.
NobodySpinsForever ==
  \A t \in Thread : /\ pc[t] = "spin" ~> pc[t] # "spin"
                    /\ pc[t] = "waiting" ~> pc[t] = "waking"

\* The state of the barrier as StagedRendezvous describes it.  The round counts
\* as over when stage_ becomes 3: that is when the spinning threads can leave.
Asleep == {t \in Thread : ~awake_[t]}
Arrived == {t \in Thread : pc[t] = "spin" /\ stages[t] = stage_}
Segment == stage_ % stage_count
Round == generation_ + lock_

Rendezvous == INSTANCE StagedRendezvous WITH
  StageCount <- stage_count,
  asleep <- Asleep, segment <- Segment, arrived <- Arrived, round <- Round

\* The barrier implements StagedRendezvous: with all its locks, counters and
\* spinning it lets the awake threads through segment by segment, all at once.
ImplementsRendezvous == Rendezvous!Spec
=============================================================================
