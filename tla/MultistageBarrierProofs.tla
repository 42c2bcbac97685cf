---------------------- MODULE MultistageBarrierProofs ----------------------
(***************************************************************************)
(* Theorems about MultistageBarrier, for every number of threads.          *)
(*                                                                         *)
(* Bookkeeping is inductive on its own, whatever threads join and when, so *)
(* NoMissedRelease holds without restriction.  When all threads are        *)
(* registered at the start (TeamIsFixed), TeamInv and LedgerInv are        *)
(* inductive on top of it, and StageSeparation, NoFailure, TeamAccounting, *)
(* RoundLedger, AwakeFrozenDuringRound and the refinement follow.          *)
(***************************************************************************)
EXTENDS MultistageBarrier, ThreadQueueProofs, FiniteSetTheorems, TLAPS

-----------------------------------------------------------------------------
(* Facts about finite sets of threads                                      *)

LEMMA ThreadIsFinite ==
  /\ IsFiniteSet(Thread)
  /\ \A S \in SUBSET Thread : IsFiniteSet(S) /\ Cardinality(S) \in Nat
<1>1. IsFiniteSet(Thread)
  BY CountAssumption, FS_Interval DEF Thread
<1>2. ASSUME NEW S \in SUBSET Thread
      PROVE  IsFiniteSet(S) /\ Cardinality(S) \in Nat
  BY <1>1, FS_Subset, FS_CardinalityType
<1>. QED  BY <1>1, <1>2

\* One more element fills a set exactly when it was the only one missing.
LEMMA LastOne ==
  ASSUME NEW S \in SUBSET Thread, NEW T \in SUBSET S, NEW x \in S, x \notin T
  PROVE  Cardinality(T) + 1 = Cardinality(S) <=> T \cup {x} = S
<1>1. /\ IsFiniteSet(S) /\ IsFiniteSet(T)
      /\ Cardinality(S) \in Nat /\ Cardinality(T) \in Nat
  BY ThreadIsFinite
<1>2. Cardinality(T \cup {x}) = Cardinality(T) + 1
  BY <1>1, FS_AddElement
<1>3. Cardinality(T \cup {x}) = Cardinality(S) => T \cup {x} = S
  BY <1>1, FS_Subset
<1>. QED  BY <1>2, <1>3

LEMMA OneMore ==
  ASSUME NEW S \in SUBSET Thread, NEW x, x \notin S
  PROVE  Cardinality(S \cup {x}) = Cardinality(S) + 1
  BY ThreadIsFinite, FS_AddElement

LEMMA OneLess ==
  ASSUME NEW S \in SUBSET Thread, NEW x \in S
  PROVE  Cardinality(S \ {x}) = Cardinality(S) - 1
  BY ThreadIsFinite, FS_RemoveElement

LEMMA AwakeThreads == Awake \in SUBSET Thread
  BY DEF Awake

LEMMA Nonempty ==
  ASSUME NEW S \in SUBSET Thread, NEW x \in S
  PROVE  Cardinality(S) >= 1
  BY ThreadIsFinite, FS_EmptySet


-----------------------------------------------------------------------------
(* The steps, one by one, with the guards that lead to each                *)

Joins(t) ==
  pc[t] = "unborn" /\ t = total_threads_ /\ lock_ = 0 /\ t # max_threads /\ Register(t)

\* t may count in for the round, or for the stage that follows its last one.
AtStart(t) ==
  /\ pc[t] = "app" /\ lock_ = 0 /\ awake_[t]
  /\ stage_ = 0 /\ count_[1] = 0 /\ count_[2] = 0
AtStage(t, s) ==
  /\ pc[t] = "work" /\ lock_ = 0 /\ awake_[t]
  /\ s \in {1, 2} /\ stages[t] + 1 = s /\ stage_ = s

Released(t) == pc[t] = "spin" /\ stage_ # stages[t] /\ LeaveSpin(t)
DozesOff(t) == pc[t] = "app" /\ lock_ = 0 /\ stage_ = 0 /\ SleepBetweenRounds(t)
DropsOut(t) == pc[t] = "app" /\ lock_ = 0 /\ stage_ = 0 /\ SleepLeavesTeam(t)
Retries(t) == pc[t] \in {"asleep", "waking"} /\ lock_ = 0 /\ WakeMustWait(t)
Returns(t) == pc[t] \in {"asleep", "waking"} /\ lock_ = 0 /\ WakeSucceeds(t)

LEMMA StepCases ==
  ASSUME TypeOK, Next
  PROVE  \/ \E w \in Failures : Throw(w)
         \/ \E t \in Thread :
              \/ Joins(t)
              \/ AtStart(t) /\ StartEarly(t)
              \/ AtStart(t) /\ StartLast(t)
              \/ \E s \in {1, 2} : AtStage(t, s) /\ StageEarly(t, s)
              \/ \E s \in {1, 2} : AtStage(t, s) /\ StageLast(t, s)
              \/ ResetStage(t) \/ BumpGeneration(t) \/ Released(t)
              \/ DozesOff(t) \/ DropsOut(t) \/ Retries(t) \/ Returns(t)
              \/ WaitForEnd(t)
<1>. PICK t \in Thread : ThreadStep(t)
  BY DEF Next
<1>1. CASE AddThread(t)
  BY <1>1 DEF AddThread, Joins, Failures
<1>2. CASE WaitStart(t)
  BY <1>2 DEF WaitStart, AtStart, Failures
<1>3. CASE WaitStage(t)
  <2>1. CASE ~awake_[t] \/ stages[t] + 1 >= stage_count
    BY <1>3, <2>1 DEF WaitStage, Failures
  <2>2. CASE awake_[t] /\ ~(stages[t] + 1 >= stage_count) /\ stage_ # stages[t] + 1
    BY <1>3, <2>2 DEF WaitStage, Failures
  <2>3. CASE awake_[t] /\ ~(stages[t] + 1 >= stage_count) /\ stage_ = stages[t] + 1
    <3>1. stages[t] + 1 \in {1, 2}
      BY <2>3 DEF TypeOK, Stage, stage_count
    <3>2. /\ pc[t] = "work" /\ lock_ = 0
          /\ StageEarly(t, stages[t] + 1) \/ StageLast(t, stages[t] + 1)
      BY <1>3, <2>3 DEF WaitStage
    <3>. QED  BY <2>3, <3>1, <3>2 DEF AtStage
  <2>. QED  BY <2>1, <2>2, <2>3
<1>4. CASE Spin(t)
  BY <1>4 DEF Spin, Released, WaitConsistency, Failures
<1>5. CASE Sleep(t)
  <2>1. stage_ = 0 \/ stage_ > 0
    BY DEF TypeOK, stage_count
  <2>. QED  BY <1>5, <2>1 DEF Sleep, DozesOff, DropsOut, Failures
<1>6. CASE Wake(t)
  BY <1>6 DEF Wake, Retries, Returns
<1>. QED
  BY <1>1, <1>2, <1>3, <1>4, <1>5, <1>6 DEF ThreadStep

-----------------------------------------------------------------------------
(* Types                                                                   *)

LEMMA TypeInit == Init => TypeOK
  BY CountAssumption
  DEF Init, TypeOK, Stage, stage_count, Control, Failures, Thread

LEMMA TypeStep == TypeOK /\ [Next]_vars => TypeOK'
<1>. SUFFICES ASSUME TypeOK, [Next]_vars PROVE TypeOK'
  OBVIOUS
<1>. USE DEF TypeOK, Goto, Control, Stage, stage_count
<1>1. ASSUME NEW w \in Failures, Throw(w) PROVE TypeOK'
  BY <1>1 DEF Throw
<1>2. ASSUME NEW t \in Thread, Joins(t) PROVE TypeOK'
  BY <1>2, CountAssumption DEF Joins, Register
<1>3. ASSUME NEW t \in Thread, StartEarly(t) PROVE TypeOK'
  BY <1>3 DEF StartEarly, CountIn, JoinWaiters, TeamSize
<1>4. ASSUME NEW t \in Thread, StartLast(t) PROVE TypeOK'
  BY <1>4 DEF StartLast, CountIn, ReleaseStage, TeamSize
<1>5. ASSUME NEW t \in Thread, NEW s \in {1, 2}, StageEarly(t, s) PROVE TypeOK'
  BY <1>5 DEF StageEarly, CountIn, JoinWaiters
<1>6. ASSUME NEW t \in Thread, NEW s \in {1, 2}, StageLast(t, s) PROVE TypeOK'
  BY <1>6 DEF StageLast, CountIn, ReleaseStage
<1>7. ASSUME NEW t \in Thread, ResetStage(t) PROVE TypeOK'
  BY <1>7 DEF ResetStage
<1>8. ASSUME NEW t \in Thread, BumpGeneration(t) PROVE TypeOK'
  BY <1>8 DEF BumpGeneration
<1>9. ASSUME NEW t \in Thread, Released(t) PROVE TypeOK'
  BY <1>9 DEF Released, LeaveSpin
<1>10. ASSUME NEW t \in Thread, DozesOff(t) PROVE TypeOK'
  BY <1>10 DEF DozesOff, SleepBetweenRounds, FallAsleep
<1>11. ASSUME NEW t \in Thread, DropsOut(t) PROVE TypeOK'
  BY <1>11 DEF DropsOut, SleepLeavesTeam, FallAsleep
<1>12. ASSUME NEW t \in Thread, Retries(t) PROVE TypeOK'
  BY <1>12 DEF Retries, WakeMustWait
<1>13. ASSUME NEW t \in Thread, Returns(t) PROVE TypeOK'
  BY <1>13 DEF Returns, WakeSucceeds
<1>14. ASSUME NEW t \in Thread, WaitForEnd(t) PROVE TypeOK'
  BY <1>14 DEF WaitForEnd
<1>15. CASE UNCHANGED vars
  BY <1>15 DEF vars
<1>. HIDE DEF TypeOK, Goto, Control, Stage, stage_count
<1>. QED
  BY StepCases, <1>1, <1>2, <1>3, <1>4, <1>5, <1>6, <1>7, <1>8, <1>9, <1>10,
     <1>11, <1>12, <1>13, <1>14, <1>15

\* Every variable keeps its type, for any numbers of founders and of threads
\* that join later.
THEOREM TypeCorrect == Spec => []TypeOK
  BY TypeInit, TypeStep, PTL DEF Spec

-----------------------------------------------------------------------------
(* Bookkeeping                                                             *)

LEMMA BookkeepingInit == Init => Bookkeeping
<1>. SUFFICES ASSUME Init PROVE Bookkeeping
  OBVIOUS
<1>. USE DEF Init
<1>1. RegistrationInv
  <2>1. Awake = 0 .. FounderCount - 1
    BY CountAssumption DEF Awake, Thread
  <2>2. Cardinality(Awake) = FounderCount
    BY <2>1, CountAssumption, FS_Interval
  <2>. QED  BY <2>2 DEF RegistrationInv, Sleepers
<1>2. ClosingInv
  BY DEF ClosingInv, Closers, stage_count
<1>3. CountingInv
  BY DEF CountingInv, Stage, stage_count
<1>. QED  BY <1>1, <1>2, <1>3 DEF Bookkeeping

LEMMA RegistrationStep ==
  ASSUME TypeOK, RegistrationInv, Next
  PROVE  RegistrationInv'
<1>. USE DEF TypeOK, RegistrationInv, Goto, Sleepers, Control
<1>0. ASSUME UNCHANGED <<total_threads_, awake_>> PROVE Awake' = Awake
  BY <1>0 DEF Awake
<1>1. ASSUME NEW w \in Failures, Throw(w) PROVE RegistrationInv'
  BY <1>0, <1>1 DEF Throw
<1>2. ASSUME NEW t \in Thread, Joins(t) PROVE RegistrationInv'
  <2>1. /\ total_threads_' = t + 1 /\ t = total_threads_
        /\ awake_' = [awake_ EXCEPT ![t] = TRUE]
    BY <1>2 DEF Joins, Register
  <2>2. t \notin Awake /\ Awake' = Awake \cup {t}
    <3>1. ~(t < t) /\ \A u \in Thread : u < t + 1 <=> u < t \/ u = t
      BY <1>2 DEF Thread
    <3>2. awake_'[t] /\ \A u \in Thread : u # t => awake_'[u] = awake_[u]
      BY <2>1
    <3>3. \A u \in Thread : u \in Awake' <=> u \in Awake \/ u = t
      BY <2>1, <3>1, <3>2 DEF Awake
    <3>4. t \notin Awake
      BY <2>1, <3>1 DEF Awake
    <3>. QED  BY <3>3, <3>4 DEF Awake
  <2>3. Cardinality(Awake') = Cardinality(Awake) + 1
    BY <2>2, AwakeThreads, OneMore
  <2>. QED  BY <1>2, <2>1, <2>3 DEF Joins, Register, Thread
<1>3. ASSUME NEW t \in Thread, AtStart(t), StartEarly(t) PROVE RegistrationInv'
  BY <1>0, <1>3 DEF AtStart, StartEarly, CountIn, JoinWaiters
<1>4. ASSUME NEW t \in Thread, AtStart(t), StartLast(t) PROVE RegistrationInv'
  BY <1>0, <1>4 DEF AtStart, StartLast, CountIn, ReleaseStage, stage_count
<1>5. ASSUME NEW t \in Thread, NEW s \in {1, 2}, AtStage(t, s), StageEarly(t, s)
      PROVE RegistrationInv'
  BY <1>0, <1>5 DEF AtStage, StageEarly, CountIn, JoinWaiters
<1>6. ASSUME NEW t \in Thread, NEW s \in {1, 2}, AtStage(t, s), StageLast(t, s)
      PROVE RegistrationInv'
  BY <1>0, <1>6 DEF AtStage, StageLast, CountIn, ReleaseStage
<1>7. ASSUME NEW t \in Thread, ResetStage(t) PROVE RegistrationInv'
  BY <1>0, <1>7 DEF ResetStage
<1>8. ASSUME NEW t \in Thread, BumpGeneration(t) PROVE RegistrationInv'
  BY <1>0, <1>8 DEF BumpGeneration
<1>9. ASSUME NEW t \in Thread, Released(t) PROVE RegistrationInv'
  BY <1>0, <1>9 DEF Released, LeaveSpin
<1>10. ASSUME NEW t \in Thread, FallAsleep(t), pc[t] = "app" PROVE RegistrationInv'
  <2>1. t \in Awake /\ Awake' = Awake \ {t}
    BY <1>10 DEF FallAsleep, Awake
  <2>2. Cardinality(Awake') = Cardinality(Awake) - 1
    BY <2>1, AwakeThreads, OneLess
  <2>. QED  BY <1>10, <2>2 DEF FallAsleep
<1>11. ASSUME NEW t \in Thread, Retries(t) PROVE RegistrationInv'
  BY <1>0, <1>11 DEF Retries, WakeMustWait
<1>12. ASSUME NEW t \in Thread, Returns(t) PROVE RegistrationInv'
  <2>1. t \notin Awake /\ Awake' = Awake \cup {t}
    BY <1>12 DEF Returns, WakeSucceeds, Awake
  <2>2. Cardinality(Awake') = Cardinality(Awake) + 1
    BY <2>1, AwakeThreads, OneMore
  <2>. QED  BY <1>12, <2>2 DEF Returns, WakeSucceeds
<1>13. ASSUME NEW t \in Thread, WaitForEnd(t) PROVE RegistrationInv'
  BY <1>0, <1>13 DEF WaitForEnd
<1>. HIDE DEF TypeOK, RegistrationInv, Goto, Sleepers, Control
<1>. QED
  BY StepCases, <1>1, <1>2, <1>3, <1>4, <1>5, <1>6, <1>7, <1>8, <1>9, <1>10,
     <1>11, <1>12, <1>13
  DEF DozesOff, DropsOut, SleepBetweenRounds, SleepLeavesTeam

LEMMA ClosingStep ==
  ASSUME TypeOK, ClosingInv, Next
  PROVE  ClosingInv'
<1>. USE DEF ClosingInv, Closers, stage_count
<1>pc. pc \in [Thread -> Control] /\ lock_ \in {0, 1} /\ stage_ \in {0, 1, 2, 3}
  BY DEF TypeOK, stage_count
\* A step that leaves lock_ and stage_ alone and no thread enters or leaves
\* the closing of a round.
<1>0. ASSUME UNCHANGED <<lock_, stage_>>, NEW t \in Thread, NEW l \in Control,
             l \notin {"closing", "closed"}, t \notin Closers, Goto(t, l)
      PROVE  ClosingInv'
  BY <1>pc, <1>0 DEF Goto
\* A step in which the lock was free, moves stage_ to 1 or 2 and keeps it free.
<1>00. ASSUME lock_ = 0, lock_' = 0, stage_' \in {1, 2}, NEW t \in Thread,
              NEW l \in Control, l \notin {"closing", "closed"}, Goto(t, l)
       PROVE  ClosingInv'
  BY <1>pc, <1>00 DEF Goto
<1>1. ASSUME NEW w \in Failures, Throw(w) PROVE ClosingInv'
  BY <1>1 DEF Throw
<1>2. ASSUME NEW t \in Thread, Joins(t) PROVE ClosingInv'
  BY <1>0, <1>2 DEF Joins, Register, Control
<1>3. ASSUME NEW t \in Thread, AtStart(t), StartEarly(t) PROVE ClosingInv'
  BY <1>0, <1>3 DEF AtStart, StartEarly, JoinWaiters, Control
<1>4. ASSUME NEW t \in Thread, AtStart(t), StartLast(t) PROVE ClosingInv'
  <2>1. lock_ = 0 /\ lock_' = 0 /\ stage_' = 1 /\ Goto(t, "work")
    BY <1>4 DEF AtStart, StartLast, ReleaseStage
  <2>. QED  BY <1>00, <2>1 DEF Control
<1>5. ASSUME NEW t \in Thread, NEW s \in {1, 2}, AtStage(t, s), StageEarly(t, s)
      PROVE ClosingInv'
  BY <1>0, <1>5 DEF AtStage, StageEarly, JoinWaiters, Control
<1>6. ASSUME NEW t \in Thread, NEW s \in {1, 2}, AtStage(t, s), StageLast(t, s)
      PROVE ClosingInv'
  <2>1. CASE s = 1
    <3>1. lock_ = 0 /\ lock_' = 0 /\ stage_' = 2 /\ Goto(t, "work")
      BY <1>6, <2>1 DEF AtStage, StageLast, ReleaseStage
    <3>. QED  BY <1>00, <3>1 DEF Control
  <2>2. CASE s = 2
    <3>1. lock_ = 0 /\ lock_' = 1 /\ stage_' = 3 /\ Goto(t, "closing")
      BY <1>6, <2>2 DEF AtStage, StageLast, ReleaseStage
    <3>2. Closers = {} /\ Closers' = {t} /\ pc'[t] = "closing"
      BY <1>pc, <3>1 DEF Goto
    <3>. QED  BY <3>1, <3>2
  <2>. QED  BY <2>1, <2>2
<1>7. ASSUME NEW t \in Thread, ResetStage(t) PROVE ClosingInv'
  <2>1. Closers = {t} /\ Closers' = {t} /\ pc'[t] = "closed"
    BY <1>pc, <1>7 DEF ResetStage, Goto
  <2>. QED  BY <1>7, <2>1 DEF ResetStage
<1>8. ASSUME NEW t \in Thread, BumpGeneration(t) PROVE ClosingInv'
  <2>1. Closers = {t} /\ Closers' = {} /\ stage_ = 0
    BY <1>pc, <1>8 DEF BumpGeneration, Goto
  <2>. QED  BY <1>8, <2>1 DEF BumpGeneration
<1>9. ASSUME NEW t \in Thread, Released(t) PROVE ClosingInv'
  BY <1>0, <1>9 DEF Released, LeaveSpin, Control
<1>10. ASSUME NEW t \in Thread, DozesOff(t) PROVE ClosingInv'
  BY <1>0, <1>10 DEF DozesOff, SleepBetweenRounds, FallAsleep, Control
<1>11. ASSUME NEW t \in Thread, DropsOut(t) PROVE ClosingInv'
  <2>1. /\ lock_ = 0 /\ lock_' = 0 /\ t \notin Closers /\ Goto(t, "asleep")
        /\ stage_' = 1 \/ stage_' = stage_
    BY <1>11 DEF DropsOut, SleepLeavesTeam, FallAsleep
  <2>. QED  BY <1>0, <1>00, <2>1 DEF Control
<1>12. ASSUME NEW t \in Thread, Retries(t) PROVE ClosingInv'
  BY <1>0, <1>12 DEF Retries, WakeMustWait, Control
<1>13. ASSUME NEW t \in Thread, Returns(t) PROVE ClosingInv'
  BY <1>0, <1>13 DEF Returns, WakeSucceeds, Control
<1>14. ASSUME NEW t \in Thread, WaitForEnd(t) PROVE ClosingInv'
  BY <1>0, <1>14 DEF WaitForEnd, Control
<1>. HIDE DEF ClosingInv, Closers, stage_count
<1>. QED
  BY StepCases, <1>1, <1>2, <1>3, <1>4, <1>5, <1>6, <1>7, <1>8, <1>9, <1>10,
     <1>11, <1>12, <1>13, <1>14

LEMMA CountingStep ==
  ASSUME TypeOK, Bookkeeping, Next
  PROVE  CountingInv'
<1>. USE DEF CountingInv, Stage, stage_count
<1>ty. /\ threads_ \in Int /\ next_threads_ \in Int /\ count_ \in [Stage -> Nat]
       /\ stage_ \in 0 .. 3 /\ lock_ \in {0, 1}
       /\ CountingInv
  BY DEF TypeOK, Bookkeeping
<1>0. ASSUME UNCHANGED <<count_, stage_, lock_, threads_>> PROVE CountingInv'
  BY <1>ty, <1>0
\* An awake thread finds room in the team.
<1>team. ASSUME NEW t \in Thread, AtStart(t)
         PROVE  /\ TeamSize \in Int /\ TeamSize >= 1 /\ count_[0] < TeamSize
                /\ count_[0] \in Nat
  <2>1. next_threads_ >= 1
    <3>1. t \in Awake /\ next_threads_ = Cardinality(Awake)
      BY <1>team DEF AtStart, Bookkeeping, RegistrationInv, Awake
    <3>. QED  BY <3>1, Nonempty, AwakeThreads
  <2>. QED  BY <1>ty, <1>team, <2>1 DEF TeamSize, AtStart
<1>1. ASSUME NEW w \in Failures, Throw(w) PROVE CountingInv'
  BY <1>0, <1>1 DEF Throw
<1>2. ASSUME NEW t \in Thread, Joins(t) PROVE CountingInv'
  BY <1>0, <1>2 DEF Joins, Register
<1>3. ASSUME NEW t \in Thread, AtStart(t), StartEarly(t) PROVE CountingInv'
  BY <1>ty, <1>team, <1>3 DEF AtStart, StartEarly, JoinWaiters
<1>4. ASSUME NEW t \in Thread, AtStart(t), StartLast(t) PROVE CountingInv'
  BY <1>ty, <1>team, <1>4 DEF AtStart, StartLast, ReleaseStage
<1>5. ASSUME NEW t \in Thread, NEW s \in {1, 2}, AtStage(t, s), StageEarly(t, s)
      PROVE CountingInv'
  BY <1>ty, <1>5 DEF AtStage, StageEarly, JoinWaiters
<1>6. ASSUME NEW t \in Thread, NEW s \in {1, 2}, AtStage(t, s), StageLast(t, s)
      PROVE CountingInv'
  BY <1>ty, <1>6 DEF AtStage, StageLast, ReleaseStage
<1>7. ASSUME NEW t \in Thread, ResetStage(t) PROVE CountingInv'
  <2>1. stage_ = 3
    BY <1>7 DEF ResetStage, Bookkeeping, ClosingInv, Closers
  <2>. QED  BY <1>ty, <1>7, <2>1 DEF ResetStage
<1>8. ASSUME NEW t \in Thread, BumpGeneration(t) PROVE CountingInv'
  BY <1>ty, <1>8 DEF BumpGeneration
<1>9. ASSUME NEW t \in Thread, Released(t) PROVE CountingInv'
  BY <1>0, <1>9 DEF Released, LeaveSpin
<1>10. ASSUME NEW t \in Thread, DozesOff(t) PROVE CountingInv'
  BY <1>0, <1>10 DEF DozesOff, SleepBetweenRounds, FallAsleep
<1>11. ASSUME NEW t \in Thread, DropsOut(t) PROVE CountingInv'
  BY <1>ty, <1>11 DEF DropsOut, SleepLeavesTeam, FallAsleep
<1>12. ASSUME NEW t \in Thread, Retries(t) PROVE CountingInv'
  BY <1>0, <1>12 DEF Retries, WakeMustWait
<1>13. ASSUME NEW t \in Thread, Returns(t) PROVE CountingInv'
  BY <1>0, <1>13 DEF Returns, WakeSucceeds
<1>14. ASSUME NEW t \in Thread, WaitForEnd(t) PROVE CountingInv'
  BY <1>0, <1>14 DEF WaitForEnd
<1>. HIDE DEF CountingInv, Stage, stage_count
<1>. QED
  BY StepCases, <1>1, <1>2, <1>3, <1>4, <1>5, <1>6, <1>7, <1>8, <1>9, <1>10,
     <1>11, <1>12, <1>13, <1>14

LEMMA BookkeepingStutter == Bookkeeping /\ UNCHANGED vars => Bookkeeping'
  BY DEF vars, Bookkeeping, RegistrationInv, ClosingInv, CountingInv, Awake, Closers

\* Whatever threads join and when: the count of awake threads is right, lock_
\* is held exactly while a round is closed, and only the current stage counts.
THEOREM BookkeepingHolds == Spec => [](TypeOK /\ Bookkeeping)
<1>1. Init => TypeOK /\ Bookkeeping
  BY TypeInit, BookkeepingInit
<1>2. TypeOK /\ Bookkeeping /\ [Next]_vars => (TypeOK /\ Bookkeeping)'
  BY TypeStep, RegistrationStep, ClosingStep, CountingStep, BookkeepingStutter
  DEF Bookkeeping
<1>. QED  BY <1>1, <1>2, PTL DEF Spec

\* A stage never has as many waiting threads as its team: the last to arrive
\* always releases the others, even if threads join at any time.
THEOREM NobodyIsMissed == Spec => []NoMissedRelease
<1>1. TypeOK /\ Bookkeeping => NoMissedRelease
  <2>. SUFFICES ASSUME TypeOK, CountingInv, NEW s \in Stage, count_[s] # 0
                PROVE  count_[s] < threads_ /\ Counted = count_[s]
    BY DEF Bookkeeping, NoMissedRelease
  <2>1. count_ \in [{0, 1, 2} -> Nat] /\ s \in {0, 1, 2}
    BY DEF TypeOK, Stage, stage_count
  <2>2. \A r \in {0, 1, 2} : count_[r] # 0 => stage_ = r
    BY DEF CountingInv, Stage, stage_count
  <2>3. count_[s] < threads_
    BY DEF CountingInv
  <2>. QED  BY <2>1, <2>2, <2>3 DEF Counted
<1>. QED  BY <1>1, BookkeepingHolds, PTL

-----------------------------------------------------------------------------
(* The team, when all threads are registered at the start                  *)

TeamIsFixed == FounderCount = ThreadCount

LEMMA TeamInit == TeamIsFixed /\ Init => TeamInv /\ LedgerInv
<1>. SUFFICES ASSUME TeamIsFixed, Init PROVE TeamInv /\ LedgerInv
  OBVIOUS
<1>. USE DEF TeamIsFixed, Init
<1>1. \A s \in Stage : Waiters(s) = {}
  BY DEF Waiters, Thread
<1>2. Cardinality({}) = 0
  BY FS_EmptySet
<1>3. TeamInv
  <2>1. count_ = [s \in {0, 1, 2} |-> 0] /\ stage_ = 0 /\ 0 \in Stage
    BY DEF Stage, stage_count
  <2>2. \A t \in Thread : pc[t] = "app"
    BY CountAssumption DEF Thread
  <2>. QED  BY <1>1, <1>2, <2>1, <2>2 DEF TeamInv, InStep
<1>4. LedgerInv
  BY CountAssumption DEF LedgerInv, Due, Sleepers, Thread
<1>. QED  BY <1>3, <1>4

\* Who is awake, and who can be waiting.
LEMMA TeamFacts ==
  ASSUME TypeOK, Bookkeeping, TeamInv
  PROVE  /\ \A t \in Thread : t \in Awake <=> pc[t] \notin Sleepers
         /\ \A t \in Thread : pc[t] # "unborn"
         /\ \A s \in Stage : Waiters(s) \in SUBSET Awake
         /\ lock_ = 0 => stage_ \in Stage
<1>1. \A t \in Thread : t < total_threads_
  BY CountAssumption DEF TeamInv, Thread
<1>2. \A t \in Thread : t \in Awake <=> pc[t] \notin Sleepers
  BY <1>1 DEF Awake, Bookkeeping, RegistrationInv
<1>3. \A t \in Thread : pc[t] # "unborn"
  BY <1>1 DEF Bookkeeping, RegistrationInv
<1>4. \A s \in Stage : Waiters(s) \in SUBSET Awake
  BY <1>2 DEF Waiters, Sleepers
<1>5. lock_ = 0 => stage_ \in Stage
  BY DEF TypeOK, Bookkeeping, ClosingInv, Stage, stage_count
<1>. QED  BY <1>2, <1>3, <1>4, <1>5

\* t is the only awake thread missing at the current stage exactly when the
\* counter is one short of the team.
LEMMA OnlyOneMissing ==
  ASSUME TypeOK, Bookkeeping, TeamInv, NEW s \in Stage, stage_ = s,
         NEW t \in Awake, t \notin Waiters(s)
  PROVE  count_[s] + 1 = Cardinality(Awake) <=> Awake = Waiters(s) \cup {t}
<1>1. count_[s] = Cardinality(Waiters(s)) /\ Waiters(s) \in SUBSET Awake
  BY TeamFacts DEF TeamInv
<1>. QED  BY <1>1, AwakeThreads, LastOne

\* No exception is thrown.
LEMMA TeamNoFailure ==
  ASSUME TypeOK, Bookkeeping, TeamInv, Next
  PROVE  failure' = "none"
<1>. PICK t \in Thread : ThreadStep(t)
  BY DEF Next
<1>f. failure = "none" /\ InStep(t) /\ (lock_ = 0 => stage_ \in {0, 1, 2})
  BY TeamFacts DEF TeamInv, Stage, stage_count
<1>1. CASE AddThread(t)
  BY <1>1, TeamFacts DEF AddThread
<1>2. CASE WaitStart(t)
  <2>1. pc[t] = "app" /\ lock_ = 0
    BY <1>2 DEF WaitStart
  <2>2. awake_[t]
    BY <2>1 DEF Bookkeeping, RegistrationInv, Sleepers
  <2>3. stage_ = 0
    BY <1>f, <2>1 DEF InStep, Sleepers, stage_count
  <2>4. count_[1] = 0 /\ count_[2] = 0
    BY <2>3 DEF Bookkeeping, CountingInv, Stage, stage_count
  <2>5. StartEarly(t) \/ StartLast(t)
    BY <1>2, <2>2, <2>3, <2>4 DEF WaitStart
  <2>. QED  BY <1>f, <2>5 DEF StartEarly, StartLast, CountIn
<1>3. CASE WaitStage(t)
  <2>1. pc[t] = "work"
    BY <1>3 DEF WaitStage
  <2>2. awake_[t]
    BY <2>1 DEF Bookkeeping, RegistrationInv, Sleepers
  <2>3. stage_ = stages[t] + 1 /\ stage_ < stage_count /\ stage_ \in Int
    BY <1>f, <2>1 DEF InStep, Sleepers, TypeOK, stage_count
  <2>4. ~(stages[t] + 1 >= stage_count)
    BY <2>3 DEF stage_count
  <2>5. StageEarly(t, stages[t] + 1) \/ StageLast(t, stages[t] + 1)
    BY <1>3, <2>2, <2>3, <2>4 DEF WaitStage
  <2>. QED  BY <1>f, <2>5 DEF StageEarly, StageLast, CountIn
<1>4. CASE ResetStage(t) \/ BumpGeneration(t)
  BY <1>f, <1>4 DEF ResetStage, BumpGeneration
<1>5. CASE Spin(t)
  <2>1. CASE stage_ # stages[t]
    BY <1>f, <1>5, <2>1 DEF Spin, LeaveSpin
  <2>2. CASE stage_ = stages[t]
    <3>1. stage_ \in Stage /\ t \in Waiters(stage_)
      BY <1>5, <2>2 DEF Spin, Waiters, TypeOK
    <3>2. Cardinality(Waiters(stage_)) >= 1
      BY <3>1, Nonempty DEF Waiters
    <3>3. count_[stage_] # 0
      BY <3>1, <3>2 DEF TeamInv
    <3>4. count_ \in [{0, 1, 2} -> Nat] /\ threads_ \in Int /\ stage_ \in {0, 1, 2}
      BY <3>1 DEF TypeOK, Stage, stage_count
    <3>5. /\ \A r \in {0, 1, 2} : count_[r] # 0 => stage_ = r
          /\ count_[stage_] < threads_
      BY <3>1, <3>3 DEF Bookkeeping, CountingInv, Stage, stage_count
    <3>6. ~(Counted > threads_)
      BY <3>4, <3>5 DEF Counted
    <3>. QED  BY <1>5, <2>2, <3>6 DEF Spin, WaitConsistency
  <2>. QED  BY <2>1, <2>2
<1>6. CASE Sleep(t)
  <2>0. pc[t] = "app" /\ lock_ = 0
    BY <1>6 DEF Sleep
  <2>1. stage_ = 0
    BY <1>f, <2>0 DEF InStep, Sleepers, stage_count
  <2>2. SleepBetweenRounds(t) \/ SleepLeavesTeam(t)
    BY <1>6, <2>1 DEF Sleep
  <2>. QED  BY <1>f, <2>2 DEF SleepBetweenRounds, SleepLeavesTeam, FallAsleep
<1>7. CASE Wake(t) \/ WaitForEnd(t)
  BY <1>f, <1>7 DEF Wake, WakeMustWait, WakeSucceeds, WaitForEnd
<1>. QED
  BY <1>1, <1>2, <1>3, <1>4, <1>5, <1>6, <1>7 DEF ThreadStep

\* The release of stage s puts every thread in step with stage s + 1: all awake
\* threads are waiting at s, except the one that releases them.
LEMMA TeamReleased ==
  ASSUME TypeOK, Bookkeeping, TeamInv,
         NEW s \in Stage, stage_ = s, NEW t \in Awake,
         Awake = Waiters(s) \cup {t},
         NEW l \in {"work", "closing", "asleep"}, Goto(t, l),
         l = "work" => stages'[t] = s /\ s < 2,
         \A u \in Thread : u # t => stages'[u] = stages[u],
         stage_' = s + 1
  PROVE  /\ \A u \in Thread : InStep(u)'
         /\ Waiters(s + 1)' = {}
<1>. USE DEF stage_count
<1>0. t \in Thread
  BY AwakeThreads
<1>1. /\ \A u \in Thread : u # t => pc'[u] = pc[u]
      /\ pc'[t] = l
  BY <1>0 DEF Goto, TypeOK
<1>2. ASSUME NEW u \in Thread, u # t
      PROVE  pc[u] \in Sleepers \/ (pc[u] = "spin" /\ stages[u] = s)
  <2>1. pc[u] \in Sleepers \/ u \in Awake
    BY TeamFacts
  <2>2. u \in Awake => u \in Waiters(s)
    BY <1>2
  <2>3. u \in Waiters(s) => pc[u] = "spin" /\ stages[u] = s
    BY DEF Waiters
  <2>. QED  BY <2>1, <2>2, <2>3
<1>3. ASSUME NEW u \in Thread PROVE InStep(u)'
  <2>1. CASE u = t
    BY <1>1, <2>1 DEF InStep, Sleepers, Stage
  <2>2. CASE u # t
    BY <1>1, <1>2, <2>2 DEF InStep
  <2>. QED  BY <2>1, <2>2
<1>4. ASSUME NEW u \in Thread PROVE ~(pc'[u] = "spin" /\ stages'[u] = s + 1)
  <2>1. CASE u = t
    BY <1>1, <2>1
  <2>2. CASE u # t
    BY <1>1, <1>2, <2>2 DEF Sleepers, Stage
  <2>. QED  BY <2>1, <2>2
<1>5. Waiters(s + 1)' = {}
  BY <1>4 DEF Waiters
<1>. QED  BY <1>3, <1>5

\* A step that keeps stage_ and moves one thread keeps the others in step.
LEMMA OthersInStep ==
  ASSUME TypeOK, TeamInv, NEW t \in Thread, NEW l \in Control, Goto(t, l),
         UNCHANGED stage_,
         \A u \in Thread : u # t => stages'[u] = stages[u]
  PROVE  \A u \in Thread : u # t => InStep(u)'
<1>1. \A u \in Thread : u # t => pc'[u] = pc[u]
  BY DEF Goto, TypeOK
<1>. QED  BY <1>1 DEF TeamInv, InStep

\* What a step that leaves stage_ alone has to preserve.
Counts ==
  /\ stage_ \in Stage => count_[stage_] = Cardinality(Waiters(stage_))
  /\ count_[0] # 0 \/ stage_ \in {1, 2} => threads_ = Cardinality(Awake)

LEMMA CountsUntouched ==
  ASSUME TypeOK, Counts, UNCHANGED <<count_, stage_, threads_, awake_, total_threads_>>,
         UNCHANGED stages, NEW t \in Thread, NEW l \in Control \ {"spin"}, Goto(t, l),
         pc[t] # "spin" \/ stage_ # stages[t]
  PROVE  Counts'
<1>1. \A u \in Thread : pc'[u] = IF u = t THEN l ELSE pc[u]
  BY DEF Goto, TypeOK
<1>2. stage_ \in Stage => Waiters(stage_)' = Waiters(stage_)
  BY <1>1 DEF Waiters
<1>3. Awake' = Awake
  BY DEF Awake
<1>. QED  BY <1>2, <1>3 DEF Counts

\* t counts in at stage s, and is not the last one.
LEMMA TeamEarly ==
  ASSUME TypeOK, Bookkeeping, TeamInv, NEW s \in Stage, stage_ = s,
         NEW t \in Awake, pc[t] \in {"app", "work"}, threads_' = Cardinality(Awake),
         CountIn(t, s), JoinWaiters(t, s)
  PROVE  TeamInv'
<1>0. t \in Thread
  BY AwakeThreads
<1>1. /\ \A u \in Thread : pc'[u] = IF u = t THEN "spin" ELSE pc[u]
      /\ \A u \in Thread : stages'[u] = IF u = t THEN s ELSE stages[u]
  BY <1>0 DEF CountIn, JoinWaiters, Goto, TypeOK
<1>2. Awake' = Awake
  BY DEF CountIn, Awake
<1>3. t \notin Waiters(s) /\ Waiters(s)' = Waiters(s) \cup {t}
  BY <1>0, <1>1 DEF Waiters
<1>4. Cardinality(Waiters(s)') = Cardinality(Waiters(s)) + 1
  BY <1>3, OneMore DEF Waiters
<1>5. /\ count_[s] = Cardinality(Waiters(s))
      /\ count_'[s] = count_[s] + 1
  BY DEF TeamInv, JoinWaiters, TypeOK
<1>6. InStep(t)'
  BY <1>0, <1>1 DEF JoinWaiters, InStep, Stage, stage_count
<1>7. \A u \in Thread : u # t => InStep(u)'
  BY <1>0, <1>1, OthersInStep DEF JoinWaiters, Control
<1>. QED
  BY <1>2, <1>4, <1>5, <1>6, <1>7 DEF TeamInv, CountIn, JoinWaiters

\* t is the last one to count in at stage s.
LEMMA TeamLast ==
  ASSUME TypeOK, Bookkeeping, TeamInv, NEW s \in Stage, stage_ = s,
         NEW t \in Awake, pc[t] \in {"app", "work"},
         threads_' = Cardinality(Awake), count_[s] + 1 = Cardinality(Awake),
         CountIn(t, s), ReleaseStage(t, s)
  PROVE  TeamInv'
<1>. USE DEF stage_count
<1>0. t \in Thread /\ t \notin Waiters(s)
  BY AwakeThreads DEF Waiters
<1>1. Awake = Waiters(s) \cup {t}
  BY <1>0, OnlyOneMissing
<1>2. \A u \in Thread : stages'[u] = IF u = t THEN s ELSE stages[u]
  BY <1>0 DEF CountIn, TypeOK
<1>3. (\A u \in Thread : InStep(u)') /\ Waiters(s + 1)' = {}
  <2>1. CASE s = 2
    <3>1. Goto(t, "closing") /\ stage_' = s + 1
      BY <2>1 DEF ReleaseStage
    <3>. QED  BY <1>0, <1>1, <1>2, <3>1, TeamReleased
  <2>2. CASE s # 2
    <3>1. Goto(t, "work") /\ stage_' = s + 1 /\ s < 2
      BY <2>2 DEF ReleaseStage, Stage
    <3>. QED  BY <1>0, <1>1, <1>2, <3>1, TeamReleased
  <2>. QED  BY <2>1, <2>2
<1>4. Awake' = Awake
  BY DEF CountIn, Awake
<1>5. ASSUME s + 1 \in Stage PROVE count_'[s + 1] = 0
  BY <1>5 DEF ReleaseStage, Bookkeeping, CountingInv, TypeOK, Stage
<1>. QED
  BY <1>3, <1>4, <1>5, FS_EmptySet DEF TeamInv, CountIn, ReleaseStage

LEMMA TeamStep ==
  ASSUME TypeOK, Bookkeeping, TeamInv, Next
  PROVE  TeamInv'
<1>f. failure' = "none"
  BY TeamNoFailure
<1>c. Counts /\ total_threads_ = ThreadCount /\ \A t \in Thread : InStep(t)
  BY DEF TeamInv, Counts
\* A step of one thread that leaves the counters alone.
<1>0. ASSUME NEW t \in Thread, NEW l \in Control \ {"spin"}, Goto(t, l),
             UNCHANGED <<count_, stage_, threads_, awake_, total_threads_, stages>>,
             pc[t] # "spin" \/ stage_ # stages[t], InStep(t)'
      PROVE  TeamInv'
  <2>1. Counts'
    BY <1>c, <1>0, CountsUntouched
  <2>2. \A u \in Thread : u # t => InStep(u)'
    BY <1>0, OthersInStep
  <2>. QED  BY <1>f, <1>c, <1>0, <2>1, <2>2 DEF TeamInv, Counts
<1>1. ASSUME NEW w \in Failures, Throw(w) PROVE TeamInv'
  BY <1>f, <1>1 DEF Throw, TeamInv, InStep, Awake, Waiters
<1>2. ASSUME NEW t \in Thread, Joins(t) PROVE TeamInv'
  BY <1>2, TeamFacts DEF Joins
\* What the first or a later arrival makes of the team size.
<1>team. ASSUME NEW t \in Thread, AtStart(t)
         PROVE  TeamSize = Cardinality(Awake) /\ t \in Awake
  BY <1>team, TeamFacts
  DEF AtStart, TeamSize, TeamInv, Bookkeeping, RegistrationInv, Sleepers
<1>3. ASSUME NEW t \in Thread, AtStart(t), StartEarly(t) PROVE TeamInv'
  BY <1>3, <1>team, TeamEarly DEF AtStart, StartEarly, Stage, stage_count
<1>4. ASSUME NEW t \in Thread, AtStart(t), StartLast(t) PROVE TeamInv'
  BY <1>4, <1>team, TeamLast DEF AtStart, StartLast, Stage, stage_count
<1>stage. ASSUME NEW t \in Thread, NEW s \in {1, 2}, AtStage(t, s)
          PROVE  /\ threads_ = Cardinality(Awake) /\ t \in Awake
                 /\ s \in Stage /\ stage_ = s /\ pc[t] = "work"
  BY <1>stage, TeamFacts DEF AtStage, TeamInv, Sleepers, Stage, stage_count
<1>5. ASSUME NEW t \in Thread, NEW s \in {1, 2}, AtStage(t, s), StageEarly(t, s)
      PROVE TeamInv'
  BY <1>5, <1>stage, TeamEarly DEF StageEarly
<1>6. ASSUME NEW t \in Thread, NEW s \in {1, 2}, AtStage(t, s), StageLast(t, s)
      PROVE TeamInv'
  BY <1>6, <1>stage, TeamLast DEF StageLast
<1>7. ASSUME NEW t \in Thread, ResetStage(t) PROVE TeamInv'
  <2>1. stage_ = 3 /\ stage_' = 0 /\ Goto(t, "closed") /\ pc[t] = "closing"
    BY <1>7 DEF ResetStage, Bookkeeping, ClosingInv, Closers, stage_count
  <2>2. \A u \in Thread : pc'[u] = IF u = t THEN "closed" ELSE pc[u]
    BY <2>1 DEF Goto, TypeOK
  <2>3. \A u \in Thread : pc[u] = "spin" => stages[u] = 2
    BY <1>c, <2>1 DEF InStep, Sleepers, TypeOK, Stage, stage_count
  <2>4. Waiters(0)' = {}
    BY <1>7, <2>2, <2>3 DEF ResetStage, Waiters
  <2>5. count_' = count_ /\ count_[0] = 0
    BY <1>7, <2>1 DEF ResetStage, Bookkeeping, CountingInv, Stage, stage_count
  <2>6. \A u \in Thread : InStep(u)'
    BY <1>7, <1>c, <2>1, <2>2, <2>3 DEF ResetStage, InStep, Sleepers, stage_count
  <2>. QED
    BY <1>7, <1>f, <1>c, <2>1, <2>4, <2>5, <2>6, FS_EmptySet DEF ResetStage, TeamInv
<1>8. ASSUME NEW t \in Thread, BumpGeneration(t) PROVE TeamInv'
  <2>1. pc[t] = "closed" /\ stage_ = 0 /\ Goto(t, "app")
    BY <1>8 DEF BumpGeneration, Bookkeeping, ClosingInv, Closers
  <2>2. InStep(t)'
    BY <1>8, <2>1 DEF BumpGeneration, InStep, Goto, TypeOK
  <2>. QED  BY <1>0, <1>8, <2>1, <2>2 DEF BumpGeneration, Control
<1>9. ASSUME NEW t \in Thread, Released(t) PROVE TeamInv'
  <2>1. InStep(t)'
    BY <1>c, <1>9
    DEF Released, LeaveSpin, InStep, Goto, Sleepers, TypeOK, Stage, stage_count
  <2>. QED  BY <1>0, <1>9, <2>1 DEF Released, LeaveSpin, Control
<1>sleep. ASSUME NEW t \in Thread, pc[t] = "app", FallAsleep(t)
          PROVE  /\ t \in Awake /\ Awake' = Awake \ {t}
                 /\ Cardinality(Awake') = Cardinality(Awake) - 1
                 /\ \A u \in Thread : pc'[u] = IF u = t THEN "asleep" ELSE pc[u]
                 /\ UNCHANGED <<stages, total_threads_>>
  <2>1. t \in Awake
    BY <1>sleep, TeamFacts DEF Sleepers
  <2>2. Awake' = Awake \ {t}
    BY <1>sleep, <2>1 DEF FallAsleep, Awake, TypeOK
  <2>3. Cardinality(Awake') = Cardinality(Awake) - 1
    BY <2>1, <2>2, OneLess, AwakeThreads
  <2>. QED  BY <1>sleep, <2>1, <2>2, <2>3 DEF FallAsleep, Goto, TypeOK
<1>10. ASSUME NEW t \in Thread, DozesOff(t) PROVE TeamInv'
  <2>1. pc[t] = "app" /\ stage_ = 0 /\ stage_' = 0 /\ count_' = count_ /\ count_[0] = 0
    BY <1>10 DEF DozesOff, SleepBetweenRounds
  <2>2. FallAsleep(t)
    BY <1>10 DEF DozesOff, SleepBetweenRounds
  <2>3. Waiters(0)' = Waiters(0)
    BY <1>sleep, <2>1, <2>2 DEF Waiters
  <2>4. \A u \in Thread : InStep(u)'
    BY <1>c, <1>sleep, <2>1, <2>2 DEF InStep, Sleepers
  <2>. QED
    BY <1>f, <1>c, <1>sleep, <2>1, <2>2, <2>3, <2>4 DEF TeamInv, Counts
<1>11. ASSUME NEW t \in Thread, DropsOut(t) PROVE TeamInv'
  <2>1. /\ pc[t] = "app" /\ stage_ = 0 /\ count_[0] # 0
        /\ FallAsleep(t) /\ threads_' = threads_ - 1
    BY <1>11 DEF DropsOut, SleepLeavesTeam
  <2>2. threads_ = Cardinality(Awake) /\ threads_' = Cardinality(Awake')
    BY <1>c, <1>sleep, <2>1 DEF Counts
  <2>3. CASE count_[0] = threads_ - 1
    <3>1. stage_' = 1 /\ count_' = [count_ EXCEPT ![0] = 0]
      BY <1>11, <2>3 DEF DropsOut, SleepLeavesTeam
    <3>2. t \notin Waiters(0) /\ 0 \in Stage
      BY <2>1 DEF Waiters, Stage, stage_count
    <3>3. Cardinality(Awake) \in Nat /\ count_[0] \in Nat
      BY ThreadIsFinite, AwakeThreads DEF TypeOK, Stage, stage_count
    <3>4. Awake = Waiters(0) \cup {t}
      BY <1>sleep, <2>1, <2>2, <2>3, <3>2, <3>3, OnlyOneMissing
    <3>5. (\A u \in Thread : InStep(u)') /\ Waiters(0 + 1)' = {}
      BY <1>sleep, <2>1, <3>1, <3>2, <3>4, TeamReleased DEF FallAsleep
    <3>6. count_'[1] = 0
      BY <2>1, <3>1 DEF Bookkeeping, CountingInv, TypeOK, Stage, stage_count
    <3>7. Waiters(stage_)' = {}
      BY <3>1, <3>5 DEF Waiters
    <3>8. Counts'
      BY <2>2, <3>1, <3>6, <3>7, FS_EmptySet DEF Counts
    <3>. QED
      BY <1>f, <1>c, <1>sleep, <2>1, <3>5, <3>8 DEF TeamInv, Counts
  <2>4. CASE count_[0] # threads_ - 1
    <3>1. UNCHANGED <<stage_, count_>>
      BY <1>11, <2>4 DEF DropsOut, SleepLeavesTeam
    <3>2. Waiters(0)' = Waiters(0)
      BY <1>sleep, <2>1 DEF Waiters
    <3>3. \A u \in Thread : InStep(u)'
      BY <1>c, <1>sleep, <2>1, <3>1 DEF InStep, Sleepers
    <3>. QED
      BY <1>f, <1>c, <1>sleep, <2>1, <2>2, <3>1, <3>2, <3>3 DEF TeamInv, Counts
  <2>. QED  BY <2>3, <2>4
<1>12. ASSUME NEW t \in Thread, Retries(t) PROVE TeamInv'
  <2>1. Goto(t, "waiting") /\ InStep(t)'
    BY <1>12 DEF Retries, WakeMustWait, InStep, Goto, Sleepers, TypeOK
  <2>. QED  BY <1>0, <1>12, <2>1 DEF Retries, WakeMustWait, Control
<1>13. ASSUME NEW t \in Thread, Returns(t) PROVE TeamInv'
  <2>1. /\ stage_ = 0 /\ count_[0] = 0 /\ pc[t] # "spin"
        /\ UNCHANGED <<stage_, count_, stages, total_threads_>> /\ Goto(t, "app")
    BY <1>13 DEF Returns, WakeSucceeds, RoundInProgress, TypeOK, Stage, stage_count
  <2>2. \A u \in Thread : pc'[u] = IF u = t THEN "app" ELSE pc[u]
    BY <2>1 DEF Goto, TypeOK
  <2>3. Waiters(0)' = Waiters(0)
    BY <2>1, <2>2 DEF Waiters
  <2>4. \A u \in Thread : InStep(u)'
    BY <1>c, <2>1, <2>2 DEF InStep, Sleepers
  <2>. QED  BY <1>f, <1>c, <2>1, <2>3, <2>4 DEF TeamInv, Counts
<1>14. ASSUME NEW t \in Thread, WaitForEnd(t) PROVE TeamInv'
  <2>1. Goto(t, "waking") /\ InStep(t)'
    BY <1>14 DEF WaitForEnd, InStep, Goto, Sleepers, TypeOK
  <2>. QED  BY <1>0, <1>14, <2>1 DEF WaitForEnd, Control
<1>. QED
  BY StepCases, <1>1, <1>2, <1>3, <1>4, <1>5, <1>6, <1>7, <1>8, <1>9, <1>10,
     <1>11, <1>12, <1>13, <1>14

-----------------------------------------------------------------------------
(* The ledger                                                              *)

LEMMA LedgerStep ==
  ASSUME TypeOK, Bookkeeping, TeamInv, LedgerInv, Next
  PROVE  LedgerInv'
<1>ty. /\ pc \in [Thread -> Control] /\ tally \in [Thread -> Int]
       /\ stages \in [Thread -> {0, 1, 2}] /\ generations \in [Thread -> Nat]
       /\ generation_ \in Nat /\ lock_ \in {0, 1} /\ stage_ \in {0, 1, 2, 3}
  BY DEF TypeOK, Stage, stage_count
<1>c. \A t \in Thread : InStep(t) /\ tally[t] = Due(t)
  BY DEF TeamInv, LedgerInv
<1>. USE <1>ty DEF Goto
\* A thread that a step does not touch, if the step keeps the number of the
\* current round and does not make or unmake stage 2 the current one.
<1>0. ASSUME NEW u \in Thread,
             generation_' + lock_' = generation_ + lock_,
             \/ stage_' = stage_
             \/ stage_ # 2 /\ stage_' # 2
             \/ ~(pc[u] = "spin" /\ stages[u] = 2),
             pc'[u] = pc[u], tally'[u] = tally[u], stages'[u] = stages[u],
             generations'[u] = generations[u]
      PROVE  tally'[u] = Due(u)'
  <2>1. CASE pc[u] \in Sleepers
    BY <1>c, <1>0, <2>1 DEF Due, Sleepers
  <2>2. CASE pc[u] \notin Sleepers
    <3>1. (stage_' = 2 <=> stage_ = 2) \/ ~(pc[u] = "spin" /\ stages[u] = 2)
      BY <1>0
    <3>2. \/ /\ Due(u) = generation_ + lock_ - 2
             /\ Due(u)' = generation_' + lock_' - 2
          \/ /\ Due(u) = generation_ + lock_ - 1
             /\ Due(u)' = generation_' + lock_' - 1
      BY <1>0, <2>2, <3>1 DEF Due
    <3>3. /\ generation_' \in Int /\ lock_' \in Int
          /\ generation_ \in Int /\ lock_ \in Int
      BY TypeStep DEF TypeOK
    <3>4. Due(u)' = Due(u)
      BY <1>0, <3>2, <3>3
    <3>. QED  BY <1>c, <1>0, <3>4
  <2>. QED  BY <2>1, <2>2
<1>1. ASSUME NEW w \in Failures, Throw(w) PROVE LedgerInv'
  BY <1>0, <1>1 DEF Throw, LedgerInv
<1>2. ASSUME NEW t \in Thread, Joins(t) PROVE LedgerInv'
  BY <1>2, TeamFacts DEF Joins
<1>3. ASSUME NEW t \in Thread, AtStart(t), StartEarly(t) PROVE LedgerInv'
  <2>1. tally'[t] = Due(t)'
    BY <1>c, <1>3 DEF AtStart, StartEarly, CountIn, JoinWaiters, Due, Sleepers
  <2>2. ASSUME NEW u \in Thread, u # t PROVE tally'[u] = Due(u)'
    BY <1>0, <1>3, <2>2 DEF StartEarly, CountIn, JoinWaiters
  <2>. QED  BY <2>1, <2>2 DEF LedgerInv
<1>4. ASSUME NEW t \in Thread, AtStart(t), StartLast(t) PROVE LedgerInv'
  <2>0. lock_ = 0 /\ lock_' = 0 /\ stage_ = 0 /\ stage_' = 1
    BY <1>4 DEF AtStart, StartLast, ReleaseStage, stage_count
  <2>1. tally'[t] = Due(t)'
    BY <1>c, <1>4, <2>0
    DEF AtStart, StartLast, CountIn, ReleaseStage, Due, Sleepers, stage_count
  <2>2. ASSUME NEW u \in Thread, u # t PROVE tally'[u] = Due(u)'
    BY <1>0, <1>4, <2>0, <2>2 DEF StartLast, CountIn, ReleaseStage
  <2>. QED  BY <2>1, <2>2 DEF LedgerInv
<1>5. ASSUME NEW t \in Thread, NEW s \in {1, 2}, AtStage(t, s), StageEarly(t, s)
      PROVE LedgerInv'
  <2>1. tally'[t] = Due(t)'
    BY <1>c, <1>5 DEF AtStage, StageEarly, CountIn, JoinWaiters, Due, Sleepers
  <2>2. ASSUME NEW u \in Thread, u # t PROVE tally'[u] = Due(u)'
    BY <1>0, <1>5, <2>2 DEF StageEarly, CountIn, JoinWaiters
  <2>. QED  BY <2>1, <2>2 DEF LedgerInv
<1>6. ASSUME NEW t \in Thread, NEW s \in {1, 2}, AtStage(t, s), StageLast(t, s)
      PROVE LedgerInv'
  <2>0. /\ pc[t] = "work" /\ lock_ = 0 /\ stage_ = s /\ stage_' = s + 1
        /\ \A u \in Thread : u # t => /\ pc'[u] = pc[u] /\ stages'[u] = stages[u]
                                      /\ tally'[u] = tally[u]
                                      /\ generations'[u] = generations[u]
        /\ tally'[t] = tally[t] /\ generation_' = generation_
    BY <1>6 DEF AtStage, StageLast, CountIn, ReleaseStage
  <2>1. CASE s = 1
    <3>1. lock_' = 0 /\ pc'[t] = "work"
      BY <1>6, <2>1 DEF StageLast, ReleaseStage, stage_count
    <3>2. tally'[t] = Due(t)'
      BY <1>c, <2>0, <3>1 DEF Due, Sleepers
    <3>3. ASSUME NEW u \in Thread, u # t PROVE tally'[u] = Due(u)'
      <4>1. ~(pc[u] = "spin" /\ stages[u] = 2)
        BY <1>c, <2>0, <2>1 DEF InStep, Sleepers, stage_count
      <4>. QED  BY <1>0, <2>0, <3>1, <3>3, <4>1
    <3>. QED  BY <3>2, <3>3 DEF LedgerInv
  <2>2. CASE s = 2
    <3>1. lock_' = 1 /\ pc'[t] = "closing"
      BY <1>6, <2>2 DEF StageLast, ReleaseStage, stage_count
    <3>2. tally'[t] = Due(t)'
      BY <1>c, <2>0, <3>1 DEF Due, Sleepers
    <3>3. t \in Awake /\ t \notin Waiters(s) /\ s \in Stage
      BY <2>0, TeamFacts DEF Sleepers, Waiters, Stage, stage_count
    <3>4. count_[s] + 1 = Cardinality(Awake)
      BY <1>6, <2>0 DEF StageLast, TeamInv
    <3>5. Awake = Waiters(s) \cup {t}
      BY <2>0, <3>3, <3>4, OnlyOneMissing
    <3>6. ASSUME NEW u \in Thread, u # t PROVE tally'[u] = Due(u)'
      <4>1. pc[u] \in Sleepers \/ u \in Waiters(s)
        BY <3>5, <3>6, TeamFacts
      <4>2. u \in Waiters(s) => pc[u] = "spin" /\ stages[u] = 2
        BY <2>2 DEF Waiters
      <4>. QED  BY <1>c, <2>0, <2>2, <3>1, <3>6, <4>1, <4>2 DEF Due, Sleepers
    <3>. QED  BY <3>2, <3>6 DEF LedgerInv
  <2>. QED  BY <2>1, <2>2
<1>7. ASSUME NEW t \in Thread, ResetStage(t) PROVE LedgerInv'
  <2>0. stage_ = 3 /\ stage_' = 0
    BY <1>7 DEF ResetStage, Bookkeeping, ClosingInv, Closers, stage_count
  <2>1. tally'[t] = Due(t)'
    BY <1>c, <1>7 DEF ResetStage, Due, Sleepers
  <2>2. ASSUME NEW u \in Thread, u # t PROVE tally'[u] = Due(u)'
    BY <1>0, <1>7, <2>0, <2>2 DEF ResetStage
  <2>. QED  BY <2>1, <2>2 DEF LedgerInv
<1>8. ASSUME NEW t \in Thread, BumpGeneration(t) PROVE LedgerInv'
  <2>0. lock_ = 1 /\ lock_' = 0 /\ generation_' = generation_ + 1
    BY <1>8 DEF BumpGeneration, Bookkeeping, ClosingInv, Closers
  <2>1. tally'[t] = Due(t)'
    BY <1>c, <1>8, <2>0 DEF BumpGeneration, Due, Sleepers
  <2>2. ASSUME NEW u \in Thread, u # t PROVE tally'[u] = Due(u)'
    BY <1>0, <1>8, <2>0, <2>2 DEF BumpGeneration
  <2>. QED  BY <2>1, <2>2 DEF LedgerInv
<1>9. ASSUME NEW t \in Thread, Released(t) PROVE LedgerInv'
  <2>1. tally'[t] = Due(t)'
    <3>1. CASE stages[t] = 2
      BY <1>c, <1>9, <3>1 DEF Released, LeaveSpin, Due, Sleepers, stage_count
    <3>2. CASE stages[t] # 2
      BY <1>c, <1>9, <3>2 DEF Released, LeaveSpin, Due, Sleepers, stage_count
    <3>. QED  BY <3>1, <3>2
  <2>2. ASSUME NEW u \in Thread, u # t PROVE tally'[u] = Due(u)'
    BY <1>0, <1>9, <2>2 DEF Released, LeaveSpin
  <2>. QED  BY <2>1, <2>2 DEF LedgerInv
<1>10. ASSUME NEW t \in Thread, pc[t] = "app", lock_ = 0, stage_ = 0,
              stage_' \in {0, 1}, FallAsleep(t)
       PROVE  LedgerInv'
  <2>1. tally'[t] = Due(t)'
    BY <1>c, <1>10 DEF FallAsleep, Due, Sleepers
  <2>2. ASSUME NEW u \in Thread, u # t PROVE tally'[u] = Due(u)'
    BY <1>0, <1>10, <2>2 DEF FallAsleep
  <2>. QED  BY <2>1, <2>2 DEF LedgerInv
<1>11. ASSUME NEW t \in Thread, DozesOff(t) \/ DropsOut(t) PROVE LedgerInv'
  BY <1>10, <1>11 DEF DozesOff, DropsOut, SleepBetweenRounds, SleepLeavesTeam
<1>12. ASSUME NEW t \in Thread, Retries(t) PROVE LedgerInv'
  <2>1. tally'[t] = Due(t)'
    BY <1>c, <1>12 DEF Retries, WakeMustWait, Due, Sleepers
  <2>2. ASSUME NEW u \in Thread, u # t PROVE tally'[u] = Due(u)'
    BY <1>0, <1>12, <2>2 DEF Retries, WakeMustWait
  <2>. QED  BY <2>1, <2>2 DEF LedgerInv
<1>13. ASSUME NEW t \in Thread, Returns(t) PROVE LedgerInv'
  <2>1. tally'[t] = Due(t)'
    BY <1>c, <1>13 DEF Returns, WakeSucceeds, Due, Sleepers
  <2>2. ASSUME NEW u \in Thread, u # t PROVE tally'[u] = Due(u)'
    BY <1>0, <1>13, <2>2 DEF Returns, WakeSucceeds
  <2>. QED  BY <2>1, <2>2 DEF LedgerInv
<1>14. ASSUME NEW t \in Thread, WaitForEnd(t) PROVE LedgerInv'
  <2>1. tally'[t] = Due(t)'
    BY <1>c, <1>14 DEF WaitForEnd, Due, Sleepers
  <2>2. ASSUME NEW u \in Thread, u # t PROVE tally'[u] = Due(u)'
    BY <1>0, <1>14, <2>2 DEF WaitForEnd
  <2>. QED  BY <2>1, <2>2 DEF LedgerInv
<1>. QED
  BY StepCases, <1>1, <1>2, <1>3, <1>4, <1>5, <1>6, <1>7, <1>8, <1>9, <1>11,
     <1>12, <1>13, <1>14

-----------------------------------------------------------------------------
(* What follows for a fixed team                                           *)

Safe == TypeOK /\ Bookkeeping /\ TeamInv /\ LedgerInv

LEMMA SafeStep == Safe /\ [Next]_vars => Safe'
<1>1. Safe /\ Next => Safe'
  BY TypeStep, RegistrationStep, ClosingStep, CountingStep, TeamStep, LedgerStep
  DEF Safe, Bookkeeping
<1>2. Safe /\ UNCHANGED vars => Safe'
  <2>. SUFFICES ASSUME Safe, UNCHANGED vars PROVE Safe'
    OBVIOUS
  <2>1. TypeOK' /\ Bookkeeping'
    BY TypeStep, BookkeepingStutter DEF Safe
  <2>2. TeamInv'
    BY DEF Safe, vars, TeamInv, InStep, Awake, Waiters
  <2>3. LedgerInv'
    BY DEF Safe, vars, LedgerInv, Due
  <2>. QED  BY <2>1, <2>2, <2>3 DEF Safe
<1>. QED  BY <1>1, <1>2

\* The inductive invariant of the barrier with a fixed team.
THEOREM TeamStaysTogether == ASSUME TeamIsFixed PROVE Spec => []Safe
<1>1. Init => Safe
  BY TeamInit, TypeInit, BookkeepingInit DEF Safe
<1>. QED  BY <1>1, SafeStep, PTL DEF Spec

\* StageSeparation: while a thread works in a synchronised stage, every awake
\* thread is in that stage, so the unlocked walks of SynchronizedOperations over
\* the lists of other threads see lists that nobody changes.
THEOREM StagesStaySeparate == ASSUME TeamIsFixed PROVE Spec => []StageSeparation
<1>1. ASSUME Safe PROVE StageSeparation
  <2>. SUFFICES ASSUME NEW t \in Awake, NEW u \in Awake, pc[t] = "work"
                PROVE  SegmentOf(u) = SegmentOf(t)
    BY DEF StageSeparation
  <2>1. /\ t \in Thread /\ u \in Thread /\ pc[u] \notin Sleepers
        /\ InStep(t) /\ InStep(u)
    BY <1>1, AwakeThreads, TeamFacts DEF Safe, TeamInv
  <2>2. stage_ \in {1, 2} /\ stage_ = stages[t] + 1 /\ SegmentOf(t) = stage_
    BY <1>1, <2>1
    DEF InStep, Sleepers, SegmentOf, Safe, TypeOK, Stage, stage_count
  <2>3. pc[u] \notin {"closing", "closed"}
    BY <1>1, <2>1, <2>2
    DEF Safe, Bookkeeping, ClosingInv, Closers, stage_count
  <2>4. stages[u] \in {0, 1, 2}
    BY <1>1, <2>1 DEF Safe, TypeOK, Stage, stage_count
  <2>5. CASE pc[u] = "work"
    BY <2>1, <2>2, <2>5 DEF InStep, Sleepers, SegmentOf, stage_count
  <2>6. CASE pc[u] = "spin" /\ stage_ = stages[u]
    BY <2>2, <2>6 DEF SegmentOf
  <2>7. CASE pc[u] = "spin" /\ stage_ # stages[u]
    <3>1. stage_ = stages[u] + 1 /\ stages[u] + 1 < 3
      BY <2>1, <2>2, <2>4, <2>7 DEF InStep, Sleepers, stage_count
    <3>2. (stages[u] + 1) % 3 = stages[u] + 1
      BY <2>4, <3>1
    <3>. QED  BY <2>2, <2>7, <3>1, <3>2 DEF SegmentOf, stage_count
  <2>. QED
    BY <2>1, <2>2, <2>3, <2>5, <2>6, <2>7 DEF InStep, Sleepers, stage_count
<1>. QED  BY <1>1, TeamStaysTogether, PTL

\* NoFailure: none of the exceptions of rda-sync.cc is ever thrown.
THEOREM NothingIsThrown == ASSUME TeamIsFixed PROVE Spec => []NoFailure
<1>1. Safe => NoFailure
  BY DEF Safe, TeamInv, NoFailure
<1>. QED  BY <1>1, TeamStaysTogether, PTL

\* TeamAccounting: next_threads_ counts the awake threads and, while threads wait,
\* threads_ and the stage's counter are the sizes of the team and of its waiting
\* part, which is never the whole team.
THEOREM TeamIsCounted == ASSUME TeamIsFixed PROVE Spec => []TeamAccounting
<1>1. ASSUME Safe PROVE TeamAccounting
  <2>1. ASSUME NEW s \in Stage, count_[s] # 0
        PROVE  /\ stage_ = s /\ count_[s] < threads_
               /\ count_[s] = Cardinality(Waiters(s))
               /\ threads_ = Cardinality(Awake)
    BY <1>1, <2>1
    DEF Safe, Bookkeeping, CountingInv, TeamInv, Stage, stage_count
  <2>. QED
    BY <1>1, <2>1 DEF Safe, Bookkeeping, RegistrationInv, TeamAccounting
<1>. QED  BY <1>1, TeamStaysTogether, PTL

\* RoundLedger: a thread in application code has counted every finished round
\* exactly once, whether it took part in it or slept through it.
THEOREM RoundsAreCounted == ASSUME TeamIsFixed PROVE Spec => []RoundLedger
<1>1. ASSUME Safe PROVE RoundLedger
  <2>. SUFFICES ASSUME NEW t \in Awake, lock_ = 0, pc[t] = "app"
                PROVE  tally[t] = generation_ - 1
    BY DEF RoundLedger
  <2>. QED
    BY <1>1, AwakeThreads DEF Safe, LedgerInv, Due, Sleepers, TypeOK
<1>. QED  BY <1>1, TeamStaysTogether, PTL

\* EverySlotServedOnce: in the synchronised stages the awake threads divide all slots
\* among themselves, none left out and none twice, and GetAdjacentSleepers does not
\* throw.
THEOREM SlotsAreDivided == ASSUME TeamIsFixed PROVE Spec => []EverySlotServedOnce
<1>1. ASSUME Safe PROVE EverySlotServedOnce
  <2> DEFINE n == total_threads_
  <2>. SUFFICES ASSUME NEW t \in Awake, pc[t] = "work"
                PROVE  /\ ~AdjacentFails(t, Awake, n, threads_)
                       /\ \A slot \in 0 .. n - 1 :
                            Cardinality({u \in Awake : slot \in Served(u, Awake, n)}) = 1
    BY DEF EverySlotServedOnce
  <2>1. n = ThreadCount /\ n \in Nat
    BY <1>1, CountAssumption DEF Safe, TeamInv
  <2>2. Awake \in SUBSET (0 .. n - 1)
    BY <2>1, AwakeThreads DEF Thread
  <2>3. t \in 0 .. n - 1 /\ n \in Nat \ {0}
    BY <2>1, <2>2
  <2>4. threads_ = Cardinality(Awake)
    <3>1. t \in Thread /\ stages \in [Thread -> {0, 1, 2}] /\ InStep(t)
      BY <1>1, <2>1, <2>3 DEF Safe, TeamInv, TypeOK, Thread, Stage, stage_count
    <3>2. stage_ \in {1, 2}
      BY <3>1 DEF InStep, Sleepers, stage_count
    <3>. QED  BY <1>1, <3>2 DEF Safe, TeamInv
  <2>5. ~AdjacentFails(t, Awake, n, threads_)
    <3>1. SUFFICES ASSUME Gap(t, Awake, n) = n PROVE threads_ = 1
      BY DEF AdjacentFails
    <3>2. Awake = {t}
      BY <2>2, <2>3, <3>1, AloneIsAlone
    <3>. QED  BY <2>4, <3>2, FS_Singleton
  <2>6. ASSUME NEW slot \in 0 .. n - 1
        PROVE  Cardinality({u \in Awake : slot \in Served(u, Awake, n)}) = 1
    <3>1. PICK u \in Awake : slot \in Served(u, Awake, n)
      BY <2>2, <2>3, SlotIsServed
    <3>2. \A v \in Awake : slot \in Served(v, Awake, n) => v = u
      BY <2>2, <2>3, <3>1, SlotIsServedOnce
    <3>3. {v \in Awake : slot \in Served(v, Awake, n)} = {u}
      BY <3>1, <3>2
    <3>. QED  BY <3>3, FS_Singleton
  <2>. QED  BY <2>5, <2>6
<1>. QED  BY <1>1, TeamStaysTogether, PTL

\* AwakeFrozenDuringRound: from the release of a round to its end nobody falls
\* asleep or wakes up.  This holds whatever threads join and when.
THEOREM TeamIsFrozen == Spec => AwakeFrozenDuringRound
<1>1. ASSUME TypeOK, Bookkeeping, Next, stage_ # 0 PROVE awake_' = awake_
  <2>1. ASSUME NEW t \in Thread, Joins(t) PROVE awake_' = awake_
    <3>1. awake_[t] = TRUE
      BY <1>1, <2>1 DEF Joins, Bookkeeping, RegistrationInv, Sleepers, TypeOK
    <3>. QED  BY <1>1, <2>1, <3>1 DEF Joins, Register, TypeOK
  <2>2. ASSUME NEW t \in Thread, Returns(t) PROVE FALSE
    BY <1>1, <2>2 DEF Returns, WakeSucceeds, RoundInProgress, TypeOK, stage_count
  <2>. QED
    BY <1>1, <2>1, <2>2, StepCases
    DEF Throw, AtStart, AtStage, StartEarly, StartLast, StageEarly, StageLast,
        CountIn, ResetStage, BumpGeneration, Released, LeaveSpin, DozesOff,
        DropsOut, Retries, WakeMustWait, WaitForEnd
<1>2. TypeOK /\ Bookkeeping /\ [Next]_vars => [stage_ # 0 => awake_' = awake_]_vars
  BY <1>1 DEF vars
<1>. QED
  BY <1>2, TypeCorrect, BookkeepingHolds, PTL DEF Spec, AwakeFrozenDuringRound

-----------------------------------------------------------------------------
(***************************************************************************)
(* The barrier implements StagedRendezvous when all threads are registered *)
(* at the start.  Counting in is Arrive (and, for the last thread, the     *)
(* release of the team), Sleep is FallAsleep and the successful Wake is    *)
(* WakeUp; every other step of the code is invisible.                      *)
(***************************************************************************)

Abstract == <<Asleep, Segment, Arrived, Round>>

\* The abstract state, in the terms of TeamInv.
LEMMA View ==
  ASSUME TypeOK, Bookkeeping, TeamInv
  PROVE  /\ Asleep = Thread \ Awake
         /\ Awake \in SUBSET Thread
         /\ \A s \in Stage : stage_ = s => Arrived = Waiters(s)
         /\ \A s \in Stage : stage_ = s => Segment = s
         /\ stage_ = 3 => Arrived = {} /\ Segment = 0
<1>1. \A t \in Thread : t < total_threads_
  BY CountAssumption DEF TeamInv, Thread
<1>2. stages \in [Thread -> {0, 1, 2}]
  BY DEF TypeOK, Stage, stage_count
<1>3. stage_ = 3 => Arrived = {}
  BY <1>2 DEF Arrived
<1>4. Asleep = Thread \ Awake
  BY <1>1 DEF Asleep, Awake
<1>5. \A s \in Stage : stage_ = s => Arrived = Waiters(s)
  BY DEF Arrived, Waiters
<1>6. 3 % 3 = 0 /\ \A s \in {0, 1, 2} : s % 3 = s
  OBVIOUS
<1>. QED
  BY <1>3, <1>4, <1>5, <1>6, AwakeThreads DEF Segment, Stage, stage_count

LEMMA RefinementInit == ASSUME TeamIsFixed, Init PROVE Rendezvous!Init
<1>1. Asleep = {}
  BY DEF Init, Asleep
<1>2. Arrived = {}
  BY DEF Init, Arrived
<1>3. Segment = 0 /\ Round = 1
  BY DEF Init, Segment, Round, stage_count
<1>. QED  BY <1>1, <1>2, <1>3 DEF Rendezvous!Init

\* t counts in at stage s and is not the last one.
LEMMA EarlyArrives ==
  ASSUME TypeOK, Bookkeeping, TeamInv, NEW s \in Stage, stage_ = s, lock_ = 0,
         NEW t \in Awake, pc[t] \in {"app", "work"},
         count_[s] + 1 # Cardinality(Awake),
         CountIn(t, s), JoinWaiters(t, s)
  PROVE  Rendezvous!Arrive(t)
<1>1. t \in Thread /\ t \notin Waiters(s)
  BY AwakeThreads DEF Waiters
<1>2. Awake # Waiters(s) \cup {t}
  BY <1>1, OnlyOneMissing
<1>3. /\ \A u \in Thread : pc'[u] = IF u = t THEN "spin" ELSE pc[u]
      /\ \A u \in Thread : stages'[u] = IF u = t THEN s ELSE stages[u]
      /\ stage_' = s
  BY <1>1 DEF CountIn, JoinWaiters, Goto, TypeOK
<1>4. Arrived = Waiters(s) /\ Asleep = Thread \ Awake /\ Waiters(s) \in SUBSET Awake
  BY View, TeamFacts
<1>5. Arrived' = Arrived \cup {t}
  BY <1>1, <1>3 DEF Arrived
<1>6. UNCHANGED <<Asleep, Segment, Round>>
  BY DEF CountIn, JoinWaiters, Asleep, Segment, Round
<1>7. Asleep \cup Arrived \cup {t} # Thread /\ t \notin Asleep \cup Arrived
  BY <1>1, <1>2, <1>4, AwakeThreads
<1>. QED  BY <1>5, <1>6, <1>7 DEF Rendezvous!Arrive

\* A step that lets a complete team go is a Release: t is the one the others
\* were waiting for at stage s, and moves on to l.
LEMMA TeamGoesOn ==
  ASSUME TypeOK, Bookkeeping, TeamInv, NEW s \in Stage, stage_ = s, lock_ = 0,
         NEW t \in Awake, Awake = Waiters(s) \cup {t},
         NEW l \in {"work", "closing", "asleep"}, Goto(t, l),
         l = "work" => stages'[t] = s /\ s < 2,
         \A u \in Thread : u # t => stages'[u] = stages[u],
         stage_' = s + 1, generation_' = generation_,
         lock_' = IF s + 1 = stage_count THEN 1 ELSE 0,
         stages' \in [Thread -> Stage]
  PROVE  Rendezvous!Release
<1>1. Waiters(s + 1)' = {}
  BY TeamReleased
<1>2. Arrived' = {}
  BY <1>1 DEF Waiters, Arrived
<1>3. Segment = s /\ s \in {0, 1, 2}
  BY View DEF Stage, stage_count
<1>4. Segment' = (Segment + 1) % stage_count
  BY <1>3 DEF Segment
<1>5. Round' = IF Segment + 1 = stage_count THEN Round + 1 ELSE Round
  BY <1>3 DEF Round, stage_count, TypeOK
<1>. QED  BY <1>2, <1>4, <1>5 DEF Rendezvous!Release

\* t is the last one to count in at stage s.
LEMMA LastArrives ==
  ASSUME TypeOK, Bookkeeping, TeamInv, NEW s \in Stage, stage_ = s, lock_ = 0,
         NEW t \in Awake, pc[t] \in {"app", "work"},
         count_[s] + 1 = Cardinality(Awake),
         CountIn(t, s), ReleaseStage(t, s)
  PROVE  Rendezvous!Arrive(t)
<1>. USE DEF stage_count
<1>1. t \in Thread /\ t \notin Waiters(s)
  BY AwakeThreads DEF Waiters
<1>2. Awake = Waiters(s) \cup {t}
  BY <1>1, OnlyOneMissing
<1>3. /\ stages' \in [Thread -> Stage]
      /\ \A u \in Thread : stages'[u] = IF u = t THEN s ELSE stages[u]
  BY <1>1 DEF CountIn, TypeOK
<1>4. PICK l \in {"work", "closing"} : Goto(t, l) /\ (l = "work" => s < 2)
  BY DEF ReleaseStage, Stage
<1>5. /\ stage_' = s + 1 /\ generation_' = generation_
      /\ lock_' = IF s + 1 = stage_count THEN 1 ELSE 0
  BY DEF ReleaseStage, CountIn
<1>6. Rendezvous!Release
  BY <1>1, <1>2, <1>3, <1>4, <1>5, TeamGoesOn
<1>7. Arrived = Waiters(s) /\ Asleep = Thread \ Awake
  BY View
<1>8. Asleep \cup Arrived \cup {t} = Thread /\ t \notin Asleep \cup Arrived
  BY <1>1, <1>2, <1>7, AwakeThreads
<1>9. Asleep' = Asleep
  BY DEF CountIn, Asleep
<1>. QED  BY <1>6, <1>8, <1>9 DEF Rendezvous!Arrive

\* t leaves the team, possibly as the one the others were waiting for.
LEMMA SleeperLeaves ==
  ASSUME TypeOK, Bookkeeping, TeamInv, NEW t \in Thread, DozesOff(t) \/ DropsOut(t)
  PROVE  Rendezvous!FallAsleep(t)
<1>. USE DEF stage_count
<1>1. pc[t] = "app" /\ stage_ = 0 /\ lock_ = 0 /\ FallAsleep(t)
  BY DEF DozesOff, DropsOut, SleepBetweenRounds, SleepLeavesTeam
<1>2. t \in Awake /\ t \notin Waiters(0) /\ 0 \in Stage
  BY <1>1, TeamFacts DEF Sleepers, Waiters, Stage
<1>3. /\ \A u \in Thread : pc'[u] = IF u = t THEN "asleep" ELSE pc[u]
      /\ stages' = stages /\ generation_' = generation_ /\ lock_' = lock_
  BY <1>1 DEF FallAsleep, Goto, TypeOK
<1>4. Arrived = Waiters(0) /\ Asleep = Thread \ Awake /\ Segment = 0
      /\ Waiters(0) \in SUBSET Awake /\ Awake \in SUBSET Thread
  BY <1>1, <1>2, View, TeamFacts
<1>5. Asleep' = Asleep \cup {t}
  BY <1>1 DEF FallAsleep, Asleep, TypeOK
<1>6. count_[0] = Cardinality(Waiters(0)) /\ count_[0] \in Nat
  BY <1>1, <1>2 DEF TeamInv, TypeOK
<1>7. count_[0] = 0 <=> Arrived = {}
  BY <1>4, <1>6, ThreadIsFinite, FS_EmptySet, AwakeThreads
<1>8. Asleep' \cup Arrived = Thread <=> Awake = Waiters(0) \cup {t}
  BY <1>2, <1>4, <1>5
<1>9. CASE DozesOff(t)
  <2>1. count_[0] = 0 /\ stage_' = stage_
    BY <1>9 DEF DozesOff, SleepBetweenRounds
  <2>2. Arrived' = Arrived
    BY <1>1, <1>3, <2>1 DEF Arrived
  <2>3. UNCHANGED <<Segment, Round>>
    BY <1>3, <2>1 DEF Segment, Round
  <2>. QED
    BY <1>2, <1>4, <1>5, <1>7, <2>1, <2>2, <2>3 DEF Rendezvous!FallAsleep
<1>10. CASE DropsOut(t)
  <2>1. count_[0] # 0
    BY <1>10 DEF DropsOut, SleepLeavesTeam
  <2>2. threads_ = Cardinality(Awake) /\ Cardinality(Awake) \in Nat
    BY <2>1, ThreadIsFinite, AwakeThreads DEF TeamInv
  <2>3. count_[0] + 1 = Cardinality(Awake) <=> Awake = Waiters(0) \cup {t}
    BY <1>1, <1>2, OnlyOneMissing
  <2>4. CASE count_[0] = threads_ - 1
    <3>1. stage_' = 0 + 1
      BY <1>10, <2>4 DEF DropsOut, SleepLeavesTeam
    <3>2. Awake = Waiters(0) \cup {t}
      BY <1>6, <2>2, <2>3, <2>4
    <3>3. Goto(t, "asleep") /\ stages' \in [Thread -> Stage]
      BY <1>1, <1>3 DEF FallAsleep, TypeOK
    <3>4. lock_' = IF 0 + 1 = stage_count THEN 1 ELSE 0
      BY <1>1, <1>3
    <3>5. Rendezvous!Release
      BY <1>1, <1>2, <1>3, <3>1, <3>2, <3>3, <3>4, TeamGoesOn
    <3>. QED
      BY <1>2, <1>4, <1>5, <1>7, <1>8, <2>1, <3>2, <3>5 DEF Rendezvous!FallAsleep
  <2>5. CASE count_[0] # threads_ - 1
    <3>1. stage_' = stage_
      BY <1>10, <2>5 DEF DropsOut, SleepLeavesTeam
    <3>2. Arrived' = Arrived
      BY <1>1, <1>3, <3>1 DEF Arrived
    <3>3. UNCHANGED <<Segment, Round>>
      BY <1>3, <3>1 DEF Segment, Round
    <3>4. ~(Asleep' \cup Arrived = Thread)
      BY <1>6, <1>8, <2>2, <2>3, <2>5
    <3>. QED
      BY <1>2, <1>4, <1>5, <3>2, <3>3, <3>4 DEF Rendezvous!FallAsleep
  <2>. QED  BY <2>4, <2>5
<1>. QED  BY <1>9, <1>10

\* The Wake that finds no round in progress.
LEMMA SleeperReturns ==
  ASSUME TypeOK, Bookkeeping, TeamInv, NEW t \in Thread, Returns(t)
  PROVE  Rendezvous!WakeUp(t)
<1>1. /\ pc[t] \in Sleepers /\ stage_ = 0 /\ count_[0] = 0 /\ 0 \in Stage
      /\ UNCHANGED <<stage_, stages, generation_, lock_>>
      /\ Goto(t, "app") /\ awake_' = [awake_ EXCEPT ![t] = TRUE]
  BY DEF Returns, WakeSucceeds, RoundInProgress, Sleepers, TypeOK, Stage, stage_count
<1>2. \A u \in Thread : pc'[u] = IF u = t THEN "app" ELSE pc[u]
  BY <1>1 DEF Goto, TypeOK
<1>3. Arrived = Waiters(0) /\ Segment = 0
  BY <1>1, View
<1>4. Arrived = {}
  BY <1>1, <1>3, ThreadIsFinite, FS_EmptySet, TeamFacts, AwakeThreads DEF TeamInv
<1>5. Arrived' = Arrived
  BY <1>1, <1>2 DEF Arrived, Sleepers
<1>6. t \in Asleep /\ Asleep' = Asleep \ {t}
  BY <1>1 DEF Asleep, Bookkeeping, RegistrationInv, TypeOK
<1>7. UNCHANGED <<Segment, Round>>
  BY <1>1 DEF Segment, Round
<1>. QED  BY <1>3, <1>4, <1>5, <1>6, <1>7 DEF Rendezvous!WakeUp

\* The last two steps of a round change neither the abstract round nor segment.
LEMMA ClosingIsInvisible ==
  ASSUME TypeOK, Bookkeeping, TeamInv, NEW t \in Thread,
         ResetStage(t) \/ BumpGeneration(t)
  PROVE  UNCHANGED Abstract
<1>1. Asleep' = Asleep
  BY DEF ResetStage, BumpGeneration, Asleep
<1>2. CASE ResetStage(t)
  <2>1. stage_ = 3 /\ stage_' = 0 /\ pc[t] = "closing" /\ Goto(t, "closed")
        /\ UNCHANGED <<stages, generation_, lock_>>
    BY <1>2 DEF ResetStage, Bookkeeping, ClosingInv, Closers, stage_count
  <2>2. \A u \in Thread : pc[u] = "spin" => stages[u] = 2
    BY <2>1 DEF TeamInv, InStep, Sleepers, TypeOK, Stage, stage_count
  <2>3. \A u \in Thread : pc'[u] = "spin" => stages'[u] = 2
    BY <2>1, <2>2 DEF Goto, TypeOK
  <2>4. Arrived' = {} /\ Arrived = {}
    BY <2>1, <2>2, <2>3 DEF Arrived
  <2>5. Segment = 0 /\ Segment' = 0
    BY <2>1 DEF Segment, stage_count
  <2>. QED  BY <1>1, <2>1, <2>4, <2>5 DEF Abstract, Round
<1>3. CASE BumpGeneration(t)
  <2>1. /\ lock_ = 1 /\ lock_' = 0 /\ generation_' = generation_ + 1
        /\ pc[t] = "closed" /\ Goto(t, "app") /\ UNCHANGED <<stages, stage_>>
    BY <1>3 DEF BumpGeneration, Bookkeeping, ClosingInv, Closers
  <2>2. Arrived' = Arrived
    BY <2>1 DEF Arrived, Goto, TypeOK
  <2>. QED  BY <1>1, <2>1, <2>2 DEF Abstract, Segment, Round, TypeOK
<1>. QED  BY <1>2, <1>3

LEMMA RefinementStep ==
  ASSUME Safe, [Next]_vars
  PROVE  [Rendezvous!Next]_(Rendezvous!vars)
<1>. USE DEF Safe
<1>a. UNCHANGED Abstract => UNCHANGED Rendezvous!vars
  BY DEF Abstract, Rendezvous!vars
<1>0. CASE UNCHANGED vars
  BY <1>0, <1>a DEF vars, Abstract, Asleep, Arrived, Segment, Round
<1>1. ASSUME NEW w \in Failures, Throw(w) PROVE UNCHANGED Abstract
  BY <1>1 DEF Throw, Abstract, Asleep, Arrived, Segment, Round
<1>2. ASSUME NEW t \in Thread PROVE ~Joins(t)
  BY TeamFacts DEF Joins
<1>3. ASSUME NEW t \in Thread, AtStart(t), StartEarly(t) \/ StartLast(t)
      PROVE  Rendezvous!Arrive(t)
  <2>1. /\ t \in Awake /\ TeamSize = Cardinality(Awake) /\ pc[t] = "app"
        /\ 0 \in Stage /\ stage_ = 0 /\ lock_ = 0
    BY <1>3, TeamFacts
    DEF AtStart, TeamSize, TeamInv, Bookkeeping, RegistrationInv, Sleepers, Stage,
        stage_count
  <2>. QED  BY <1>3, <2>1, EarlyArrives, LastArrives DEF StartEarly, StartLast
<1>4. ASSUME NEW t \in Thread, NEW s \in {1, 2}, AtStage(t, s),
             StageEarly(t, s) \/ StageLast(t, s)
      PROVE  Rendezvous!Arrive(t)
  <2>1. /\ t \in Awake /\ threads_ = Cardinality(Awake) /\ pc[t] = "work"
        /\ s \in Stage /\ stage_ = s /\ lock_ = 0
    BY <1>4, TeamFacts DEF AtStage, TeamInv, Sleepers, Stage, stage_count
  <2>. QED  BY <1>4, <2>1, EarlyArrives, LastArrives DEF StageEarly, StageLast
<1>5. ASSUME NEW t \in Thread, Released(t) PROVE UNCHANGED Abstract
  <2>1. /\ UNCHANGED <<awake_, stage_, stages, generation_, lock_>>
        /\ stage_ # stages[t]
        /\ \A u \in Thread : u # t => pc'[u] = pc[u]
        /\ pc'[t] # "spin"
    BY <1>5 DEF Released, LeaveSpin, Goto, TypeOK
  <2>2. Arrived' = Arrived
    BY <2>1 DEF Arrived
  <2>. QED  BY <2>1, <2>2 DEF Abstract, Asleep, Segment, Round
<1>6. ASSUME NEW t \in Thread, Retries(t) \/ WaitForEnd(t) PROVE UNCHANGED Abstract
  <2>1. /\ UNCHANGED <<awake_, stage_, stages, generation_, lock_>>
        /\ pc[t] # "spin" /\ pc'[t] # "spin"
        /\ \A u \in Thread : u # t => pc'[u] = pc[u]
    BY <1>6 DEF Retries, WakeMustWait, WaitForEnd, Goto, TypeOK
  <2>2. Arrived' = Arrived
    BY <2>1 DEF Arrived
  <2>. QED  BY <2>1, <2>2 DEF Abstract, Asleep, Segment, Round
<1>7. CASE Next
  BY <1>7, <1>a, <1>1, <1>2, <1>3, <1>4, <1>5, <1>6, StepCases, ClosingIsInvisible,
     SleeperLeaves, SleeperReturns DEF Rendezvous!Next
<1>. QED  BY <1>0, <1>7

\* ImplementsRendezvous: for every number of threads, all registered before they
\* run, the barrier of rda-sync.cc lets the awake threads through segment by
\* segment, all at once, and lets them leave and return between rounds only.
THEOREM Implementation == ASSUME TeamIsFixed PROVE Spec => ImplementsRendezvous
<1>1. Init => Rendezvous!Init
  BY RefinementInit
<1>2. Safe /\ [Next]_vars => [Rendezvous!Next]_(Rendezvous!vars)
  BY RefinementStep
<1>. QED
  BY <1>1, <1>2, TeamStaysTogether, PTL DEF Spec, ImplementsRendezvous, Rendezvous!Spec
=============================================================================
