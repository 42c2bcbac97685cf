------------------- MODULE ParallelSampledStackTeamProofs -------------------
(***************************************************************************)
(* Proofs about ParallelSampledStack when all threads have met in a round  *)
(* before the first sample, so nobody joins any more: the rounds do for    *)
(* every sample what they are for, whoever sleeps, and nothing is thrown.  *)
(***************************************************************************)
EXTENDS ParallelSampledStackProofs

-----------------------------------------------------------------------------
(* The invariant                                                           *)

AwakeThreads == {t \in Thread : pc[t] \notin {"unborn", "asleep"}}

\* Nobody appears, and the barrier knows who is awake.
Team ==
  /\ thread_count = setup.threads
  /\ \A t \in Thread : pc[t] # "joining"
  /\ \A t \in InQueue : ~new_thread_[t]
  /\ awake = AwakeThreads

Work == IF stage_ = 1 THEN "work1" ELSE "work2"

\* Between rounds nobody works and the awake threads gather; in a stage all awake
\* threads work, or wait for the others.
Stages ==
  /\ stage_ = 0 =>
       /\ \A t \in Thread : pc[t] \notin {"work1", "work2"}
       /\ Waiting # {} => threads_ = Cardinality(awake) /\ Waiting # awake
  /\ stage_ # 0 =>
       /\ \A t \in awake : pc[t] = "wait" \/ pc[t] = Work
       /\ threads_ = Cardinality(awake) /\ Waiting # awake

\* What t is to do when the flags are m and f.
PlanOf(t, m, f) ==
  [ merge |-> m, finalize |-> f,
    end |-> IF m \/ f THEN EndSleepers(t, awake, thread_count) ELSE -2 ]

\* All threads of a stage work from the same flags.
Plans ==
  /\ \A t \in Thread : plan[t] # <<>> => pc[t] = "work2" \/ (pc[t] = "wait" /\ stage_ = 1)
  /\ stage_ = 1 => \A t \in Waiting : plan[t] = PlanOf(t, merge_needed, finalize_needed)
  /\ \E m, f \in BOOLEAN : \A t \in Thread : pc[t] = "work2" => plan[t] = PlanOf(t, m, f)

ServedBy(t) == Served(t, awake, thread_count)

\* A sample that nobody can see yet is not marked.
NewIsActive ==
  \A t \in Thread : newDS[t] # NoDs /\ pc[t] # "leave" => ds[newDS[t]].finalize = "kActive"

\* A mark is called out until the first stage of a round is over; in the second stage
\* somebody is still to take it.
Marks ==
  \A d \in DsId : Exists(d) /\ Marked(d) =>
    /\ stage_ = 0 => finalize_needed /\ synchronize
    /\ stage_ = 1 => finalize_needed
    /\ stage_ = 2 => \E t \in awake : /\ pc[t] = "work2" /\ plan[t].finalize
                                      /\ ds[d].owner \in ServedBy(t)

\* What a thread has called out stays so until its round.
Announce ==
  \A t \in Thread :
    /\ pc[t] = "prune" => synchronize /\ oldest_distance_set_[t] # NoDs
    /\ stage_ # 2 /\ pc[t] \in {"start", "wait", "work1"} /\ action[t] = "kFinalize"
         => finalize_needed

\* The write sets of a sample are pulled out by the thread that serves its owner, in
\* the first stage of the round that finalizes it.
Pulled ==
  \A d \in AllLinked :
    ds[d].pulled <=> /\ thread_count # 1 /\ Marked(d)
                     /\ \/ stage_ = 1 /\ \E t \in Waiting : ds[d].owner \in ServedBy(t)
                        \/ stage_ = 2

NewNotPulled == \A t \in Thread : newDS[t] # NoDs => ~ds[newDS[t]].pulled

\* The list of a thread that called out one of its samples gets shorter in the round.
Lengths ==
  \A t \in Thread :
    /\ pc[t] \in {"start", "wait", "work1", "work2"} /\ action[t] = "kFinalize" /\ ll1[t] >= 0
         => \/ Len(distance_sets_[t]) < ll1[t]
            \/ Len(distance_sets_[t]) = ll1[t] /\ \E d \in Linked(t) : Marked(d)
    /\ pc[t] = "checks" \/ (pc[t] = "leave" /\ action[t] = "kFinalize")
         => /\ ll1[t] < 0 \/ Len(distance_sets_[t]) < ll1[t]
            /\ \A d \in Linked(t) : ds[d].finalize # "kReuseFinalize"

\* WriteSetsMatch of a fixed team.
Matched ==
  \A i \in InQueue, d \in DsId :
    Len(write_sets_[i][d]) = IF d \in Watchable /\ ds[d].owner # i THEN 1 ELSE 0

TeamInv ==
  /\ Team /\ Stages /\ Plans
  /\ NewIsActive /\ Marks /\ Announce /\ Pulled /\ NewNotPulled /\ Lengths /\ Matched

-----------------------------------------------------------------------------
(* The threads of a team                                                   *)

LEMMA AwakeType ==
  ASSUME IInv, Team
  PROVE  /\ awake \subseteq Thread /\ awake \subseteq InQueue /\ Waiting \subseteq awake
         /\ IsFiniteSet(awake) /\ Cardinality(awake) \in Nat
         /\ \A t \in Thread : t \in awake <=> pc[t] \notin {"unborn", "asleep"}
<1>1. awake \subseteq Thread /\ \A t \in Thread : t \in awake <=> pc[t] \notin {"unborn", "asleep"}
  BY DEF Team, AwakeThreads
<1>2. Waiting \subseteq awake
  BY <1>1 DEF Waiting
<1>3. awake \subseteq InQueue
  BY <1>1, InTheQueue DEF Team, IInv, TypeOK
<1> QED
  BY <1>1, <1>2, <1>3, ThreadsFinite

\* A subset of the awake threads with as many elements is all of them.
LEMMA AllOfThem ==
  ASSUME NEW S, NEW T, IsFiniteSet(T), S \subseteq T
  PROVE  /\ Cardinality(S) = Cardinality(T) <=> S = T
         /\ IsFiniteSet(S) /\ Cardinality(S) \in Nat
  BY FS_Subset, FS_CardinalityType

\* One thread arrives at stage s: the last one to come releases all awake ones.
LEMMA Arrival ==
  ASSUME IInv, Team, NEW t \in Thread, t \in awake, pc[t] # "wait", NEW s \in 0 .. 2,
         Arrive(t, s, Cardinality(awake))
  PROVE  \/ /\ Waiting \cup {t} = awake
            /\ stage_' = (s + 1) % 3
            /\ pc' = [u \in Thread |-> IF u \in awake THEN Beyond(s) ELSE pc[u]]
         \/ /\ Waiting \cup {t} # awake /\ stage_' = stage_
            /\ pc' = [pc EXCEPT ![t] = "wait"]
<1>1. Waiting \cup {t} \subseteq awake /\ IsFiniteSet(awake) /\ t \notin Waiting
  BY AwakeType DEF Waiting
<1>2. IsFiniteSet(Waiting)
  BY <1>1, AllOfThem
<1>3. Cardinality(Waiting \cup {t}) = Cardinality(Waiting) + 1
  BY <1>1, <1>2, FS_AddElement
<1>4. Cardinality(Waiting) + 1 = Cardinality(awake) <=> Waiting \cup {t} = awake
  BY <1>1, <1>3, AllOfThem
<1>5. CASE Waiting \cup {t} = awake
  <2>1. Release(s, Waiting \cup {t}, pc)
    BY <1>4, <1>5 DEF Arrive
  <2> QED
    BY <1>5, <2>1 DEF Release
<1>6. CASE Waiting \cup {t} # awake
  BY <1>4, <1>6 DEF Arrive, Goto
<1> QED
  BY <1>5, <1>6

LEMMA StageOf ==
  ASSUME IInv, Team, Stages, NEW t \in Thread
  PROVE  /\ t \in awake /\ pc[t] \notin {"wait", "work1", "work2"} => stage_ = 0
         /\ pc[t] = "work1" => stage_ = 1
         /\ pc[t] = "work2" => stage_ = 2
         /\ pc[t] \in InRound \cup {"app", "access", "checks", "sample", "prune"} => t \in awake
<1>1. stage_ \in 0 .. 2
  BY DEF IInv, TypeOK, ControlTypeOK
<1>2. pc[t] \in InRound \cup {"app", "access", "checks", "sample", "prune"} => t \in awake
  BY AwakeType DEF InRound
<1>3. t \in awake /\ pc[t] \notin {"wait", "work1", "work2"} => stage_ = 0
  BY <1>1 DEF Stages, Work
<1>4. pc[t] = "work1" => stage_ = 1
  BY <1>1, <1>2 DEF Stages, Work, InRound
<1>5. pc[t] = "work2" => stage_ = 2
  BY <1>1, <1>2 DEF Stages, Work, InRound
<1> QED
  BY <1>2, <1>3, <1>4, <1>5

-----------------------------------------------------------------------------
(* The steps of a team                                                     *)

flagVars == <<synchronize, finalize_needed, merge_needed>>
samplesOfTeam == <<ds, distance_sets_, oldest_distance_set_, write_sets_, newDS>>
teamVars ==
  <<stage_, threads_, awake, thread_count, new_thread_, pc, action, plan, ll1, flagVars,
    samplesOfTeam>>

\* t goes about in the program, and may call for a merge.
Strolls(t) ==
  /\ stage_ = 0 /\ stage_' = 0
  /\ pc[t] \notin InRound \cup {"unborn", "joining", "prune"}
  /\ pc'[t] \in {"app", "access", "sample", "start"}
  /\ action[t] = "kNoAction" /\ action'[t] \in {"kNoAction", "kMerge"}
  /\ \A u \in Thread \ {t} : pc'[u] = pc[u] /\ action'[u] = action[u] /\ ll1'[u] = ll1[u]
  /\ awake' = awake \cup {t} /\ (t \in awake \/ Waiting = {})
  /\ synchronize => synchronize'
  /\ UNCHANGED <<threads_, thread_count, new_thread_, plan, finalize_needed, samplesOfTeam>>

\* t comes to the barrier, or falls asleep; the last one to do so lets the round begin.
Gathers(t) ==
  /\ stage_ = 0 /\ pc[t] \in {"start", "app"} /\ t \in awake
  /\ awake' \in {awake, awake \ {t}}
  /\ \/ /\ stage_' = 0
        /\ pc[t] = "start" => pc'[t] = "wait" /\ awake' = awake
        /\ pc[t] = "app" => pc'[t] = "asleep" /\ awake' = awake \ {t}
        /\ \A u \in Thread \ {t} : pc'[u] = pc[u]
        /\ Waiting' # {} => threads_' = Cardinality(awake)' /\ Waiting' # awake'
     \/ /\ stage_' = 1
        /\ \A u \in awake \ {t} : pc[u] = "wait"
        /\ \A u \in Thread : IF u \in awake' THEN pc'[u] = "work1"
                                             ELSE pc'[u] \in {"unborn", "asleep"}
        /\ \A u \in Thread \ awake : pc'[u] = pc[u]
        /\ threads_' = Cardinality(awake)' /\ awake' # {}
  /\ UNCHANGED <<thread_count, new_thread_, plan, action, ll1, flagVars, samplesOfTeam>>

\* t is done with the work of stage s.
Ends(t, s) ==
  /\ stage_ = s /\ t \in awake /\ pc[t] = Work
  /\ UNCHANGED <<awake, threads_, thread_count, action, ll1, newDS>>
  /\ \/ /\ Waiting \cup {t} # awake /\ stage_' = s
        /\ pc' = [pc EXCEPT ![t] = "wait"]
     \/ /\ Waiting \cup {t} = awake /\ stage_' = (s + 1) % 3
        /\ pc' = [u \in Thread |-> IF u \in awake THEN Beyond(s) ELSE pc[u]]

LEMMA GatherStart ==
  ASSUME IInv, Team, Stages, NEW t \in Thread, WaitStart(t), ~Stays
  PROVE  Gathers(t)
<1>1. /\ pc[t] = "start" /\ stage_ = 0
      /\ threads_' = RoundSize /\ Arrive(t, 0, RoundSize)
      /\ UNCHANGED <<awake, globalVars, listVars, setVars, callVars>>
  BY WaitStartStep
<1>2. t \in awake /\ IsFiniteSet(awake) /\ Waiting \subseteq awake
  BY <1>1, AwakeType
<1>3. RoundSize = Cardinality(awake)
  BY <1>1 DEF RoundSize, Stages
<1>4. \/ /\ Waiting \cup {t} = awake
         /\ stage_' = 1
         /\ pc' = [u \in Thread |-> IF u \in awake THEN "work1" ELSE pc[u]]
      \/ /\ Waiting \cup {t} # awake /\ stage_' = stage_
         /\ pc' = [pc EXCEPT ![t] = "wait"]
  BY <1>1, <1>2, <1>3, Arrival DEF Beyond
<1>5. UNCHANGED <<awake, thread_count, new_thread_, plan, action, ll1, flagVars, samplesOfTeam>>
  BY <1>1 DEF globalVars, listVars, setVars, callVars, flagVars, samplesOfTeam
<1>6. threads_' = Cardinality(awake)'
  BY <1>1, <1>3, <1>5
<1>7. pc \in [Thread -> Control]
  BY DEF IInv, TypeOK, ControlTypeOK
<1>8. CASE Waiting \cup {t} = awake
  <2>1. \A u \in awake \ {t} : pc[u] = "wait"
    BY <1>8 DEF Waiting
  <2>2. \A u \in Thread \ awake : pc[u] \in {"unborn", "asleep"}
    BY AwakeType
  <2>3. /\ stage_' = 1
        /\ \A u \in Thread : IF u \in awake' THEN pc'[u] = "work1"
                                             ELSE pc'[u] \in {"unborn", "asleep"}
        /\ \A u \in Thread \ awake : pc'[u] = pc[u]
    BY <1>4, <1>5, <1>8, <2>2
  <2> QED
    BY <1>1, <1>2, <1>5, <1>6, <2>1, <2>3 DEF Gathers
<1>9. CASE Waiting \cup {t} # awake
  <2>1. stage_' = 0 /\ pc'[t] = "wait" /\ \A u \in Thread \ {t} : pc'[u] = pc[u]
    BY <1>1, <1>4, <1>7, <1>9
  <2>2. Waiting' = Waiting \cup {t}
    BY <2>1 DEF Waiting
  <2> QED
    BY <1>1, <1>2, <1>5, <1>6, <1>9, <2>1, <2>2 DEF Gathers
<1> QED
  BY <1>8, <1>9

LEMMA GatherSleep ==
  ASSUME IInv, Team, Stages, NEW t \in Thread, Sleep(t), ~Stays
  PROVE  Gathers(t)
<1>1. /\ pc[t] = "app" /\ stage_ = 0
      /\ awake' = awake \ {t}
      /\ threads_' = IF Waiting = {} THEN threads_ ELSE threads_ - 1
      /\ IF LastMissing(t)
           THEN Release(0, Waiting, [pc EXCEPT ![t] = "asleep"])
           ELSE pc' = [pc EXCEPT ![t] = "asleep"] /\ UNCHANGED stage_
      /\ UNCHANGED <<globalVars, listVars, setVars, callVars>>
  BY SleepStep
<1>2. t \in awake /\ IsFiniteSet(awake) /\ Waiting \subseteq awake \ {t}
  BY <1>1, AwakeType DEF Waiting
<1>3. /\ IsFiniteSet(awake \ {t}) /\ Cardinality(awake) \in Nat
      /\ Cardinality(awake \ {t}) = Cardinality(awake) - 1
  BY <1>2, FS_RemoveElement, FS_CardinalityType
<1>4. Cardinality(Waiting) = Cardinality(awake) - 1 <=> Waiting = awake \ {t}
  BY <1>2, <1>3, AllOfThem
<1>5. UNCHANGED <<thread_count, new_thread_, plan, action, ll1, flagVars, samplesOfTeam>>
  BY <1>1 DEF globalVars, listVars, setVars, callVars, flagVars, samplesOfTeam
<1>6. pc \in [Thread -> Control]
  BY DEF IInv, TypeOK, ControlTypeOK
<1>7. Waiting # {} => threads_ = Cardinality(awake)
  BY <1>1 DEF Stages
<1>8. CASE LastMissing(t)
  <2>1. Waiting = awake \ {t} /\ Waiting # {}
    BY <1>4, <1>7, <1>8 DEF LastMissing
  <2>2. stage_' = 1 /\ pc' = [u \in Thread |-> IF u \in Waiting THEN "work1"
                                               ELSE [pc EXCEPT ![t] = "asleep"][u]]
    BY <1>1, <1>8 DEF Release, Beyond
  <2>3. \A u \in Thread \ awake : pc[u] \in {"unborn", "asleep"}
    BY AwakeType
  <2>4. \A u \in Thread : IF u \in awake' THEN pc'[u] = "work1"
                                          ELSE pc'[u] \in {"unborn", "asleep"}
    BY <1>1, <1>6, <2>1, <2>2, <2>3
  <2>5. \A u \in Thread \ awake : pc'[u] = pc[u]
    BY <1>2, <1>6, <2>1, <2>2
  <2>6. \A u \in awake \ {t} : pc[u] = "wait"
    BY <2>1 DEF Waiting
  <2>7. threads_' = Cardinality(awake)'
    BY <1>1, <1>3, <1>7, <2>1
  <2> QED
    BY <1>1, <1>2, <1>5, <2>1, <2>2, <2>4, <2>5, <2>6, <2>7 DEF Gathers
<1>9. CASE ~LastMissing(t)
  <2>1. stage_' = 0 /\ pc'[t] = "asleep" /\ \A u \in Thread \ {t} : pc'[u] = pc[u]
    BY <1>1, <1>6, <1>9
  <2>2. Waiting' = Waiting
    BY <1>1, <2>1 DEF Waiting
  <2>3. Waiting' # {} => threads_' = Cardinality(awake)' /\ Waiting' # awake'
    BY <1>1, <1>3, <1>4, <1>7, <1>9, <2>2 DEF LastMissing
  <2> QED
    BY <1>1, <1>2, <1>5, <2>1, <2>3 DEF Gathers
<1> QED
  BY <1>8, <1>9

\* t takes a step of its own between two rounds.
Acts(t) ==
  /\ stage_ = 0 /\ t \in awake
  /\ pc[t] \in {"access", "sample", "prune", "leave"}
  /\ pc'[t] \in {"start", "sample", "prune", "access", "checks", "app"}
  /\ \A u \in Thread \ {t} : pc'[u] = pc[u] /\ action'[u] = action[u] /\ ll1'[u] = ll1[u]
                             /\ newDS'[u] = newDS[u]
  /\ UNCHANGED <<stage_, threads_, awake, thread_count, new_thread_, plan>>

LEMMA StrollStep ==
  ASSUME IInv, Team, Stages, NEW t \in Thread,
         \/ Wake(t)
         \/ \E a \in setup.blocks, is_write \in BOOLEAN : SampledMemRef(t, a, is_write)
         \/ AccessDisabled(t)
         \/ AccessChecks(t) /\ ~Stays
         \/ NotSampled(t) \/ SampleRefused(t) \/ MergeAllSamples(t)
  PROVE  Strolls(t)
<1>0. pc \in [Thread -> Control] /\ action \in [Thread -> Action] /\ ll1 \in [Thread -> Int]
  BY DEF IInv, TypeOK, ControlTypeOK
<1>1. pc[t] \in {"app", "access", "checks", "sample", "asleep"} => action[t] = "kNoAction"
  BY DEF IInv, Calls, OneCall, InRound
<1>2. pc[t] \in {"app", "access", "checks", "sample"} => stage_ = 0 /\ t \in awake
  BY StageOf
<1> USE DEF Strolls, InRound, samplesOfTeam, flagVars, barrierVars, globalVars, listVars,
            setVars, callVars
<1>3. CASE Wake(t)
  BY <1>0, <1>1, <1>3 DEF Wake, Goto
<1>4. CASE \E a \in setup.blocks, is_write \in BOOLEAN : SampledMemRef(t, a, is_write)
  <2>1. /\ pc[t] = "app" /\ Goto(t, IF synchronize THEN "start" ELSE "access")
        /\ UNCHANGED <<barrierVars, globalVars, listVars, setVars, action, newDS, plan, ll1>>
    BY <1>4 DEF SampledMemRef
  <2> QED
    BY <1>0, <1>1, <1>2, <2>1 DEF Goto
<1>5. CASE AccessDisabled(t)
  BY <1>0, <1>1, <1>2, <1>5 DEF AccessDisabled, Goto
<1>6. CASE AccessChecks(t) /\ ~Stays
  BY <1>0, <1>1, <1>2, <1>6, AccessChecksStep DEF Goto
<1>7. CASE NotSampled(t)
  BY <1>0, <1>1, <1>2, <1>7 DEF NotSampled, Goto
<1>8. CASE SampleRefused(t)
  BY <1>0, <1>1, <1>2, <1>8 DEF SampleRefused, Goto
<1>9. CASE MergeAllSamples(t)
  BY <1>0, <1>1, <1>2, <1>9 DEF MergeAllSamples, Goto
<1> QED
  BY <1>3, <1>4, <1>5, <1>6, <1>7, <1>8, <1>9

LEMMA ActStep ==
  ASSUME IInv, Team, Stages, NEW t \in Thread,
         (Access(t) /\ ~Stays) \/ NewSampledAddress(t) \/ Prune(t) \/ Leave(t)
  PROVE  Acts(t)
<1>0. /\ pc \in [Thread -> Control] /\ action \in [Thread -> Action] /\ ll1 \in [Thread -> Int]
      /\ newDS \in [Thread -> DsId \cup {NoDs}]
  BY DEF IInv, TypeOK, ControlTypeOK, SampleTypeOK
<1>1. pc[t] \in {"access", "sample", "prune", "leave"} => stage_ = 0 /\ t \in awake
  BY StageOf DEF InRound
<1> USE DEF Acts, barrierVars, globalVars, listVars, setVars, callVars
<1>2. CASE Access(t) /\ ~Stays
  <2>1. /\ pc[t] = "access" /\ AccessSets(t, ref[t][1], ref[t][2])
        /\ UNCHANGED <<barrierVars, thread_count, new_thread_, newDS, plan>>
    BY <1>2, AccessStep
  <2>2. Len(distance_sets_[t]) \in Int
    BY DEF IInv, TypeOK, SampleTypeOK
  <2>3. \/ /\ Goto(t, "start") /\ action' = [action EXCEPT ![t] = "kFinalize"]
        \/ /\ Goto(t, "sample") /\ UNCHANGED action
    BY <2>1, <2>2, AccessFlags DEF IInv, TypeOK
  <2>4. \A u \in Thread \ {t} : ll1'[u] = ll1[u]
    BY <1>0, <2>1 DEF AccessSets
  <2> QED
    BY <1>0, <1>1, <2>1, <2>3, <2>4 DEF Goto
<1>3. CASE NewSampledAddress(t)
  BY <1>0, <1>1, <1>3 DEF NewSampledAddress, Goto
<1>4. CASE Prune(t)
  BY <1>0, <1>1, <1>4 DEF Prune, Goto
<1>5. CASE Leave(t)
  BY <1>0, <1>1, <1>5 DEF Leave, Goto
<1> QED
  BY <1>2, <1>3, <1>4, <1>5

LEMMA EndStep ==
  ASSUME IInv, Team, Stages, NEW t \in Thread
  PROVE  /\ Stage1(t) /\ ~Stays => Ends(t, 1) /\ FirstStage(t, TodoOf(t))
         /\ Stage2(t) /\ ~Stays => Ends(t, 2) /\ SecondStage(t, SyncedOf(t), ServedOf(t))
<1>1. ASSUME Stage1(t), ~Stays PROVE Ends(t, 1) /\ FirstStage(t, TodoOf(t))
  <2>1. pc[t] = "work1" /\ stage_ = 1 /\ FirstStage(t, TodoOf(t))
    BY <1>1, Stage1Step
  <2>2. /\ Arrive(t, 1, threads_)
        /\ UNCHANGED <<threads_, awake, thread_count, action, ll1, newDS>>
    BY <2>1 DEF FirstStage, globalVars
  <2>3. t \in awake /\ threads_ = Cardinality(awake)
    BY <2>1, StageOf DEF InRound, Stages
  <2> QED
    BY <2>1, <2>2, <2>3, Arrival DEF Ends, Work
<1>2. ASSUME Stage2(t), ~Stays PROVE Ends(t, 2) /\ SecondStage(t, SyncedOf(t), ServedOf(t))
  <2>1. pc[t] = "work2" /\ stage_ = 2 /\ SecondStage(t, SyncedOf(t), ServedOf(t))
    BY <1>2, Stage2Step
  <2>2. /\ Arrive(t, 2, threads_)
        /\ UNCHANGED <<threads_, awake, thread_count, action, ll1, newDS>>
    BY <2>1 DEF SecondStage
  <2>3. t \in awake /\ threads_ = Cardinality(awake)
    BY <2>1, StageOf DEF InRound, Stages
  <2> QED
    BY <2>1, <2>2, <2>3, Arrival DEF Ends, Work
<1> QED
  BY <1>1, <1>2

\* The kinds of steps of a fixed team.
LEMMA TeamSteps ==
  ASSUME IInv, Team, Stages, TeamIsFixed, NEW t \in Thread, ThreadStep(t)
  PROVE  \/ UNCHANGED teamVars
         \/ Strolls(t)
         \/ Gathers(t)
         \/ Acts(t) /\ ((Access(t) /\ ~Stays) \/ NewSampledAddress(t) \/ Prune(t) \/ Leave(t))
         \/ Ends(t, 1) /\ Stage1(t) /\ ~Stays
         \/ Ends(t, 2) /\ Stage2(t) /\ ~Stays
<1> USE DEF teamVars, samplesOfTeam, flagVars, barrierVars, globalVars, listVars, setVars,
            callVars
<1>1. CASE Stays
  BY <1>1 DEF Stays
<1>2. CASE SetThreadEnable(t) \/ SampleTrigger(t)
  BY <1>2 DEF SetThreadEnable, SampleTrigger
<1>3. ~JoinBarrier(t)
  <2>1. JoinBarrier(t) => thread_count < setup.threads
    BY DEF JoinBarrier
  <2>2. thread_count = setup.threads /\ setup.threads \in Nat
    BY SetupType, SamplerAssumption DEF Team, IInv, TypeOK, ControlTypeOK
  <2> QED
    BY <2>1, <2>2
<1>4. ~JoinQueue(t)
  BY DEF JoinQueue, Team
<1>5. WaitStart(t) /\ ~Stays => Gathers(t)
  BY GatherStart
<1>6. Sleep(t) /\ ~Stays => Gathers(t)
  BY GatherSleep
<1> QED
  BY <1>1, <1>2, <1>3, <1>4, <1>5, <1>6, StrollStep, ActStep, EndStep DEF ThreadStep

-----------------------------------------------------------------------------
(* Threads and plans                                                       *)

LEMMA TeamStep ==
  ASSUME IInv, Team, Stages, TeamIsFixed, NEW t \in Thread, ThreadStep(t), UNCHANGED setup
  PROVE  Team'
<1>0. /\ pc \in [Thread -> Control] /\ t \in Thread
      /\ \A u \in Thread : u \in awake <=> pc[u] \notin {"unborn", "asleep"}
      /\ awake \subseteq Thread /\ Waiting \subseteq awake
      /\ new_thread_ \in [Thread -> BOOLEAN] /\ InQueue \subseteq Thread
  BY AwakeType, QueueType DEF IInv, TypeOK, ControlTypeOK
<1>1. CASE UNCHANGED teamVars
  BY <1>1 DEF Team, teamVars, AwakeThreads, InQueue
<1>2. CASE Strolls(t)
  BY <1>0, <1>2 DEF Team, Strolls, AwakeThreads, InQueue
<1>3. CASE Gathers(t)
  <2>1. CASE stage_' = 0
    BY <1>0, <1>3, <2>1 DEF Team, Gathers, AwakeThreads, InQueue
  <2>2. CASE stage_' = 1
    <3>1. awake' \subseteq Thread /\ \A u \in Thread : IF u \in awake' THEN pc'[u] = "work1"
                                             ELSE pc'[u] \in {"unborn", "asleep"}
      BY <1>0, <1>3, <2>2 DEF Gathers
    <3>2. awake' = AwakeThreads'
      BY <3>1 DEF AwakeThreads
    <3>3. UNCHANGED <<thread_count, new_thread_>>
      BY <1>3 DEF Gathers
    <3>4. \A u \in Thread : pc'[u] # "joining"
      BY <3>1
    <3> QED
      BY <3>2, <3>3, <3>4 DEF Team, InQueue
  <2> QED
    BY <1>3, <2>1, <2>2 DEF Gathers
<1>4. CASE Acts(t)
  BY <1>0, <1>4 DEF Team, Acts, AwakeThreads, InQueue
<1>5. ASSUME NEW s \in {1, 2}, Ends(t, s), \A u \in InQueue : ~new_thread_'[u]
      PROVE  Team'
  <2>1. Beyond(s) \in {"work2", "leave"}
    BY DEF Beyond
  <2>2. \A u \in Thread : IF u \in awake THEN pc'[u] \notin {"unborn", "asleep", "joining"}
                                         ELSE pc'[u] = pc[u]
    BY <1>0, <1>5, <2>1 DEF Ends, Team
  <2>3. awake' = AwakeThreads'
    BY <1>0, <1>5, <2>2 DEF AwakeThreads, Ends
  <2>4. \A u \in Thread : pc'[u] # "joining"
    BY <2>2 DEF Team
  <2> QED
    BY <1>5, <2>3, <2>4 DEF Team, Ends, InQueue
<1>6. CASE Ends(t, 1) /\ Stage1(t) /\ ~Stays
  <2>1. new_thread_' = [new_thread_ EXCEPT ![t] = @ /\ action[t] = "kNewSampledAddress"]
    BY <1>6, EndStep DEF FirstStage
  <2>2. \A u \in InQueue : ~new_thread_'[u]
    BY <1>0, <2>1 DEF Team
  <2> QED
    BY <1>5, <1>6, <2>2
<1>7. CASE Ends(t, 2) /\ Stage2(t) /\ ~Stays
  <2>1. new_thread_' = new_thread_
    BY <1>7, EndStep DEF SecondStage
  <2> QED
    BY <1>5, <1>7, <2>1 DEF Team
<1> QED
  BY <1>1, <1>2, <1>3, <1>4, <1>6, <1>7, TeamSteps

LEMMA StagesStep ==
  ASSUME IInv, Team, Stages, TeamIsFixed, NEW t \in Thread, ThreadStep(t)
  PROVE  Stages'
<1>0. /\ pc \in [Thread -> Control] /\ t \in Thread
      /\ \A u \in Thread : u \in awake <=> pc[u] \notin {"unborn", "asleep"}
      /\ awake \subseteq Thread /\ Waiting \subseteq awake
  BY AwakeType DEF IInv, TypeOK, ControlTypeOK
<1>1. CASE UNCHANGED teamVars
  BY <1>1 DEF Stages, teamVars, Waiting, Work
<1>2. CASE Strolls(t)
  <2>1. Waiting' = Waiting /\ \A u \in Thread : pc'[u] \notin {"work1", "work2"}
    BY <1>2 DEF Strolls, Waiting, InRound, Stages
  <2>2. stage_' = 0 /\ stage_ = 0 /\ threads_' = threads_ /\ (awake' = awake \/ Waiting = {})
    BY <1>2 DEF Strolls
  <2> QED
    BY <2>1, <2>2 DEF Stages
<1>3. CASE Gathers(t)
  <2>1. CASE stage_' = 0
    <3>1. \A u \in Thread : pc'[u] \notin {"work1", "work2"}
      BY <1>3, <2>1 DEF Gathers, Stages
    <3>2. Waiting' # {} => threads_' = Cardinality(awake)' /\ Waiting' # awake'
      BY <1>3, <2>1 DEF Gathers
    <3> QED
      BY <2>1, <3>1, <3>2 DEF Stages
  <2>2. CASE stage_' = 1
    <3>1. /\ \A u \in Thread : IF u \in awake' THEN pc'[u] = "work1"
                                               ELSE pc'[u] \in {"unborn", "asleep"}
          /\ threads_' = Cardinality(awake)' /\ awake' # {}
      BY <1>3, <2>2 DEF Gathers
    <3>2. Waiting' = {}
      BY <3>1 DEF Waiting
    <3>3. Work' = "work1"
      BY <2>2 DEF Work
    <3>4. awake' \subseteq Thread
      BY <1>0, <1>3 DEF Gathers
    <3> QED
      BY <2>2, <3>1, <3>2, <3>3, <3>4 DEF Stages
  <2> QED
    BY <1>3, <2>1, <2>2 DEF Gathers
<1>4. CASE Acts(t)
  <2>1. Waiting' = Waiting /\ \A u \in Thread : pc'[u] \notin {"work1", "work2"}
    BY <1>4 DEF Acts, Waiting, Stages
  <2> QED
    BY <1>4, <2>1 DEF Stages, Acts
<1>5. ASSUME NEW s \in {1, 2}, Ends(t, s)
      PROVE  Stages'
  <2>1. /\ stage_ = s /\ threads_ = Cardinality(awake) /\ t \in awake
        /\ \A u \in awake : pc[u] = "wait" \/ pc[u] = Work
        /\ UNCHANGED <<awake, threads_>>
    BY <1>5 DEF Stages, Ends
  <2>2. threads_' = Cardinality(awake)'
    BY <2>1
  <2>3. CASE Waiting \cup {t} # awake /\ stage_' = s /\ pc' = [pc EXCEPT ![t] = "wait"]
    <3>1. Waiting' = Waiting \cup {t}
      BY <1>0, <2>3 DEF Waiting
    <3>2. Work' = Work
      BY <2>1, <2>3 DEF Work
    <3>3. \A u \in awake : pc'[u] = "wait" \/ pc'[u] = Work
      BY <1>0, <2>1, <2>3
    <3> QED
      BY <2>1, <2>2, <2>3, <3>1, <3>2, <3>3 DEF Stages
  <2>4. CASE /\ stage_' = (s + 1) % 3
             /\ pc' = [u \in Thread |-> IF u \in awake THEN Beyond(s) ELSE pc[u]]
    <3>1. \A u \in Thread : IF u \in awake THEN pc'[u] = Beyond(s)
                                           ELSE pc'[u] \in {"unborn", "asleep"}
      BY <1>0, <2>4
    <3>2. CASE s = 1
      <4>1. stage_' = 2 /\ Beyond(s) = "work2" /\ Work' = "work2"
        BY <2>4, <3>2 DEF Beyond, Work
      <4>2. Waiting' = {}
        BY <3>1, <4>1 DEF Waiting
      <4> QED
        BY <1>0, <2>1, <2>2, <3>1, <4>1, <4>2 DEF Stages
    <3>3. CASE s = 2
      <4>1. stage_' = 0 /\ Beyond(s) = "leave"
        BY <2>4, <3>3 DEF Beyond
      <4>2. Waiting' = {} /\ \A u \in Thread : pc'[u] \notin {"work1", "work2"}
        BY <3>1, <4>1 DEF Waiting
      <4> QED
        BY <4>1, <4>2 DEF Stages
    <3> QED
      BY <3>2, <3>3
  <2> QED
    BY <1>5, <2>3, <2>4 DEF Ends
<1> QED
  BY <1>1, <1>2, <1>3, <1>4, <1>5, TeamSteps

LEMMA TodoIsPlan == ASSUME NEW t PROVE TodoOf(t) = PlanOf(t, merge_needed, finalize_needed)
  BY DEF TodoOf, PlanOf, Synced

\* Between rounds nobody has a plan.
LEMMA NoPlans ==
  ASSUME Stages, Plans, stage_ = 0, NEW t \in Thread
  PROVE  plan[t] = <<>>
  BY DEF Stages, Plans

LEMMA PlansStep ==
  ASSUME IInv, Team, Stages, Plans, TeamIsFixed, NEW t \in Thread, ThreadStep(t)
  PROVE  Plans'
<1>0. /\ pc \in [Thread -> Control] /\ t \in Thread
      /\ merge_needed \in BOOLEAN /\ finalize_needed \in BOOLEAN
      /\ \A u \in Thread : u \in awake <=> pc[u] \notin {"unborn", "asleep"}
      /\ awake \subseteq Thread /\ Waiting \subseteq awake
      /\ plan \in [Thread -> Todo \cup {<<>>}]
  BY AwakeType DEF IInv, TypeOK, ControlTypeOK
<1>1. CASE UNCHANGED teamVars
  BY <1>1 DEF Plans, teamVars, flagVars, Waiting, PlanOf
<1>2. CASE Strolls(t) \/ Gathers(t) \/ Acts(t)
  <2>1. stage_ = 0 /\ plan' = plan
    BY <1>2 DEF Strolls, Gathers, Acts
  <2>2. \A u \in Thread : plan'[u] = <<>>
    BY <2>1, NoPlans
  <2>3. \A u \in Thread : pc'[u] # "work2"
    <3>1. \A u \in Thread : pc[u] # "work2"
      BY <2>1 DEF Stages
    <3> QED
      BY <1>2, <3>1 DEF Strolls, Gathers, Acts
  <2>4. stage_' = 1 => Waiting' = {}
    BY <1>2 DEF Strolls, Gathers, Acts, Waiting
  <2> QED
    BY <2>2, <2>3, <2>4 DEF Plans
<1>3. CASE Ends(t, 1) /\ Stage1(t) /\ ~Stays
  <2>1. PICK m \in BOOLEAN, f \in BOOLEAN : m = merge_needed /\ f = finalize_needed
    BY <1>0
  <2>2. /\ plan' = [plan EXCEPT ![t] = PlanOf(t, m, f)]
        /\ UNCHANGED <<awake, thread_count, merge_needed, finalize_needed>>
    BY <1>3, <2>1, EndStep, TodoIsPlan DEF FirstStage, globalVars
  <2>3. stage_ = 1 /\ \A u \in Waiting : plan[u] = PlanOf(u, m, f)
    BY <1>3, <2>1 DEF Ends, Plans
  <2>4. \A u \in Thread : PlanOf(u, m, f)' = PlanOf(u, m, f)
    BY <2>2 DEF PlanOf
  <2>5. \A u \in Waiting \cup {t} : plan'[u] = PlanOf(u, m, f)
    BY <1>0, <2>2, <2>3
  <2>6. \A u \in Thread : plan[u] # <<>> => u \in Waiting
    BY <2>3, StageOf DEF Plans, Waiting
  <2>7. CASE stage_' = 1 /\ pc' = [pc EXCEPT ![t] = "wait"]
    <3>1. Waiting' = Waiting \cup {t}
      BY <1>0, <2>7 DEF Waiting
    <3>2. \A u \in Thread : plan'[u] # <<>> => pc'[u] = "wait" /\ stage_' = 1
      BY <1>0, <2>2, <2>6, <2>7 DEF Waiting
    <3>3. \A u \in Waiting' : plan'[u] = PlanOf(u, merge_needed, finalize_needed)'
      BY <1>0, <2>1, <2>2, <2>4, <2>5, <3>1 DEF PlanOf
    <3>4. \A u \in Thread : pc'[u] # "work2"
      BY <1>0, <2>3, <2>7, StageOf
    <3> QED
      BY <3>2, <3>3, <3>4 DEF Plans
  <2>8. CASE /\ Waiting \cup {t} = awake /\ stage_' = 2
             /\ pc' = [u \in Thread |-> IF u \in awake THEN "work2" ELSE pc[u]]
    <3>1. \A u \in Thread : pc'[u] = "work2" => u \in awake
      BY <1>0, <2>8
    <3>2. \A u \in Thread : pc'[u] = "work2" => plan'[u] = PlanOf(u, m, f)'
      BY <2>4, <2>5, <2>8, <3>1
    <3>3. \A u \in Thread : plan'[u] # <<>> => pc'[u] = "work2"
      BY <1>0, <2>2, <2>6, <2>8
    <3> QED
      BY <2>8, <3>2, <3>3 DEF Plans
  <2> QED
    BY <1>3, <2>7, <2>8 DEF Ends, Beyond
<1>4. CASE Ends(t, 2) /\ Stage2(t) /\ ~Stays
  <2>1. /\ plan' = [plan EXCEPT ![t] = <<>>]
        /\ UNCHANGED <<awake, thread_count>>
    BY <1>4, EndStep DEF SecondStage
  <2>2. PICK m \in BOOLEAN, f \in BOOLEAN :
          \A u \in Thread : pc[u] = "work2" => plan[u] = PlanOf(u, m, f)
    BY DEF Plans
  <2>3. \A u \in Thread : PlanOf(u, m, f)' = PlanOf(u, m, f)
    BY <2>1 DEF PlanOf
  <2>4. stage_ = 2 /\ \A u \in Thread : plan[u] # <<>> => pc[u] = "work2"
    BY <1>4 DEF Plans, Ends
  <2>5. CASE stage_' = 2 /\ pc' = [pc EXCEPT ![t] = "wait"]
    <3>1. \A u \in Thread : plan'[u] # <<>> => pc'[u] = "work2"
      BY <1>0, <2>1, <2>4, <2>5
    <3>2. \A u \in Thread : pc'[u] = "work2" => pc[u] = "work2" /\ plan'[u] = plan[u]
      BY <1>0, <2>1, <2>5
    <3> QED
      BY <2>2, <2>3, <2>5, <3>1, <3>2 DEF Plans
  <2>6. CASE /\ Waiting \cup {t} = awake /\ stage_' = 0
             /\ pc' = [u \in Thread |-> IF u \in awake THEN "leave" ELSE pc[u]]
    <3>1. \A u \in Thread : plan[u] # <<>> => u = t
      BY <1>0, <2>4, <2>6 DEF Waiting
    <3>2. \A u \in Thread : plan'[u] = <<>>
      BY <1>0, <2>1, <3>1
    <3>3. \A u \in Thread : pc'[u] # "work2"
      BY <1>0, <2>6
    <3> QED
      BY <2>6, <3>2, <3>3 DEF Plans
  <2> QED
    BY <1>4, <2>5, <2>6 DEF Ends, Beyond
<1> QED
  BY <1>1, <1>2, <1>3, <1>4, TeamSteps

-----------------------------------------------------------------------------
(* What the steps do to marks, write sets and lists                        *)

\* A new sample is nobody's linked one.
LEMMA NewApart ==
  ASSUME IInv, NEW t \in Thread, newDS[t] # NoDs
  PROVE  /\ newDS[t] \in DsId /\ Exists(newDS[t]) /\ ds[newDS[t]].owner = t
         /\ \A u \in Thread : newDS[t] \notin Linked(u)
         /\ newDS[t] \notin AllLinked
         /\ \A u \in Thread \ {t} : newDS[u] # newDS[t]
<1>1. newDS[t] \in DsId /\ Exists(newDS[t]) /\ ds[newDS[t]].owner = t
  BY DEF IInv, TypeOK, SampleTypeOK, Samples
<1>2. \A u \in Thread : newDS[t] \notin Linked(u)
  BY <1>1 DEF IInv, Samples
<1>3. newDS[t] \notin AllLinked
  BY <1>2, QueueType DEF AllLinked, IInv, TypeOK
<1>4. \A u \in Thread \ {t} : newDS[u] # newDS[t]
  BY <1>1 DEF IInv, Samples
<1> QED
  BY <1>1, <1>2, <1>3, <1>4

\* The owner of a marked sample has linked it, unless it is about to.
LEMMA MarkedIsLinked ==
  ASSUME IInv, Team, Stages, NewIsActive, NEW d \in DsId, Exists(d), Marked(d), stage_ # 0
  PROVE  ds[d].owner \in InQueue /\ d \in Linked(ds[d].owner) /\ d \in AllLinked
<1>1. ds[d].owner \in Thread
  BY ExistsType DEF IInv, TypeOK, DistanceSet
<1>2. newDS[ds[d].owner] # d
  <2>1. SUFFICES ASSUME newDS[ds[d].owner] = d PROVE FALSE
    OBVIOUS
  <2>2. d # NoDs
    BY DEF DsId, NoDs
  <2>3. pc[ds[d].owner] = "leave"
    BY <1>1, <2>1, <2>2 DEF NewIsActive, Marked
  <2> QED
    BY <1>1, <2>3, StageOf DEF InRound
<1>3. d \in Linked(ds[d].owner)
  BY <1>2 DEF IInv, Samples
<1>4. distance_sets_[ds[d].owner] # <<>>
  BY <1>1, <1>3, ListElements DEF Linked, IInv, TypeOK, SampleTypeOK
<1>5. ds[d].owner \in InQueue
  BY <1>1, <1>4 DEF IInv, Samples
<1> QED
  BY <1>3, <1>5 DEF AllLinked

LEMMA AllLinkedOwner ==
  ASSUME IInv, NEW d
  PROVE  /\ d \in AllLinked <=> d \in DsId /\ ds[d].owner \in InQueue /\ d \in Linked(ds[d].owner)
         /\ \A S \in SUBSET InQueue : d \in LinkedOf(S) <=> d \in AllLinked /\ ds[d].owner \in S
<1>1. InQueue \subseteq Thread
  BY QueueType DEF IInv, TypeOK
<1>2. \A u \in InQueue : d \in Linked(u) => d \in DsId /\ ds[d].owner = u
  BY <1>1, LinkedExist DEF IInv
<1> QED
  BY <1>2 DEF AllLinked, LinkedOf

\* Whether the write sets of a sample were pulled, and the mark, are not touched by
\* what the steps do to its blocks.
LEMMA SameMarks ==
  ASSUME NEW x \in DistanceSet
  PROVE  /\ \A a \in Address : /\ Insert(x, a).pulled = x.pulled
                               /\ Insert(x, a) \in DistanceSet
                               /\ Insert(x, a).finalize = x.finalize
         /\ \A d, t, a : /\ Touch(x, d, t, a).pulled = x.pulled
                         /\ Touch(x, d, t, a).finalize = x.finalize
         /\ \A S : Absorb(x, S).pulled = x.pulled /\ Absorb(x, S).finalize = x.finalize
         /\ \A f : [x EXCEPT !.finalize = f].pulled = x.pulled
         /\ \A f : [x EXCEPT !.finalize = f].finalize = f
         /\ \A S, b : LET y == [x EXCEPT !.chain = @ \cup S, !.pulled = b] IN
                      y.pulled = b /\ y.finalize = x.finalize
<1>1. \A a \in Address : Insert(x, a) \in DistanceSet /\ Insert(x, a).finalize = x.finalize
  BY InsertType DEF SameSet
<1>2. \A a : Insert(x, a).pulled = x.pulled
  BY DEF Insert, DistanceSet
<1>3. \A d, t, a : /\ Touch(x, d, t, a).pulled = x.pulled
                   /\ Touch(x, d, t, a).finalize = x.finalize
  BY DEF Touch, DistanceSet
<1>4. \A S : Absorb(x, S).pulled = x.pulled /\ Absorb(x, S).finalize = x.finalize
  BY DEF Absorb, DistanceSet
<1>5. \A f : [x EXCEPT !.finalize = f].pulled = x.pulled
  BY DEF DistanceSet
<1>6. \A f : [x EXCEPT !.finalize = f].finalize = f
  BY DEF DistanceSet
<1>7. \A S, b : LET y == [x EXCEPT !.chain = @ \cup S, !.pulled = b] IN
                y.pulled = b /\ y.finalize = x.finalize
  BY DEF DistanceSet
<1> QED
  BY <1>1, <1>2, <1>3, <1>4, <1>5, <1>6, <1>7

LEMMA AccessEffect ==
  ASSUME IInv, NEW t \in Thread, Access(t), ~Stays
  PROVE  /\ pc[t] = "access"
         /\ UNCHANGED <<distance_sets_, newDS, oldest_distance_set_, thread_count, stage_>>
         /\ \A i \in Thread, d \in DsId : Len(write_sets_'[i][d]) = Len(write_sets_[i][d])
         /\ \A d \in DsId : Exists(d) =>
              /\ Exists(d)' /\ ds'[d].owner = ds[d].owner /\ ds'[d].pulled = ds[d].pulled
              /\ Marked(d) => Marked(d)'
              /\ Marked(d)' => Marked(d) \/ (finalize_needed' /\ synchronize')
              /\ d \notin Linked(t) /\ ds[d].finalize # "kReuseFinalize"
                   => ds'[d].finalize # "kReuseFinalize"
              /\ d \notin Linked(t) /\ write_sets_[t][d] = <<>>
                   => ds'[d].finalize = ds[d].finalize
         /\ \A d \in DsId : ~Exists(d) => ~Exists(d)'
         /\ finalize_needed => finalize_needed'
         /\ synchronize => synchronize'
         /\ action'[t] = "kFinalize" => finalize_needed'
         /\ pc'[t] \in {"start", "sample"}
         /\ pc'[t] = "start" /\ ll1'[t] >= 0
              => ll1'[t] = Len(distance_sets_[t]) /\ \E d \in Linked(t) : Marked(d)'
<1> DEFINE a == ref[t][1]
           w == ref[t][2]
           reused == {d \in Linked(t) : ds[d].addr = a}
           hit == {d \in Watched(t, w) : ds[d].addr = a}
           missed == Watched(t, w) \ hit
           left(d) == IF d \in Linked(t) THEN Insert(ds[d], a) ELSE ds[d]
<1>0. TypeOK /\ Samples /\ Calls
  BY DEF IInv
<1>1. /\ pc[t] = "access" /\ AccessSets(t, a, w)
      /\ \A d \in Watched(t, w) : ds[d].addr = a => Exists(d)
      /\ UNCHANGED <<distance_sets_, newDS, oldest_distance_set_, thread_count, stage_>>
  BY AccessStep DEF barrierVars
<1>2. a \in Address
  <2>1. ref[t] # <<>>
    BY <1>0, <1>1 DEF Calls, OneCall
  <2> QED
    BY <1>0, <2>1 DEF TypeOK, ControlTypeOK
<1>3. ds' = [d \in DsId |->
       IF d \in hit THEN [ds[d] EXCEPT !.finalize = RemoteFinalize]
       ELSE IF d \in reused THEN [ds[d] EXCEPT !.finalize = "kReuseFinalize"]
       ELSE IF Exists(d) THEN Touch(left(d), d, t, a) ELSE ds[d]]
  BY <1>1 DEF AccessSets
<1>4. write_sets_' = [write_sets_ EXCEPT ![t] = [d \in DsId |->
        IF d \in missed THEN [i \in DOMAIN write_sets_[t][d] |-> write_sets_[t][d][i] \cup {a}]
                        ELSE write_sets_[t][d]]]
  BY <1>0, <1>1 DEF AccessSets, TypeOK, SampleTypeOK
<1>5. /\ reused \cup hit # {} => /\ finalize_needed' = TRUE /\ synchronize' = TRUE
                                 /\ action' = [action EXCEPT ![t] = "kFinalize"]
                                 /\ ll1' = [ll1 EXCEPT ![t] = IF hit = {} THEN Len(distance_sets_[t]) ELSE -1]
                                 /\ Goto(t, "start")
      /\ reused \cup hit = {} => /\ Goto(t, "sample")
                                 /\ UNCHANGED <<finalize_needed, synchronize, action, ll1>>
  BY <1>1 DEF AccessSets
<1>6. \A d \in hit : Exists(d)
  BY <1>1
<1>7. \A d \in reused : Exists(d) /\ d \in DsId
  BY <1>0, LinkedExist
<1>8. RemoteFinalize \notin {"kActive", "kReuseFinalize"}
  BY DEF RemoteFinalize
<1>9. SetsGoOn
  BY <1>0, AccessSamples
<1>10. \A d \in hit : d \in DsId /\ write_sets_[t][d] # <<>>
  BY DEF Watched
<1>11. /\ pc \in [Thread -> Control] /\ action \in [Thread -> Action]
       /\ ll1 \in [Thread -> Int]
  BY <1>0 DEF TypeOK, ControlTypeOK
<1>12. action[t] = "kNoAction"
  BY <1>0, <1>1 DEF Calls, OneCall, InRound
<1>20. \A d \in reused : d \in Linked(t)
  OBVIOUS
<1> HIDE DEF hit, reused, missed, a
<1>13. ASSUME NEW i \in Thread, NEW d \in DsId
       PROVE  Len(write_sets_'[i][d]) = Len(write_sets_[i][d])
  <2>1. write_sets_ \in [Thread -> [DsId -> Seq(SUBSET Address)]]
    BY <1>0 DEF TypeOK, SampleTypeOK
  <2>2. CASE i = t /\ d \in missed
    <3>1. write_sets_[t][d] \in Seq(SUBSET Address)
      BY <2>1
    <3>2. write_sets_'[i][d] = [j \in DOMAIN write_sets_[t][d] |-> write_sets_[t][d][j] \cup {a}]
      BY <1>4, <2>1, <2>2
    <3>3. DOMAIN write_sets_[t][d] = 1 .. Len(write_sets_[t][d]) /\ Len(write_sets_[t][d]) \in Nat
      BY <3>1
    <3> QED
      BY <2>2, <3>2, <3>3
  <2>3. CASE ~(i = t /\ d \in missed)
    BY <1>4, <2>1, <2>3
  <2> QED
    BY <2>2, <2>3
<1>14. ASSUME NEW d \in DsId, Exists(d)
       PROVE  /\ ds'[d].pulled = ds[d].pulled
              /\ IF d \in hit THEN ds'[d].finalize = RemoteFinalize
                 ELSE IF d \in reused THEN ds'[d].finalize = "kReuseFinalize"
                 ELSE ds'[d].finalize = ds[d].finalize
  <2>1. ds[d] \in DistanceSet
    BY <1>0, <1>14, ExistsType
  <2>2. CASE d \in hit
    <3>1. ds'[d] = [ds[d] EXCEPT !.finalize = RemoteFinalize]
      BY <1>3, <2>2
    <3>2. ds'[d].pulled = ds[d].pulled /\ ds'[d].finalize = RemoteFinalize
      BY <2>1, <3>1 DEF DistanceSet
    <3> QED
      BY <2>2, <3>2
  <2>3. CASE d \notin hit /\ d \in reused
    <3>1. ds'[d] = [ds[d] EXCEPT !.finalize = "kReuseFinalize"]
      BY <1>3, <2>3
    <3>2. ds'[d].pulled = ds[d].pulled /\ ds'[d].finalize = "kReuseFinalize"
      BY <2>1, <3>1 DEF DistanceSet
    <3> QED
      BY <2>3, <3>2
  <2>4. CASE d \notin hit /\ d \notin reused
    <3>1. ds'[d] = Touch(left(d), d, t, a)
      BY <1>3, <1>14, <2>4
    <3>2. /\ left(d) \in DistanceSet /\ left(d).pulled = ds[d].pulled
          /\ left(d).finalize = ds[d].finalize
      BY <1>2, <2>1, SameMarks
    <3> HIDE DEF left
    <3> QED
      BY <2>4, <3>1, <3>2, SameMarks
  <2> QED
    BY <2>2, <2>3, <2>4
<1>15. \A d \in hit \cup reused : finalize_needed' /\ synchronize'
  BY <1>5
<1>16. \A d \in DsId : IF Exists(d) THEN Exists(d)' /\ ds'[d].owner = ds[d].owner
                                    ELSE ~Exists(d)'
  BY <1>9 DEF SetsGoOn, Exists
<1>17. ASSUME NEW d \in DsId, Exists(d)
       PROVE  /\ Marked(d) => Marked(d)'
              /\ Marked(d)' => Marked(d) \/ (finalize_needed' /\ synchronize')
              /\ d \notin Linked(t) /\ ds[d].finalize # "kReuseFinalize"
                   => ds'[d].finalize # "kReuseFinalize"
              /\ d \notin Linked(t) /\ write_sets_[t][d] = <<>>
                   => ds'[d].finalize = ds[d].finalize
  BY <1>8, <1>10, <1>14, <1>15, <1>17, <1>20 DEF Marked
<1>18. pc'[t] \in {"start", "sample"} /\ (action'[t] = "kFinalize" => finalize_needed')
  BY <1>5, <1>11, <1>12 DEF Goto
<1>19. ASSUME pc'[t] = "start", ll1'[t] >= 0
       PROVE  ll1'[t] = Len(distance_sets_[t]) /\ \E d \in Linked(t) : Marked(d)'
  <2>1. reused \cup hit # {} /\ ll1'[t] = IF hit = {} THEN Len(distance_sets_[t]) ELSE -1
    BY <1>5, <1>11, <1>19 DEF Goto
  <2>2. hit = {} /\ ll1'[t] = Len(distance_sets_[t])
    BY <1>19, <2>1
  <2>3. PICK d \in reused : TRUE
    BY <2>1, <2>2
  <2>4. ds'[d].finalize = "kReuseFinalize" /\ d \in Linked(t)
    BY <1>7, <1>14, <1>20, <2>2, <2>3
  <2> QED
    BY <2>2, <2>4 DEF Marked
<1>21. /\ finalize_needed => finalize_needed'
       /\ synchronize => synchronize'
  BY <1>5
<1>22. \A d \in DsId : Exists(d) => ds'[d].pulled = ds[d].pulled
  BY <1>14
<1> QED
  BY <1>1, <1>13, <1>16, <1>17, <1>18, <1>19, <1>21, <1>22

\* What is taken out in the first stage: the marked samples of the threads served.
LEMMA RemovedIs ==
  ASSUME IInv, Team, Stages, Marks, NEW t \in Thread, pc[t] = "work1", NEW d \in DsId
  PROVE  /\ d \in Removed(t, TodoOf(t)) <=>
              d \in AllLinked /\ Marked(d) /\ ds[d].owner \in ServedBy(t)
         /\ ServedBy(t) \subseteq InQueue /\ thread_count \in Nat \ {0}
         /\ t \in InQueue
<1> DEFINE todo == TodoOf(t)
<1>0. TypeOK /\ Samples /\ stage_ = 1
  BY StageOf DEF IInv
<1>1. t \in awake
  BY StageOf DEF InRound
<1>2. t \in InQueue
  BY <1>1, AwakeType
<1>3. ServedBy(t) \subseteq InQueue /\ thread_count \in Nat \ {0}
  <2>1. thread_count \in Nat \ {0} /\ t \in 0 .. thread_count - 1
    BY <1>0, <1>2, SamplerAssumption DEF InQueue, TypeOK, ControlTypeOK
  <2>2. Served(t, awake, thread_count) \subseteq 0 .. thread_count - 1
    BY <2>1, ServedValue
  <2> QED
    BY <2>1, <2>2 DEF InQueue, ServedBy
<1>4. d \in AllLinked /\ Marked(d) => finalize_needed
  BY <1>0, AllLinkedExist DEF Marks
<1>5. finalize_needed => Walk(t, todo.end, thread_count) = ServedBy(t)
  BY DEF TodoOf, Synced, ServedBy, Served
<1>6. d \in LinkedOf(ServedBy(t)) <=> d \in AllLinked /\ ds[d].owner \in ServedBy(t)
  BY <1>3, AllLinkedOwner
<1>7. todo.finalize = finalize_needed
  BY DEF TodoOf
<1> HIDE DEF todo
<1>8. d \in Removed(t, todo) <=> d \in AllLinked /\ Marked(d) /\ ds[d].owner \in ServedBy(t)
  BY <1>4, <1>5, <1>6, <1>7 DEF Removed
<1> QED
  BY <1>2, <1>3, <1>8 DEF todo

\* The first stage.
LEMMA FirstEffect ==
  ASSUME IInv, Team, Stages, NewIsActive, Marks, NEW t \in Thread, Stage1(t), ~Stays
  PROVE  /\ UNCHANGED <<distance_sets_, newDS, oldest_distance_set_, flagVars>>
         /\ \A d \in DsId : Exists(d)' <=> Exists(d)
         /\ \A d \in DsId : Exists(d) => /\ ds'[d].owner = ds[d].owner
                                         /\ ds'[d].finalize = ds[d].finalize
         /\ \A d \in DsId : d \in Removed(t, TodoOf(t)) <=>
              d \in AllLinked /\ Marked(d) /\ ds[d].owner \in ServedBy(t)
         /\ \A d \in DsId : Exists(d) => ds'[d].pulled =
              IF d \in Removed(t, TodoOf(t)) THEN thread_count # 1 ELSE ds[d].pulled
         /\ \A i \in Thread, d \in DsId :
              write_sets_'[i][d] = IF i \in InQueue /\ d \in Pushed(t, i)
                                     THEN Cons({}, Cut(t, TodoOf(t), i, d))
                                     ELSE Cut(t, TodoOf(t), i, d)
<1> DEFINE todo == TodoOf(t)
           pulled(d) == [ds[d] EXCEPT !.chain = @ \cup Heads(d), !.pulled = Others(d) # {}]
<1>0. TypeOK /\ Samples
  BY DEF IInv
<1>1. /\ FirstStage(t, todo) /\ \A d \in Removed(t, todo) : ~Missing(d)
      /\ pc[t] = "work1" /\ stage_ = 1
  BY Stage1Step
<1>2. /\ SetsGoOn
      /\ \A i \in Thread, d \in DsId :
           write_sets_'[i][d] = IF Adds(t, i, d) THEN Cons({}, Cut(t, todo, i, d))
                                                 ELSE Cut(t, todo, i, d)
  BY <1>0, <1>1, FirstStageSamples
<1>3. UNCHANGED <<distance_sets_, newDS, oldest_distance_set_, flagVars>>
  BY <1>1 DEF FirstStage, globalVars, flagVars
<1>4. t \in awake /\ t \in InQueue /\ InQueue \subseteq Thread
  <2>1. t \in awake
    BY <1>1, StageOf DEF InRound
  <2> QED
    BY <1>0, <2>1, AwakeType, QueueType DEF TypeOK
<1>5. \A i \in Thread : i \in InQueue => Populated(t, i) = {}
  BY <1>4 DEF Populated, Team
<1>6. \A i \in Thread, d \in DsId : Adds(t, i, d) <=> i \in InQueue /\ d \in Pushed(t, i)
  BY <1>5 DEF Adds
<1>7. \A d \in DsId : d \in Removed(t, todo) <=>
         d \in AllLinked /\ Marked(d) /\ ds[d].owner \in ServedBy(t)
  BY <1>1, RemovedIs
<1>8. DsId # {} => ServedBy(t) \subseteq InQueue /\ thread_count \in Nat \ {0}
  BY <1>1, RemovedIs
<1>9. ASSUME NEW d \in DsId, Exists(d)
      PROVE  /\ ds'[d].finalize = ds[d].finalize
             /\ ds'[d].pulled = IF d \in Removed(t, todo) THEN thread_count # 1 ELSE ds[d].pulled
  <2>1. ds[d] \in DistanceSet
    BY <1>0, <1>9, ExistsType
  <2>2. ds' = [e \in DsId |-> IF e \in Removed(t, todo) THEN pulled(e) ELSE ds[e]]
    BY <1>1 DEF FirstStage
  <2>3. CASE d \in Removed(t, todo)
    <3>1. ds'[d] = pulled(d)
      BY <2>2, <2>3
    <3>2. pulled(d).pulled = (Others(d) # {}) /\ pulled(d).finalize = ds[d].finalize
      BY <2>1, SameMarks
    <3>3. ds[d].owner \in InQueue
      BY <1>7, <1>8, <2>3
    <3>4. Others(d) # {} <=> thread_count # 1
      <4>1. ds[d].owner \in 0 .. thread_count - 1 /\ thread_count \in Nat \ {0}
        BY <1>8, <3>3 DEF InQueue
      <4>2. CASE thread_count = 1
        BY <4>1, <4>2 DEF Others, InQueue
      <4>3. CASE thread_count # 1
        <5>1. 0 \in InQueue /\ 1 \in InQueue
          BY <4>1, <4>3 DEF InQueue
        <5> QED
          BY <4>3, <5>1 DEF Others
      <4> QED
        BY <4>2, <4>3
    <3> QED
      BY <2>3, <3>1, <3>2, <3>4
  <2>4. CASE d \notin Removed(t, todo)
    BY <2>2, <2>4
  <2> QED
    BY <2>3, <2>4
<1>10. /\ \A d \in DsId : Exists(d)' <=> Exists(d)
       /\ \A d \in DsId : Exists(d) => ds'[d].owner = ds[d].owner
  BY <1>2 DEF SetsGoOn, Exists
<1>11. \A i \in Thread, d \in DsId :
         write_sets_'[i][d] = IF i \in InQueue /\ d \in Pushed(t, i)
                                THEN Cons({}, Cut(t, todo, i, d)) ELSE Cut(t, todo, i, d)
  BY <1>2, <1>6
<1> QED
  BY <1>3, <1>7, <1>9, <1>10, <1>11

LEMMA ReplaceOne ==
  \A list \in Seq(SUBSET Address) : Len(ReplaceAt(list, 1, {})) = Len(list)
<1> SUFFICES ASSUME NEW list \in Seq(SUBSET Address)
             PROVE  Len(ReplaceAt(list, 1, {})) = Len(list)
  OBVIOUS
<1>1. {} \in SUBSET Address
  OBVIOUS
<1> QED
  BY <1>1, ListReplace

LEMMA PrependOne ==
  \A list \in Seq(SUBSET Address) : Len(Cons({}, list)) = Len(list) + 1
<1> SUFFICES ASSUME NEW list \in Seq(SUBSET Address)
             PROVE  Len(Cons({}, list)) = Len(list) + 1
  OBVIOUS
<1>1. {} \in SUBSET Address
  OBVIOUS
<1> QED
  BY <1>1, ListPrepend

\* The second stage.
LEMMA SecondEffect ==
  ASSUME IInv, Team, Stages, Plans, NEW t \in Thread, Stage2(t), ~Stays
  PROVE  /\ UNCHANGED <<newDS, action, ll1, awake, thread_count>>
         /\ ServedOf(t) = IF SyncedOf(t) THEN ServedBy(t) ELSE {}
         /\ \A d \in DsId : d \in DyingOf(t) <=>
              d \in AllLinked /\ Marked(d) /\ ds[d].owner \in ServedOf(t)
         /\ \A d \in DsId : Exists(d)' <=> Exists(d) /\ d \notin DyingOf(t)
         /\ \A d \in DsId \ DyingOf(t) : Exists(d) =>
              /\ ds'[d].owner = ds[d].owner /\ ds'[d].finalize = ds[d].finalize
              /\ ds'[d].pulled = ds[d].pulled
         /\ \A u \in Thread : /\ Linked(u)' = Linked(u) \ DyingOf(t)
                              /\ Len(distance_sets_'[u]) <= Len(distance_sets_[u])
                              /\ Linked(u) \cap DyingOf(t) # {}
                                   => Len(distance_sets_'[u]) < Len(distance_sets_[u])
                              /\ Linked(u) \cap DyingOf(t) = {}
                                   => Len(distance_sets_'[u]) = Len(distance_sets_[u])
         /\ AllLinked' = AllLinked \ DyingOf(t)
         /\ \A i \in Thread, d \in DsId : Len(write_sets_'[i][d]) = Len(write_sets_[i][d])
<1> DEFINE dying == DyingOf(t)
           merged == IF plan[t].merge THEN LinkedOf(ServedOf(t)) \ dying ELSE {}
<1>0. TypeOK /\ Samples
  BY DEF IInv
<1>1. /\ SecondStage(t, SyncedOf(t), ServedOf(t)) /\ pc[t] = "work2" /\ stage_ = 2
      /\ plan[t].merge => \A d \in LinkedOf(ServedOf(t)) \ DyingOf(t) : ~Missing(d)
  BY Stage2Step
<1>2. /\ \A d \in DsId \ dying :
           IF Exists(d) THEN Exists(d)' /\ ds'[d].owner = ds[d].owner ELSE ds'[d] = ds[d]
      /\ \A d \in dying : Exists(d) /\ ds'[d].finalize = "deleted"
      /\ \A u \in Thread : distance_sets_'[u] = Unlink(distance_sets_[u], dying)
  BY <1>0, <1>1, SecondStageSamples
<1>3. UNCHANGED <<newDS, action, ll1, awake, thread_count>>
  BY <1>1 DEF SecondStage
<1>4. /\ ds' = [d \in DsId |-> IF d \in dying THEN Finalized(ds[d])
                               ELSE IF d \in merged THEN Absorb(ds[d], Heads(d))
                               ELSE ds[d]]
      /\ write_sets_' = [i \in Thread |-> [d \in DsId |->
           IF d \in merged /\ i \in Others(d) THEN ReplaceAt(write_sets_[i][d], 1, {})
                                              ELSE write_sets_[i][d]]]
  BY <1>1 DEF SecondStage, DyingOf
<1>5. ServedOf(t) \subseteq InQueue /\ InQueue \subseteq Thread
  BY <1>0, ServedInQueue DEF TypeOK
<1>6. ServedOf(t) = IF SyncedOf(t) THEN ServedBy(t) ELSE {}
  <2>1. PICK m \in BOOLEAN, f \in BOOLEAN : plan[t] = PlanOf(t, m, f)
    BY <1>1 DEF Plans
  <2>2. SyncedOf(t) => plan[t].end = EndSleepers(t, awake, thread_count)
    BY <2>1 DEF SyncedOf, PlanOf
  <2> QED
    BY <2>2 DEF ServedOf, ServedBy, Served
<1>7. \A d \in DsId : d \in dying <=> d \in AllLinked /\ Marked(d) /\ ds[d].owner \in ServedOf(t)
  BY <1>5, AllLinkedOwner DEF DyingOf
<1>8. \A d \in DsId : Exists(d)' <=> Exists(d) /\ d \notin dying
  BY <1>2 DEF Exists, FinalizeStatus
<1>9. ASSUME NEW d \in DsId \ dying, Exists(d)
      PROVE  ds'[d].finalize = ds[d].finalize /\ ds'[d].pulled = ds[d].pulled
  <2>1. ds[d] \in DistanceSet
    BY <1>0, <1>9, ExistsType
  <2>2. ds'[d] = ds[d] \/ ds'[d] = Absorb(ds[d], Heads(d))
    BY <1>4
  <2> QED
    BY <2>1, <2>2, SameMarks
<1>10. \A u \in Thread : /\ Linked(u)' = Linked(u) \ dying
                         /\ Len(distance_sets_'[u]) <= Len(distance_sets_[u])
                         /\ Linked(u) \cap dying # {}
                              => Len(distance_sets_'[u]) < Len(distance_sets_[u])
                         /\ Linked(u) \cap dying = {}
                              => Len(distance_sets_'[u]) = Len(distance_sets_[u])
  <2>1. SUFFICES ASSUME NEW u \in Thread
                 PROVE  LET list == distance_sets_[u] IN
                        /\ ToSet(Unlink(list, dying)) = ToSet(list) \ dying
                        /\ Len(Unlink(list, dying)) <= Len(list)
                        /\ ToSet(list) \cap dying # {} => Len(Unlink(list, dying)) < Len(list)
                        /\ ToSet(list) \cap dying = {} => Len(Unlink(list, dying)) = Len(list)
    BY <1>2 DEF Linked
  <2>2. distance_sets_[u] \in Seq(DsId)
    BY <1>0 DEF TypeOK, SampleTypeOK
  <2> HIDE DEF dying
  <2> QED
    BY <2>2, Unlinked
<1>11. AllLinked' = AllLinked \ dying
  BY <1>3, <1>5, <1>10 DEF AllLinked, InQueue
<1>12. ASSUME NEW i \in Thread, NEW d \in DsId
       PROVE  Len(write_sets_'[i][d]) = Len(write_sets_[i][d])
  <2>1. write_sets_[i][d] \in Seq(SUBSET Address) /\ {} \in SUBSET Address
    BY <1>0 DEF TypeOK, SampleTypeOK
  <2>2. Len(ReplaceAt(write_sets_[i][d], 1, {})) = Len(write_sets_[i][d])
    BY <2>1, ReplaceOne
  <2>3. \/ write_sets_'[i][d] = write_sets_[i][d]
        \/ write_sets_'[i][d] = ReplaceAt(write_sets_[i][d], 1, {})
    BY <1>4
  <2> QED
    BY <2>2, <2>3
<1>13. \A d \in DsId \ dying : Exists(d) => ds'[d].owner = ds[d].owner
  BY <1>2
<1> QED
  BY <1>3, <1>6, <1>7, <1>8, <1>9, <1>10, <1>11, <1>12, <1>13

-----------------------------------------------------------------------------
(* Every part of the invariant, step by step                               *)

LEMMA NewIsActiveStep ==
  ASSUME IInv, TeamInv, TeamIsFixed, NEW t \in Thread, ThreadStep(t)
  PROVE  NewIsActive'
<1> USE DEF TeamInv
<1>0. TypeOK /\ Samples /\ Calls /\ pc \in [Thread -> Control]
  BY DEF IInv, TypeOK, ControlTypeOK
<1> SUFFICES ASSUME NEW u \in Thread, newDS'[u] # NoDs, pc'[u] # "leave"
             PROVE  ds'[newDS'[u]].finalize = "kActive"
  BY DEF NewIsActive
<1>1. CASE UNCHANGED <<newDS, ds>> /\ pc[u] # "leave"
  BY <1>1 DEF NewIsActive
<1>2. CASE UNCHANGED teamVars
  <2>1. UNCHANGED <<newDS, ds, pc>>
    BY <1>2 DEF teamVars, samplesOfTeam
  <2> QED
    BY <1>1, <2>1
<1>3. CASE Strolls(t)
  <2>1. UNCHANGED <<newDS, ds>>
    BY <1>3 DEF Strolls, samplesOfTeam
  <2>2. pc[u] # "leave"
    BY <1>3 DEF Strolls, InRound
  <2> QED
    BY <1>1, <2>1, <2>2
<1>4. CASE Gathers(t)
  <2>1. UNCHANGED <<newDS, ds>>
    BY <1>4 DEF Gathers, samplesOfTeam
  <2>2. pc[u] = "leave" => u \in awake /\ u # t
    BY <1>0, <1>4, AwakeType DEF Gathers
  <2>3. pc[u] # "leave"
    BY <1>4, <2>2 DEF Gathers
  <2> QED
    BY <1>1, <2>1, <2>3
<1>5. CASE Acts(t) /\ Access(t) /\ ~Stays
  <2>1. /\ newDS' = newDS /\ stage_ = 0 /\ pc[t] = "access"
        /\ \A d \in DsId : Exists(d) /\ d \notin Linked(t) /\ write_sets_[t][d] = <<>>
                             => ds'[d].finalize = ds[d].finalize
    BY <1>5, AccessEffect DEF Acts
  <2>2. pc[u] # "leave" /\ t \in InQueue
    BY <1>5, <2>1, AwakeType DEF Acts
  <2>3. newDS[u] \in DsId /\ Exists(newDS[u]) /\ newDS[u] \notin Linked(t)
        /\ newDS[u] \notin AllLinked /\ \A v \in Thread \ {u} : newDS[v] # newDS[u]
    BY <2>1, NewApart
  <2>4. newDS[u] \notin Watchable
    BY <2>1, <2>2, <2>3, StageOf DEF Watchable, PastStage1
  <2>5. Len(write_sets_[t][newDS[u]]) = 0
    BY <2>2, <2>3, <2>4 DEF Matched
  <2>6. write_sets_[t][newDS[u]] \in Seq(SUBSET Address)
    BY <1>0, <2>3 DEF TypeOK, SampleTypeOK
  <2>7. write_sets_[t][newDS[u]] = <<>>
    BY <2>5, <2>6
  <2> QED
    BY <2>1, <2>2, <2>3, <2>7 DEF NewIsActive
<1>6. CASE Acts(t) /\ NewSampledAddress(t)
  <2>1. /\ created + 1 \in DsId /\ ~Exists(created + 1)
        /\ ds' = [ds EXCEPT ![created + 1] = Fresh(t, ref[t][1])]
        /\ newDS' = [newDS EXCEPT ![t] = created + 1]
    BY <1>0, <1>6, NewSample
  <2>2. PICK c \in DsId : c = created + 1
    BY <2>1
  <2>3. ds \in [DsId -> DistanceSet \cup NoDistanceSet] /\ newDS \in [Thread -> DsId \cup {NoDs}]
    BY <1>0 DEF TypeOK, SampleTypeOK
  <2>4. CASE u = t
    BY <2>1, <2>2, <2>3, <2>4 DEF Fresh
  <2>5. CASE u # t
    <3>1. newDS'[u] = newDS[u] /\ pc'[u] = pc[u]
      BY <1>6, <2>1, <2>3, <2>5 DEF Acts
    <3>2. newDS[u] \in DsId /\ newDS[u] # c
      BY <2>1, <2>2, <3>1, NewApart
    <3>3. ds'[newDS[u]] = ds[newDS[u]]
      BY <2>1, <2>2, <2>3, <3>2
    <3> QED
      BY <3>1, <3>3 DEF NewIsActive
  <2> QED
    BY <2>4, <2>5
<1>7. CASE Acts(t) /\ Prune(t)
  <2>1. /\ newDS' = newDS
        /\ ds' = [ds EXCEPT ![oldest_distance_set_[t]].finalize = "kPruneFinalize"]
        /\ oldest_distance_set_[t] = NoDs \/ oldest_distance_set_[t] \in Linked(t)
    <3>1. distance_sets_[t] \in Seq(DsId)
      BY <1>0 DEF TypeOK, SampleTypeOK
    <3> QED
      BY <1>7, <3>1, ListElements DEF Prune, callVars, IInv, Oldest, OldestOf, Linked
  <2>2. newDS[u] \in DsId /\ newDS[u] \notin Linked(t) /\ newDS[u] # NoDs
    BY <2>1, NewApart
  <2>3. ds'[newDS[u]] = ds[newDS[u]]
    BY <2>1, <2>2
  <2>4. pc[u] # "leave"
    BY <1>7, <2>1 DEF Acts, Prune
  <2> QED
    BY <2>1, <2>3, <2>4 DEF NewIsActive
<1>8. CASE Acts(t) /\ Leave(t)
  <2>1. newDS' = [newDS EXCEPT ![t] = NoDs] /\ ds' = ds
    BY <1>8 DEF Leave, setVars
  <2>2. u # t /\ newDS'[u] = newDS[u]
    BY <1>0, <2>1 DEF TypeOK, SampleTypeOK
  <2>3. pc[u] # "leave"
    BY <1>8, <2>2 DEF Acts
  <2> QED
    BY <2>1, <2>2, <2>3 DEF NewIsActive
<1>9. CASE Ends(t, 1) /\ Stage1(t) /\ ~Stays
  <2>1. newDS' = newDS /\ \A d \in DsId : Exists(d) => ds'[d].finalize = ds[d].finalize
    BY <1>9, FirstEffect
  <2>2. newDS[u] \in DsId /\ Exists(newDS[u])
    BY <2>1, NewApart
  <2>3. pc[u] # "leave"
    BY <1>9, StageOf, AwakeType DEF Ends
  <2> QED
    BY <2>1, <2>2, <2>3 DEF NewIsActive
<1>10. CASE Ends(t, 2) /\ Stage2(t) /\ ~Stays
  <2>1. /\ newDS' = newDS
        /\ \A d \in DsId \ DyingOf(t) : Exists(d) => ds'[d].finalize = ds[d].finalize
        /\ \A d \in DsId : d \in DyingOf(t) => d \in AllLinked
    BY <1>10, SecondEffect
  <2>2. newDS[u] \in DsId /\ Exists(newDS[u]) /\ newDS[u] \notin AllLinked
    BY <2>1, NewApart
  <2>3. pc[u] # "leave"
    BY <1>10, StageOf, AwakeType DEF Ends
  <2> QED
    BY <2>1, <2>2, <2>3 DEF NewIsActive
<1> QED
  BY <1>2, <1>3, <1>4, <1>5, <1>6, <1>7, <1>8, <1>9, <1>10, TeamSteps

LEMMA NewNotPulledStep ==
  ASSUME IInv, TeamInv, TeamIsFixed, NEW t \in Thread, ThreadStep(t)
  PROVE  NewNotPulled'
<1> USE DEF TeamInv
<1>0. TypeOK /\ Samples /\ Calls /\ pc \in [Thread -> Control]
  BY DEF IInv, TypeOK, ControlTypeOK
<1> SUFFICES ASSUME NEW u \in Thread, newDS'[u] # NoDs
             PROVE  ~ds'[newDS'[u]].pulled
  BY DEF NewNotPulled
<1>1. CASE UNCHANGED <<newDS, ds>>
  BY <1>1 DEF NewNotPulled
<1>2. CASE UNCHANGED teamVars \/ Strolls(t) \/ Gathers(t)
  BY <1>1, <1>2 DEF teamVars, samplesOfTeam, Strolls, Gathers
<1>3. ASSUME newDS' = newDS,
             \A d \in DsId \ AllLinked : Exists(d) => ds'[d].pulled = ds[d].pulled
      PROVE  ~ds'[newDS'[u]].pulled
  <2>1. newDS[u] \in DsId /\ Exists(newDS[u]) /\ newDS[u] \notin AllLinked
    BY <1>3, NewApart
  <2> QED
    BY <1>3, <2>1 DEF NewNotPulled
<1>4. CASE Access(t) /\ ~Stays
  BY <1>3, <1>4, AccessEffect
<1>5. CASE NewSampledAddress(t)
  <2>1. /\ created + 1 \in DsId /\ ~Exists(created + 1)
        /\ ds' = [ds EXCEPT ![created + 1] = Fresh(t, ref[t][1])]
        /\ newDS' = [newDS EXCEPT ![t] = created + 1]
    BY <1>0, <1>5, NewSample
  <2>2. PICK c \in DsId : c = created + 1
    BY <2>1
  <2>3. ds \in [DsId -> DistanceSet \cup NoDistanceSet] /\ newDS \in [Thread -> DsId \cup {NoDs}]
    BY <1>0 DEF TypeOK, SampleTypeOK
  <2>4. CASE u = t
    BY <2>1, <2>2, <2>3, <2>4 DEF Fresh
  <2>5. CASE u # t
    <3>1. newDS'[u] = newDS[u]
      BY <2>1, <2>3, <2>5
    <3>2. newDS[u] \in DsId /\ newDS[u] # c
      BY <2>1, <2>2, <3>1, NewApart
    <3>3. ds'[newDS[u]] = ds[newDS[u]]
      BY <2>1, <2>2, <2>3, <3>2
    <3> QED
      BY <3>1, <3>3 DEF NewNotPulled
  <2> QED
    BY <2>4, <2>5
<1>6. CASE Prune(t)
  <2>1. newDS' = newDS /\ ds' = [ds EXCEPT ![oldest_distance_set_[t]].finalize = "kPruneFinalize"]
    BY <1>6 DEF Prune, callVars
  <2>2. ASSUME NEW d \in DsId, Exists(d) PROVE ds'[d].pulled = ds[d].pulled
    <3>1. ds[d] \in DistanceSet
      BY <1>0, <2>2, ExistsType
    <3>2. ds'[d] = ds[d] \/ ds'[d] = [ds[d] EXCEPT !.finalize = "kPruneFinalize"]
      BY <1>0, <2>1 DEF TypeOK, SampleTypeOK
    <3> QED
      BY <3>1, <3>2 DEF DistanceSet
  <2> QED
    BY <1>3, <2>1, <2>2
<1>7. CASE Leave(t)
  <2>1. newDS' = [newDS EXCEPT ![t] = NoDs] /\ ds' = ds
    BY <1>7 DEF Leave, setVars
  <2>2. u # t /\ newDS'[u] = newDS[u]
    BY <1>0, <2>1 DEF TypeOK, SampleTypeOK
  <2> QED
    BY <2>1, <2>2 DEF NewNotPulled
<1>8. CASE Stage1(t) /\ ~Stays
  BY <1>3, <1>8, FirstEffect
<1>9. CASE Stage2(t) /\ ~Stays
  BY <1>3, <1>9, SecondEffect
<1> QED
  BY <1>2, <1>4, <1>5, <1>6, <1>7, <1>8, <1>9, TeamSteps

LEMMA AnnounceStep ==
  ASSUME IInv, TeamInv, TeamIsFixed, NEW t \in Thread, ThreadStep(t)
  PROVE  Announce'
<1> USE DEF TeamInv
<1>0. TypeOK /\ Samples /\ Calls /\ pc \in [Thread -> Control]
  BY DEF IInv, TypeOK, ControlTypeOK
<1> SUFFICES ASSUME NEW u \in Thread
             PROVE  /\ pc'[u] = "prune" => synchronize' /\ oldest_distance_set_'[u] # NoDs
                    /\ stage_' # 2 /\ pc'[u] \in {"start", "wait", "work1"} /\ action'[u] = "kFinalize"
                         => finalize_needed'
  BY DEF Announce
<1>1. CASE UNCHANGED teamVars
  BY <1>1 DEF Announce, teamVars, flagVars, samplesOfTeam
<1>2. CASE Strolls(t)
  BY <1>0, <1>2 DEF Announce, Strolls, samplesOfTeam
<1>3. CASE Gathers(t)
  <2>1. UNCHANGED <<flagVars, action, oldest_distance_set_>> /\ stage_ = 0
    BY <1>3 DEF Gathers, samplesOfTeam
  <2>2. \/ pc'[u] = pc[u]
        \/ pc'[u] \notin {"prune", "start", "wait", "work1"}
        \/ pc[u] \in {"start", "wait"} /\ pc'[u] # "prune"
        \/ action[u] # "kFinalize" /\ pc'[u] # "prune"
    <3>1. u \in awake \/ u \in Thread \ awake
      OBVIOUS
    <3>2. pc[t] = "app" => action[t] = "kNoAction"
      BY <1>0 DEF Calls, OneCall, InRound
    <3> QED
      BY <1>3, <3>1, <3>2 DEF Gathers
  <2> QED
    BY <2>1, <2>2 DEF Announce, flagVars
<1>4. CASE Acts(t) /\ Access(t) /\ ~Stays
  <2>1. /\ oldest_distance_set_' = oldest_distance_set_
        /\ finalize_needed => finalize_needed'
        /\ synchronize => synchronize'
        /\ action'[t] = "kFinalize" => finalize_needed'
        /\ pc'[t] # "prune"
    BY <1>4, AccessEffect
  <2> QED
    BY <1>4, <2>1 DEF Acts, Announce
<1>5. CASE Acts(t) /\ NewSampledAddress(t)
  <2>1. /\ synchronize' /\ UNCHANGED <<finalize_needed, oldest_distance_set_>>
        /\ action'[t] = "kNewSampledAddress"
        /\ pc'[t] = "prune" => oldest_distance_set_[t] # NoDs
    BY <1>0, <1>5 DEF NewSampledAddress, Goto, Prunable, listVars, TypeOK, ControlTypeOK
  <2> QED
    BY <1>5, <2>1 DEF Acts, Announce
<1>6. CASE Acts(t) /\ Prune(t)
  <2>1. finalize_needed' /\ UNCHANGED <<synchronize, oldest_distance_set_>> /\ pc'[t] = "start"
    BY <1>0, <1>6 DEF Prune, Goto, listVars
  <2> QED
    BY <1>6, <2>1 DEF Acts, Announce
<1>7. CASE Acts(t) /\ Leave(t)
  <2>1. /\ UNCHANGED <<synchronize, finalize_needed>>
        /\ u # t => oldest_distance_set_'[u] = oldest_distance_set_[u]
        /\ action'[t] = "kNoAction" /\ pc'[t] # "prune"
    BY <1>0, <1>7 DEF Leave, Goto, globalVars, TypeOK, ControlTypeOK, SampleTypeOK
  <2> QED
    BY <1>7, <2>1 DEF Acts, Announce
<1>8. CASE Ends(t, 1) /\ Stage1(t) /\ ~Stays
  <2>1. UNCHANGED <<oldest_distance_set_, flagVars, action>>
    BY <1>8, FirstEffect DEF Ends
  <2>2. stage_ = 1 /\ (stage_' = 1 \/ stage_' = 2)
    BY <1>8 DEF Ends
  <2>3. pc'[u] # "prune"
    BY <1>0, <1>8, <2>2, AwakeType, StageOf DEF Ends, Beyond
  <2>4. pc'[u] \in {"start", "work1"} => pc'[u] = pc[u]
    BY <1>0, <1>8 DEF Ends, Beyond
  <2>5. pc'[u] = "wait" => pc[u] \in {"wait", "work1"}
    BY <1>0, <1>8, <2>2 DEF Ends, Beyond, Work
  <2> QED
    BY <2>1, <2>2, <2>3, <2>4, <2>5 DEF Announce, flagVars
<1>9. CASE Ends(t, 2) /\ Stage2(t) /\ ~Stays
  <2>1. \/ stage_' = 2
        \/ stage_' = 0 /\ \A v \in awake : pc'[v] = "leave"
    BY <1>9, AwakeType DEF Ends, Beyond
  <2>2. pc'[u] \notin {"prune"}
    BY <1>0, <1>9, AwakeType, StageOf DEF Ends, Beyond
  <2>3. u \notin awake => pc'[u] \in {"unborn", "asleep"}
    BY <1>0, <1>9, AwakeType DEF Ends
  <2> QED
    BY <2>1, <2>2, <2>3
<1> QED
  BY <1>1, <1>2, <1>3, <1>4, <1>5, <1>6, <1>7, <1>8, <1>9, TeamSteps

\* Between two rounds, and while the first stage goes on, a prune marks a sample that
\* is called out.
LEMMA PruneEffect ==
  ASSUME IInv, NEW t \in Thread, Prune(t)
  PROVE  /\ UNCHANGED <<newDS, distance_sets_, write_sets_, oldest_distance_set_, synchronize,
                        thread_count>>
         /\ finalize_needed'
         /\ \A d \in DsId : Exists(d)' <=> Exists(d)
         /\ \A d \in DsId : Exists(d) => /\ ds'[d].owner = ds[d].owner
                                         /\ ds'[d].pulled = ds[d].pulled
                                         /\ Marked(d) => Marked(d)'
                                         /\ ds[d].finalize # "kReuseFinalize"
                                              => ds'[d].finalize # "kReuseFinalize"
<1>0. TypeOK /\ Samples /\ Oldest
  BY DEF IInv
<1>1. /\ ds' = [ds EXCEPT ![oldest_distance_set_[t]].finalize = "kPruneFinalize"]
      /\ UNCHANGED <<newDS, distance_sets_, write_sets_, oldest_distance_set_, synchronize,
                     thread_count>>
      /\ finalize_needed'
  BY DEF Prune, listVars, callVars
<1>2. SetsGoOn
  BY <1>0, PruneSamples
<1>3. \A d \in DsId : IF Exists(d) THEN Exists(d)' /\ ds'[d].owner = ds[d].owner ELSE ~Exists(d)'
  BY <1>2 DEF SetsGoOn, Exists
<1>4. ASSUME NEW d \in DsId, Exists(d)
      PROVE  /\ ds'[d].pulled = ds[d].pulled
             /\ Marked(d) => Marked(d)'
             /\ ds[d].finalize # "kReuseFinalize" => ds'[d].finalize # "kReuseFinalize"
  <2>1. ds[d] \in DistanceSet
    BY <1>0, <1>4, ExistsType
  <2>2. ds'[d] = ds[d] \/ ds'[d] = [ds[d] EXCEPT !.finalize = "kPruneFinalize"]
    BY <1>0, <1>1 DEF TypeOK, SampleTypeOK
  <2> QED
    BY <2>1, <2>2 DEF DistanceSet, Marked
<1> QED
  BY <1>1, <1>3, <1>4

LEMMA NewEffect ==
  ASSUME IInv, NEW t \in Thread, NewSampledAddress(t)
  PROVE  /\ UNCHANGED <<distance_sets_, write_sets_, finalize_needed, thread_count>>
         /\ synchronize'
         /\ \E c \in DsId : /\ ~Exists(c) /\ c \notin AllLinked
                            /\ \A u \in Thread : newDS[u] # c
                            /\ newDS[t] = NoDs
                            /\ newDS' = [newDS EXCEPT ![t] = c]
                            /\ \A d \in DsId \ {c} : ds'[d] = ds[d]
                            /\ ds'[c].finalize = "kActive" /\ ~ds'[c].pulled
                            /\ ds'[c].owner = t
<1>0. TypeOK /\ Samples /\ Calls
  BY DEF IInv
<1>1. /\ created + 1 \in DsId /\ ~Exists(created + 1)
      /\ ds' = [ds EXCEPT ![created + 1] = Fresh(t, ref[t][1])]
      /\ newDS[t] = NoDs /\ newDS' = [newDS EXCEPT ![t] = created + 1]
  BY <1>0, NewSample
<1>2. PICK c \in DsId : c = created + 1
  BY <1>1
<1>3. c \notin AllLinked
  BY <1>0, <1>1, <1>2, AllLinkedExist
<1>4. \A u \in Thread : newDS[u] # c
  <2>1. c # NoDs
    BY DEF DsId, NoDs
  <2> QED
    BY <1>1, <1>2, <2>1, NewApart
<1>5. ds'[c] = Fresh(t, ref[t][1]) /\ \A d \in DsId \ {c} : ds'[d] = ds[d]
  BY <1>0, <1>1, <1>2 DEF TypeOK, SampleTypeOK
<1>6. ds'[c].finalize = "kActive" /\ ~ds'[c].pulled /\ ds'[c].owner = t
  BY <1>5 DEF Fresh
<1>7. UNCHANGED <<distance_sets_, write_sets_, finalize_needed, thread_count>> /\ synchronize'
  BY DEF NewSampledAddress, listVars
<1> QED
  BY <1>1, <1>2, <1>3, <1>4, <1>5, <1>6, <1>7

LEMMA LeaveEffect ==
  ASSUME IInv, NEW t \in Thread, Leave(t)
  PROVE  /\ UNCHANGED <<ds, write_sets_, synchronize, finalize_needed, merge_needed, thread_count>>
         /\ pc[t] = "leave" /\ pc'[t] \in {"access", "checks", "app"}
         /\ pc'[t] = "checks" => action[t] = "kFinalize"
         /\ action'[t] = "kNoAction"
         /\ newDS'[t] = NoDs
         /\ UNCHANGED ll1
         /\ \A u \in Thread \ {t} : /\ newDS'[u] = newDS[u]
                                    /\ distance_sets_'[u] = distance_sets_[u]
         /\ newDS[t] = NoDs => distance_sets_' = distance_sets_
         /\ newDS[t] # NoDs => Linked(t)' = Linked(t) \cup {newDS[t]}
<1>0. TypeOK /\ Samples /\ Calls
  BY DEF IInv
<1>1. /\ pc[t] = "leave" /\ pc'[t] \in {"access", "checks", "app"}
      /\ pc'[t] = "checks" => action[t] = "kFinalize"
      /\ action'[t] = "kNoAction"
      /\ newDS'[t] = NoDs /\ \A u \in Thread \ {t} : newDS'[u] = newDS[u]
      /\ UNCHANGED <<ll1, ds, write_sets_, synchronize, finalize_needed, merge_needed, thread_count>>
  BY <1>0 DEF Leave, Goto, setVars, globalVars, TypeOK, ControlTypeOK, SampleTypeOK
<1>2. /\ newDS[t] = NoDs => distance_sets_' = distance_sets_
      /\ newDS[t] # NoDs => distance_sets_' = [distance_sets_ EXCEPT ![t] = Cons(newDS[t], @)]
  BY <1>0 DEF Leave, Calls, OneCall
<1>3. distance_sets_ \in [Thread -> Seq(DsId)]
  BY <1>0 DEF TypeOK, SampleTypeOK
<1>4. \A u \in Thread \ {t} : distance_sets_'[u] = distance_sets_[u]
  BY <1>2, <1>3
<1>5. ASSUME newDS[t] # NoDs PROVE Linked(t)' = Linked(t) \cup {newDS[t]}
  <2>1. newDS[t] \in DsId /\ distance_sets_[t] \in Seq(DsId)
    BY <1>3, <1>5, NewApart
  <2>2. distance_sets_'[t] = Cons(newDS[t], distance_sets_[t])
    BY <1>2, <1>3, <1>5
  <2> QED
    BY <2>1, <2>2, LinkOne DEF Linked
<1> QED
  BY <1>1, <1>2, <1>4, <1>5

LEMMA MarksStep ==
  ASSUME IInv, TeamInv, TeamIsFixed, NEW t \in Thread, ThreadStep(t)
  PROVE  Marks'
<1> USE DEF TeamInv
<1>0. TypeOK /\ Samples /\ Calls /\ pc \in [Thread -> Control]
  BY DEF IInv, TypeOK, ControlTypeOK
<1>1. CASE UNCHANGED teamVars
  BY <1>1 DEF Marks, teamVars, flagVars, samplesOfTeam, Exists, Marked, ServedBy
<1>2. CASE Strolls(t) \/ Gathers(t)
  <2>1. /\ ds' = ds /\ stage_ = 0 /\ stage_' # 2
        /\ finalize_needed => finalize_needed'
        /\ synchronize => synchronize'
    BY <1>2 DEF Strolls, Gathers, flagVars, samplesOfTeam
  <2>2. \A d \in DsId : Exists(d)' /\ Marked(d)' => finalize_needed' /\ synchronize'
    BY <2>1 DEF Marks, Exists, Marked
  <2> QED
    BY <2>1, <2>2 DEF Marks
<1>3. CASE Acts(t) /\ ((Access(t) /\ ~Stays) \/ NewSampledAddress(t) \/ Prune(t) \/ Leave(t))
  <2>1. stage_ = 0 /\ stage_' = 0
    BY <1>3 DEF Acts
  <2>2. \A d \in DsId : Exists(d) /\ Marked(d) => finalize_needed /\ synchronize
    BY <2>1 DEF Marks
  <2> SUFFICES ASSUME NEW d \in DsId, Exists(d)', Marked(d)'
               PROVE  finalize_needed' /\ synchronize'
    BY <2>1 DEF Marks
  <2>3. CASE Access(t) /\ ~Stays
    <3>1. /\ finalize_needed => finalize_needed'
          /\ synchronize => synchronize'
          /\ Exists(d)
          /\ Marked(d) \/ (finalize_needed' /\ synchronize')
      BY <2>3, AccessEffect
    <3> QED
      BY <2>2, <3>1
  <2>4. CASE NewSampledAddress(t)
    <3>1. PICK c \in DsId : /\ \A e \in DsId \ {c} : ds'[e] = ds[e]
                            /\ ds'[c].finalize = "kActive"
      BY <2>4, NewEffect
    <3>2. d # c /\ ds'[d] = ds[d]
      BY <3>1 DEF Marked
    <3>3. UNCHANGED finalize_needed /\ synchronize'
      BY <2>4, NewEffect
    <3> QED
      BY <2>2, <3>2, <3>3 DEF Exists, Marked
  <2>5. CASE Prune(t)
    <3>1. finalize_needed' /\ synchronize' = synchronize
      BY <2>5, PruneEffect
    <3>2. synchronize
      BY <2>5 DEF Prune, Announce
    <3> QED
      BY <3>1, <3>2
  <2>6. CASE Leave(t)
    <3>1. UNCHANGED <<ds, synchronize, finalize_needed>>
      BY <2>6, LeaveEffect
    <3> QED
      BY <2>2, <3>1 DEF Exists, Marked
  <2> QED
    BY <1>3, <2>3, <2>4, <2>5, <2>6
<1>4. CASE Ends(t, 1) /\ Stage1(t) /\ ~Stays
  <2>1. /\ \A d \in DsId : Exists(d)' <=> Exists(d)
        /\ \A d \in DsId : Exists(d) => /\ ds'[d].owner = ds[d].owner
                                        /\ ds'[d].finalize = ds[d].finalize
        /\ UNCHANGED flagVars
    BY <1>4, FirstEffect
  <2>2. stage_ = 1 /\ UNCHANGED <<awake, thread_count>> /\ t \in awake
    BY <1>4 DEF Ends
  <2>3. \A d \in DsId : Exists(d)' /\ Marked(d)' => Exists(d) /\ Marked(d) /\ finalize_needed
    BY <2>1, <2>2 DEF Marks, Marked
  <2>4. CASE stage_' = 1
    BY <2>1, <2>3, <2>4 DEF Marks, flagVars
  <2>5. CASE /\ stage_' = 2 /\ Waiting \cup {t} = awake
             /\ pc' = [u \in Thread |-> IF u \in awake THEN "work2" ELSE pc[u]]
    <3>1. SUFFICES ASSUME NEW d \in DsId, Exists(d)', Marked(d)'
                   PROVE  \E u \in awake : /\ pc'[u] = "work2" /\ plan'[u].finalize
                                           /\ ds'[d].owner \in ServedBy(u)'
      BY <2>2, <2>5 DEF Marks
    <3>2. Exists(d) /\ Marked(d) /\ finalize_needed /\ ds'[d].owner = ds[d].owner
      BY <2>1, <2>3, <3>1
    <3>3. ds[d].owner \in InQueue /\ awake \subseteq InQueue /\ awake \subseteq Thread
      BY <2>2, <3>2, MarkedIsLinked, AwakeType
    <3>4. thread_count \in Nat \ {0}
      BY <1>0, <3>3, SamplerAssumption DEF InQueue, TypeOK, ControlTypeOK
    <3>5. PICK u \in awake : ds[d].owner \in ServedBy(u)
      BY <2>2, <3>3, <3>4, SlotIsServed DEF InQueue, ServedBy
    <3>6. plan'[u].finalize
      <4>1. FirstStage(t, TodoOf(t))
        BY <1>4, EndStep
      <4>2. plan' = [plan EXCEPT ![t] = TodoOf(t)]
        BY <4>1 DEF FirstStage
      <4>3. plan'[u] = IF u = t THEN TodoOf(t) ELSE plan[u]
        BY <1>0, <3>3, <4>2 DEF TypeOK, ControlTypeOK
      <4>4. u # t => plan[u] = PlanOf(u, merge_needed, finalize_needed)
        BY <2>2, <2>5 DEF Plans
      <4> QED
        BY <3>2, <4>3, <4>4 DEF PlanOf, TodoOf
    <3> QED
      BY <2>2, <2>5, <3>2, <3>3, <3>5, <3>6 DEF ServedBy
  <2> QED
    BY <1>4, <2>4, <2>5 DEF Ends, Beyond
<1>5. CASE Ends(t, 2) /\ Stage2(t) /\ ~Stays
  <2>1. /\ ServedOf(t) = IF SyncedOf(t) THEN ServedBy(t) ELSE {}
        /\ \A d \in DsId : d \in DyingOf(t) <=>
              d \in AllLinked /\ Marked(d) /\ ds[d].owner \in ServedOf(t)
        /\ \A d \in DsId : Exists(d)' <=> Exists(d) /\ d \notin DyingOf(t)
        /\ \A d \in DsId \ DyingOf(t) : Exists(d) =>
              /\ ds'[d].owner = ds[d].owner /\ ds'[d].finalize = ds[d].finalize
    BY <1>5, SecondEffect
  <2>2. stage_ = 2 /\ UNCHANGED <<awake, thread_count>> /\ t \in awake
    BY <1>5 DEF Ends
  <2>3. ASSUME NEW d \in DsId, Exists(d)', Marked(d)'
        PROVE  /\ ds'[d].owner = ds[d].owner
               /\ \E u \in awake \ {t} : /\ pc[u] = "work2" /\ plan[u].finalize
                                         /\ ds[d].owner \in ServedBy(u)
    <3>1. Exists(d) /\ Marked(d) /\ d \notin DyingOf(t) /\ ds'[d].owner = ds[d].owner
      BY <2>1, <2>3 DEF Marked
    <3>2. d \in AllLinked
      BY <2>2, <3>1, MarkedIsLinked
    <3>3. PICK u \in awake : /\ pc[u] = "work2" /\ plan[u].finalize
                             /\ ds[d].owner \in ServedBy(u)
      BY <2>2, <3>1 DEF Marks
    <3>4. u # t
      BY <2>1, <3>1, <3>2, <3>3 DEF SyncedOf
    <3> QED
      BY <3>1, <3>3, <3>4
  <2>4. CASE stage_' = 2 /\ pc' = [pc EXCEPT ![t] = "wait"]
    <3>1. plan' = [plan EXCEPT ![t] = <<>>]
      BY <1>5, EndStep DEF SecondStage
    <3>2. \A u \in awake \ {t} : pc'[u] = pc[u] /\ plan'[u] = plan[u]
      BY <1>0, <2>4, <3>1, AwakeType DEF TypeOK, ControlTypeOK
    <3>3. \A u : ServedBy(u)' = ServedBy(u)
      BY <2>2 DEF ServedBy
    <3>4. ASSUME NEW d \in DsId, Exists(d)', Marked(d)'
          PROVE  \E u \in awake : /\ pc'[u] = "work2" /\ plan'[u].finalize
                                  /\ ds'[d].owner \in ServedBy(u)'
      BY <2>3, <3>2, <3>3, <3>4
    <3> QED
      BY <2>2, <2>4, <3>4 DEF Marks
  <2>5. CASE stage_' = 0 /\ Waiting \cup {t} = awake
    <3>1. \A u \in awake \ {t} : pc[u] = "wait"
      BY <2>5 DEF Waiting
    <3>2. \A d \in DsId : ~(Exists(d)' /\ Marked(d)')
      BY <2>3, <3>1
    <3> QED
      BY <3>2 DEF Marks
  <2> QED
    BY <1>5, <2>4, <2>5 DEF Ends, Beyond
<1> QED
  BY <1>1, <1>2, <1>3, <1>4, <1>5, TeamSteps

\* The threads of a round serve every thread, and none twice.
LEMMA Served1 ==
  ASSUME IInv, Team, NEW slot \in InQueue, awake # {}
  PROVE  /\ \E t \in awake : slot \in ServedBy(t)
         /\ \A t, u \in awake : slot \in ServedBy(t) /\ slot \in ServedBy(u) => t = u
<1>1. awake \in SUBSET (0 .. thread_count - 1) /\ slot \in 0 .. thread_count - 1
  BY AwakeType DEF InQueue
<1>2. thread_count \in Nat \ {0}
  BY <1>1, SamplerAssumption DEF IInv, TypeOK, ControlTypeOK
<1>3. \E t \in awake : slot \in ServedBy(t)
  BY <1>1, <1>2, SlotIsServed DEF ServedBy
<1>4. \A t, u \in awake : slot \in ServedBy(t) /\ slot \in ServedBy(u) => t = u
  BY <1>1, <1>2, SlotIsServedOnce DEF ServedBy
<1> QED
  BY <1>3, <1>4

LEMMA PulledStep ==
  ASSUME IInv, TeamInv, TeamIsFixed, NEW t \in Thread, ThreadStep(t)
  PROVE  Pulled'
<1> USE DEF TeamInv
<1>0. /\ TypeOK /\ Samples /\ Calls /\ pc \in [Thread -> Control]
      /\ InQueue \subseteq Thread
  BY QueueType DEF IInv, TypeOK, ControlTypeOK
<1>1. CASE UNCHANGED teamVars
  BY <1>1 DEF Pulled, teamVars, samplesOfTeam, Marked, ServedBy, Waiting, AllLinked, Linked, InQueue
<1>2. ASSUME stage_ = 0, NEW d \in AllLinked PROVE ~ds[d].pulled
  BY <1>2 DEF Pulled
<1>3. CASE Strolls(t) \/ Gathers(t)
  <2>1. /\ UNCHANGED <<ds, distance_sets_, thread_count>> /\ stage_ = 0
        /\ stage_' = 0 \/ (stage_' = 1 /\ Waiting' = {})
    BY <1>3 DEF Strolls, Gathers, samplesOfTeam, Waiting
  <2>2. AllLinked' = AllLinked
    BY <2>1 DEF AllLinked, Linked, InQueue
  <2>3. \A d \in AllLinked : ~ds'[d].pulled
    BY <1>2, <2>1
  <2>4. \A d : ~(\/ stage_' = 1 /\ \E u \in Waiting' : ds'[d].owner \in ServedBy(u)'
                 \/ stage_' = 2)
    BY <2>1
  <2> QED
    BY <2>2, <2>3, <2>4 DEF Pulled
<1>4. CASE Acts(t) /\ ((Access(t) /\ ~Stays) \/ NewSampledAddress(t) \/ Prune(t) \/ Leave(t))
  <2>1. stage_ = 0 /\ stage_' = 0 /\ UNCHANGED thread_count /\ InQueue' = InQueue
    BY <1>4 DEF Acts, InQueue
  <2>2. SUFFICES ASSUME NEW d \in AllLinked' PROVE ~ds'[d].pulled
    BY <2>1 DEF Pulled
  <2>3. CASE Access(t) /\ ~Stays
    <3>1. /\ distance_sets_' = distance_sets_
          /\ \A e \in DsId : Exists(e) => ds'[e].pulled = ds[e].pulled
      BY <2>3, AccessEffect
    <3>2. d \in AllLinked
      BY <2>1, <3>1 DEF AllLinked, Linked
    <3> QED
      BY <1>0, <1>2, <2>1, <3>1, <3>2, AllLinkedExist
  <2>4. CASE NewSampledAddress(t)
    <3>1. /\ distance_sets_' = distance_sets_
          /\ \E c \in DsId : c \notin AllLinked /\ \A e \in DsId \ {c} : ds'[e] = ds[e]
      BY <2>4, NewEffect
    <3>2. d \in AllLinked
      BY <2>1, <3>1 DEF AllLinked, Linked
    <3> QED
      BY <1>0, <1>2, <2>1, <3>1, <3>2, AllLinkedExist
  <2>5. CASE Prune(t)
    <3>1. /\ distance_sets_' = distance_sets_
          /\ \A e \in DsId : Exists(e) => ds'[e].pulled = ds[e].pulled
      BY <2>5, PruneEffect
    <3>2. d \in AllLinked
      BY <2>1, <3>1 DEF AllLinked, Linked
    <3> QED
      BY <1>0, <1>2, <2>1, <3>1, <3>2, AllLinkedExist
  <2>6. CASE Leave(t)
    <3>1. /\ ds' = ds
          /\ newDS[t] = NoDs => distance_sets_' = distance_sets_
          /\ newDS[t] # NoDs => Linked(t)' = Linked(t) \cup {newDS[t]}
          /\ \A u \in Thread \ {t} : distance_sets_'[u] = distance_sets_[u]
      BY <2>6, LeaveEffect
    <3>2. d \in AllLinked \/ (newDS[t] # NoDs /\ d = newDS[t])
      <4>1. PICK u \in InQueue : d \in Linked(u)'
        BY <2>1 DEF AllLinked
      <4> QED
        BY <1>0, <3>1, <4>1 DEF AllLinked, Linked
    <3> QED
      BY <1>2, <2>1, <3>1, <3>2 DEF NewNotPulled
  <2> QED
    BY <1>4, <2>3, <2>4, <2>5, <2>6
<1>5. CASE Ends(t, 1) /\ Stage1(t) /\ ~Stays
  <2>1. /\ distance_sets_' = distance_sets_
        /\ \A d \in DsId : Exists(d) => /\ ds'[d].owner = ds[d].owner
                                        /\ ds'[d].finalize = ds[d].finalize
        /\ \A d \in DsId : d \in Removed(t, TodoOf(t)) <=>
             d \in AllLinked /\ Marked(d) /\ ds[d].owner \in ServedBy(t)
        /\ \A d \in DsId : Exists(d) => ds'[d].pulled =
             IF d \in Removed(t, TodoOf(t)) THEN thread_count # 1 ELSE ds[d].pulled
    BY <1>5, FirstEffect
  <2>2. stage_ = 1 /\ UNCHANGED <<awake, thread_count>> /\ t \in awake /\ Waiting \subseteq awake
    BY <1>5, AwakeType DEF Ends
  <2>3. AllLinked' = AllLinked /\ \A u : ServedBy(u)' = ServedBy(u)
    BY <2>1, <2>2 DEF AllLinked, Linked, InQueue, ServedBy
  <2>4. \/ stage_' = 1 /\ Waiting' = Waiting \cup {t}
        \/ stage_' = 2 /\ Waiting \cup {t} = awake
    BY <1>0, <1>5 DEF Ends, Waiting
  <2> SUFFICES ASSUME NEW d \in AllLinked
               PROVE  ds'[d].pulled <=> /\ thread_count # 1 /\ Marked(d)'
                        /\ \/ stage_' = 1 /\ \E u \in Waiting' : ds'[d].owner \in ServedBy(u)'
                           \/ stage_' = 2
    BY <2>2, <2>3 DEF Pulled
  <2>5. d \in DsId /\ Exists(d) /\ ds[d].owner \in InQueue
    BY <1>0, AllLinkedExist
  <2>6. ds'[d].owner = ds[d].owner /\ (Marked(d)' <=> Marked(d))
    BY <2>1, <2>5 DEF Marked
  <2>7. ds[d].pulled <=> /\ thread_count # 1 /\ Marked(d)
                         /\ \E u \in Waiting : ds[d].owner \in ServedBy(u)
    BY <2>2 DEF Pulled
  <2>8. CASE d \in Removed(t, TodoOf(t))
    <3>1. Marked(d) /\ ds[d].owner \in ServedBy(t) /\ ds'[d].pulled = (thread_count # 1)
      BY <2>1, <2>5, <2>8
    <3> QED
      BY <2>3, <2>4, <2>6, <3>1
  <2>9. CASE d \notin Removed(t, TodoOf(t))
    <3>1. ~(Marked(d) /\ ds[d].owner \in ServedBy(t)) /\ ds'[d].pulled = ds[d].pulled
      BY <2>1, <2>5, <2>9
    <3>2. CASE stage_' = 1 /\ Waiting' = Waiting \cup {t}
      BY <2>3, <2>6, <2>7, <3>1, <3>2
    <3>3. CASE stage_' = 2 /\ Waiting \cup {t} = awake
      <4>1. PICK u \in awake : ds[d].owner \in ServedBy(u)
        BY <2>2, <2>5, Served1
      <4>2. Marked(d) => u \in Waiting
        BY <3>1, <3>3, <4>1
      <4> QED
        BY <2>6, <2>7, <3>1, <3>3, <4>1, <4>2
    <3> QED
      BY <2>4, <3>2, <3>3
  <2> QED
    BY <2>8, <2>9
<1>6. CASE Ends(t, 2) /\ Stage2(t) /\ ~Stays
  <2>1. /\ \A d \in DsId : Exists(d)' <=> Exists(d) /\ d \notin DyingOf(t)
        /\ \A d \in DsId \ DyingOf(t) : Exists(d) =>
              ds'[d].finalize = ds[d].finalize /\ ds'[d].pulled = ds[d].pulled
        /\ AllLinked' = AllLinked \ DyingOf(t)
    BY <1>6, SecondEffect
  <2>2. stage_ = 2 /\ UNCHANGED thread_count /\ (stage_' = 2 \/ stage_' = 0)
    BY <1>6 DEF Ends
  <2>3. Marks'
    BY MarksStep
  <2> SUFFICES ASSUME NEW d \in AllLinked \ DyingOf(t)
               PROVE  ds'[d].pulled <=> /\ thread_count # 1 /\ Marked(d)'
                        /\ \/ stage_' = 1 /\ \E u \in Waiting' : ds'[d].owner \in ServedBy(u)'
                           \/ stage_' = 2
    BY <2>1, <2>2 DEF Pulled
  <2>4. d \in DsId /\ Exists(d) /\ Exists(d)'
    BY <1>0, <2>1, AllLinkedExist
  <2>5. ds'[d].pulled = ds[d].pulled /\ (Marked(d)' <=> Marked(d))
    BY <2>1, <2>4 DEF Marked
  <2>6. ds[d].pulled <=> thread_count # 1 /\ Marked(d)
    BY <2>2 DEF Pulled
  <2>7. CASE stage_' = 2
    BY <2>5, <2>6, <2>7
  <2>8. CASE stage_' = 0 /\ ~Marked(d)
    BY <2>5, <2>6, <2>8
  <2>9. CASE stage_' = 0 /\ Marked(d)
    <3>1. Ends(t, 2) /\ Waiting \cup {t} = awake
      BY <1>6, <2>9 DEF Ends
    <3>2. \E u \in awake : /\ pc[u] = "work2" /\ plan[u].finalize
                           /\ ds[d].owner \in ServedBy(u)
      BY <2>2, <2>4, <2>9 DEF Marks
    <3>3. plan[t].finalize /\ ds[d].owner \in ServedBy(t)
      BY <3>1, <3>2 DEF Waiting
    <3>4. d \in DyingOf(t)
      BY <1>6, <2>4, <2>9, <3>3, SecondEffect DEF SyncedOf
    <3> QED
      BY <3>4
  <2> QED
    BY <2>2, <2>7, <2>8, <2>9
<1> QED
  BY <1>1, <1>3, <1>4, <1>5, <1>6, TeamSteps

LEMMA LengthsStep ==
  ASSUME IInv, TeamInv, TeamIsFixed, NEW t \in Thread, ThreadStep(t)
  PROVE  Lengths'
<1> USE DEF TeamInv
<1>0. /\ TypeOK /\ Samples /\ Calls /\ pc \in [Thread -> Control]
      /\ ll1 \in [Thread -> Int] /\ action \in [Thread -> Action]
      /\ \A u \in Thread : distance_sets_[u] \in Seq(DsId) /\ Len(distance_sets_[u]) \in Nat
  <2>1. TypeOK /\ Samples /\ Calls
    BY DEF IInv
  <2>2. /\ pc \in [Thread -> Control] /\ ll1 \in [Thread -> Int]
        /\ action \in [Thread -> Action]
    BY <2>1 DEF TypeOK, ControlTypeOK
  <2>3. distance_sets_ \in [Thread -> Seq(DsId)]
    BY <2>1 DEF TypeOK, SampleTypeOK
  <2>4. \A u \in Thread : distance_sets_[u] \in Seq(DsId) /\ Len(distance_sets_[u]) \in Nat
    BY <2>3
  <2> QED
    BY <2>1, <2>2, <2>4
<1> DEFINE Before(u) ==
      /\ pc[u] \in {"start", "wait", "work1", "work2"} /\ action[u] = "kFinalize" /\ ll1[u] >= 0
           => \/ Len(distance_sets_[u]) < ll1[u]
              \/ Len(distance_sets_[u]) = ll1[u] /\ \E d \in Linked(u) : Marked(d)
           After1(u) ==
      pc[u] = "checks" \/ (pc[u] = "leave" /\ action[u] = "kFinalize")
           => /\ ll1[u] < 0 \/ Len(distance_sets_[u]) < ll1[u]
              /\ \A d \in Linked(u) : ds[d].finalize # "kReuseFinalize"
<1>1. \A u \in Thread : Before(u) /\ After1(u)
  BY DEF Lengths
<1> SUFFICES ASSUME NEW u \in Thread PROVE Before(u)' /\ After1(u)'
  BY DEF Lengths
<1>2. ASSUME distance_sets_'[u] = distance_sets_[u], ll1'[u] = ll1[u],
             \A d \in Linked(u) : Marked(d) => Marked(d)',
             \A d \in Linked(u) : ds[d].finalize # "kReuseFinalize"
                                    => ds'[d].finalize # "kReuseFinalize"
      PROVE  /\ (/\ pc'[u] \in {"start", "wait", "work1", "work2"} /\ action'[u] = "kFinalize"
                   => pc[u] \in {"start", "wait", "work1", "work2"} /\ action[u] = "kFinalize")
                => Before(u)'
             /\ (/\ pc'[u] = "checks" \/ (pc'[u] = "leave" /\ action'[u] = "kFinalize")
                   => pc[u] = "checks" \/ (pc[u] = "leave" /\ action[u] = "kFinalize"))
                => After1(u)'
  <2>1. Linked(u)' = Linked(u)
    BY <1>2 DEF Linked
  <2> QED
    BY <1>1, <1>2, <2>1
<1>3. CASE UNCHANGED teamVars
  <2>1. /\ distance_sets_'[u] = distance_sets_[u] /\ ll1'[u] = ll1[u]
        /\ ds' = ds /\ pc' = pc /\ action' = action
    BY <1>3 DEF teamVars, samplesOfTeam
  <2> QED
    BY <1>2, <2>1 DEF Marked
<1>4. CASE Strolls(t)
  <2>1. distance_sets_'[u] = distance_sets_[u] /\ ds' = ds
    BY <1>4 DEF Strolls, samplesOfTeam
  <2>2. CASE u = t
    BY <1>4, <2>2 DEF Strolls
  <2>3. CASE u # t
    <3>1. pc'[u] = pc[u] /\ action'[u] = action[u] /\ ll1'[u] = ll1[u]
      BY <1>4, <2>3 DEF Strolls
    <3> QED
      BY <1>2, <2>1, <3>1 DEF Marked
  <2> QED
    BY <2>2, <2>3
<1>5. CASE Gathers(t)
  <2>1. distance_sets_'[u] = distance_sets_[u] /\ ds' = ds /\ action' = action /\ ll1' = ll1
    BY <1>5 DEF Gathers, samplesOfTeam
  <2>2. \/ pc'[u] = pc[u] \/ pc'[u] \in {"unborn", "asleep"}
        \/ /\ pc'[u] \in {"start", "wait", "work1"}
           /\ pc[u] \in {"start", "wait"} \/ action[u] # "kFinalize"
    <3>1. u \in awake \/ u \in Thread \ awake
      OBVIOUS
    <3>2. pc[t] = "app" => action[t] = "kNoAction"
      BY <1>0 DEF Calls, OneCall, InRound
    <3> QED
      BY <1>5, <3>1, <3>2 DEF Gathers
  <2> QED
    BY <1>2, <2>1, <2>2 DEF Marked
<1>6. CASE Acts(t) /\ Access(t) /\ ~Stays
  <2>1. /\ distance_sets_' = distance_sets_
        /\ \A d \in DsId : Exists(d) =>
              /\ Marked(d) => Marked(d)'
              /\ d \notin Linked(t) /\ ds[d].finalize # "kReuseFinalize"
                   => ds'[d].finalize # "kReuseFinalize"
        /\ pc'[t] \in {"start", "sample"}
        /\ pc'[t] = "start" /\ ll1'[t] >= 0
              => ll1'[t] = Len(distance_sets_[t]) /\ \E d \in Linked(t) : Marked(d)'
    BY <1>6, AccessEffect
  <2>2. CASE u = t
    <3>1. Linked(t)' = Linked(t)
      BY <2>1 DEF Linked
    <3> QED
      BY <2>1, <2>2, <3>1
  <2>3. CASE u # t
    <3>1. pc'[u] = pc[u] /\ action'[u] = action[u] /\ ll1'[u] = ll1[u]
      BY <1>6, <2>3 DEF Acts
    <3>2. \A d \in Linked(u) : d \in DsId /\ Exists(d) /\ d \notin Linked(t)
      BY <1>0, <2>3, LinkedExist
    <3> QED
      BY <1>2, <2>1, <3>1, <3>2
  <2> QED
    BY <2>2, <2>3
<1>7. CASE Acts(t) /\ NewSampledAddress(t)
  <2>1. /\ distance_sets_' = distance_sets_
        /\ \E c \in DsId : c \notin AllLinked /\ ~Exists(c) /\ \A e \in DsId \ {c} : ds'[e] = ds[e]
    BY <1>7, NewEffect
  <2>2. \A d \in Linked(u) : ds'[d] = ds[d]
    BY <1>0, <2>1, LinkedExist
  <2>3. CASE u = t
    <3>1. action'[t] = "kNewSampledAddress" /\ pc'[t] \in {"start", "prune"}
      BY <1>0, <1>7 DEF NewSampledAddress, Goto
    <3> QED
      BY <2>3, <3>1
  <2>4. CASE u # t
    <3>1. pc'[u] = pc[u] /\ action'[u] = action[u] /\ ll1'[u] = ll1[u]
      BY <1>7, <2>4 DEF Acts
    <3> QED
      BY <1>2, <2>1, <2>2, <3>1 DEF Marked
  <2> QED
    BY <2>3, <2>4
<1>8. CASE Acts(t) /\ Prune(t)
  <2>1. /\ distance_sets_' = distance_sets_
        /\ \A d \in DsId : Exists(d) =>
              /\ Marked(d) => Marked(d)'
              /\ ds[d].finalize # "kReuseFinalize" => ds'[d].finalize # "kReuseFinalize"
    BY <1>8, PruneEffect
  <2>2. \A d \in Linked(u) : d \in DsId /\ Exists(d)
    BY <1>0, LinkedExist
  <2>3. CASE u = t
    <3>1. action'[t] = "kNewSampledAddress" /\ pc'[t] = "start"
      BY <1>0, <1>8 DEF Prune, Goto, callVars, Calls, OneCall
    <3> QED
      BY <2>3, <3>1
  <2>4. CASE u # t
    <3>1. pc'[u] = pc[u] /\ action'[u] = action[u] /\ ll1'[u] = ll1[u]
      BY <1>8, <2>4 DEF Acts
    <3> QED
      BY <1>2, <2>1, <2>2, <3>1
  <2> QED
    BY <2>3, <2>4
<1>9. CASE Acts(t) /\ Leave(t)
  <2>1. /\ ds' = ds /\ ll1' = ll1 /\ pc[t] = "leave" /\ pc'[t] \in {"access", "checks", "app"}
        /\ pc'[t] = "checks" => action[t] = "kFinalize"
        /\ action'[t] = "kNoAction"
        /\ \A v \in Thread \ {t} : distance_sets_'[v] = distance_sets_[v]
        /\ newDS[t] = NoDs => distance_sets_' = distance_sets_
    BY <1>9, LeaveEffect
  <2>2. CASE u = t
    <3>1. action[t] = "kFinalize" => newDS[t] = NoDs
      BY <1>0 DEF Calls, OneCall
    <3>2. CASE pc'[t] = "checks"
      <4>1. distance_sets_' = distance_sets_ /\ Linked(t)' = Linked(t)
        BY <2>1, <3>1, <3>2 DEF Linked
      <4> QED
        BY <1>1, <2>1, <2>2, <3>2, <4>1
    <3>3. CASE pc'[t] # "checks"
      BY <2>1, <2>2, <3>3
    <3> QED
      BY <3>2, <3>3
  <2>3. CASE u # t
    <3>1. pc'[u] = pc[u] /\ action'[u] = action[u] /\ distance_sets_'[u] = distance_sets_[u]
      BY <1>9, <2>1, <2>3 DEF Acts
    <3> QED
      BY <1>2, <2>1, <3>1 DEF Marked
  <2> QED
    BY <2>2, <2>3
<1>10. CASE Ends(t, 1) /\ Stage1(t) /\ ~Stays
  <2>1. /\ distance_sets_' = distance_sets_
        /\ \A d \in DsId : Exists(d) => ds'[d].finalize = ds[d].finalize
    BY <1>10, FirstEffect
  <2>2. UNCHANGED <<action, ll1>> /\ t \in awake /\ stage_ = 1
    BY <1>10 DEF Ends
  <2>3. \A d \in Linked(u) : ds'[d].finalize = ds[d].finalize
    BY <1>0, <2>1, LinkedExist
  <2>4. \/ pc'[u] = pc[u]
        \/ u \in awake /\ pc'[u] \in {"wait", "work2"}
    BY <1>0, <1>10 DEF Ends, Beyond
  <2>5. u \in awake => pc[u] \in {"wait", "work1"}
    BY <2>2 DEF Stages, Work
  <2> QED
    BY <1>2, <2>1, <2>2, <2>3, <2>4, <2>5 DEF Marked
<1>11. CASE Ends(t, 2) /\ Stage2(t) /\ ~Stays
  <2>1. /\ \A d \in DsId : Exists(d)' <=> Exists(d) /\ d \notin DyingOf(t)
        /\ \A d \in DsId \ DyingOf(t) : Exists(d) => ds'[d].finalize = ds[d].finalize
        /\ Linked(u)' = Linked(u) \ DyingOf(t)
        /\ Len(distance_sets_'[u]) <= Len(distance_sets_[u])
        /\ Linked(u) \cap DyingOf(t) # {}
             => Len(distance_sets_'[u]) < Len(distance_sets_[u])
        /\ Linked(u) \cap DyingOf(t) = {}
             => Len(distance_sets_'[u]) = Len(distance_sets_[u])
    BY <1>11, SecondEffect
  <2>2. /\ UNCHANGED <<action, ll1>> /\ t \in awake /\ stage_ = 2
    BY <1>11 DEF Ends
  <2>3. \A d \in Linked(u) : d \in DsId /\ Exists(d)
    BY <1>0, LinkedExist
  <2>4. Len(distance_sets_'[u]) \in Nat
    <3>1. distance_sets_'[u] = Unlink(distance_sets_[u], DyingOf(t))
      <4>1. SecondStage(t, SyncedOf(t), ServedOf(t))
        BY <1>11, EndStep
      <4> QED
        BY <4>1 DEF SecondStage, DyingOf
    <3>2. Unlink(distance_sets_[u], DyingOf(t)) \in Seq(DsId)
      BY <1>0, Unlinked
    <3> QED
      BY <3>1, <3>2
  <2>5. ASSUME Len(distance_sets_[u]) < ll1[u]
               \/ (Len(distance_sets_[u]) = ll1[u] /\ \E d \in Linked(u) : Marked(d))
        PROVE  Len(distance_sets_'[u]) < ll1[u]
               \/ (Len(distance_sets_'[u]) = ll1[u] /\ \E d \in Linked(u)' : Marked(d)')
    <3>1. CASE Linked(u) \cap DyingOf(t) # {}
      <4>1. Len(distance_sets_[u]) <= ll1[u] /\ ll1[u] \in Int
        BY <1>0, <2>5
      <4> QED
        BY <1>0, <2>1, <2>4, <3>1, <4>1
    <3>2. CASE Linked(u) \cap DyingOf(t) = {}
      <4>1. \A d \in Linked(u) : d \in Linked(u)' /\ (Marked(d) => Marked(d)')
        BY <2>1, <2>3, <3>2 DEF Marked
      <4> QED
        BY <2>1, <2>5, <3>2, <4>1
    <3> QED
      BY <3>1, <3>2
  <2>6. CASE stage_' = 2 /\ pc' = [pc EXCEPT ![t] = "wait"]
    <3>1. u \in awake => pc[u] \in {"wait", "work2"}
      BY <2>2 DEF Stages, Work
    <3>2. u \notin awake => pc[u] \in {"unborn", "asleep"}
      BY AwakeType
    <3>3. pc'[u] \notin {"checks", "leave"}
      BY <1>0, <2>6, <3>1, <3>2
    <3>4. pc'[u] \in {"start", "wait", "work1", "work2"} => pc[u] \in {"start", "wait", "work1", "work2"}
      BY <1>0, <2>2, <2>6, <3>1, <3>2
    <3>5. Before(u)
      BY <1>1
    <3> QED
      BY <2>2, <2>5, <3>3, <3>4, <3>5
  <2>7. CASE stage_' = 0 /\ pc' = [v \in Thread |-> IF v \in awake THEN "leave" ELSE pc[v]]
    <3>1. \A d \in Linked(u)' : ~Marked(d)'
      <4>1. \A d \in DsId : Exists(d)' /\ Marked(d)' => \E v \in awake : pc[v] = "work2" /\ plan[v].finalize
                              /\ ds[d].owner \in ServedBy(v) /\ Exists(d) /\ Marked(d) /\ d \notin DyingOf(t)
        BY <2>1, <2>2 DEF Marks, Marked
      <4>2. \A v \in awake \ {t} : pc[v] = "wait"
        BY <1>11, <2>7 DEF Ends, Waiting
      <4>3. SUFFICES ASSUME NEW d \in Linked(u)', Marked(d)' PROVE FALSE
        OBVIOUS
      <4>4. d \in Linked(u) /\ d \notin DyingOf(t) /\ d \in DsId /\ Exists(d)'
        BY <2>1, <2>3, <4>3
      <4>5. plan[t].finalize /\ ds[d].owner \in ServedBy(t) /\ Exists(d) /\ Marked(d)
        BY <4>1, <4>2, <4>3, <4>4
      <4>6. d \in AllLinked
        BY <2>2, <4>4, <4>5, MarkedIsLinked
      <4> QED
        BY <1>11, <4>4, <4>5, <4>6, SecondEffect DEF SyncedOf
    <3>2. u \in awake => pc[u] \in {"wait", "work2"}
      BY <2>2 DEF Stages, Work
    <3>3. u \notin awake => pc[u] \in {"unborn", "asleep"}
      BY AwakeType
    <3>4. pc'[u] \notin {"checks", "start", "wait", "work1", "work2"}
      BY <2>7, <3>3
    <3>5. ASSUME pc'[u] = "leave", action'[u] = "kFinalize"
          PROVE  /\ ll1'[u] < 0 \/ Len(distance_sets_'[u]) < ll1'[u]
                 /\ \A d \in Linked(u)' : ds'[d].finalize # "kReuseFinalize"
      <4>1. \A d \in Linked(u)' : ds'[d].finalize # "kReuseFinalize"
        BY <3>1 DEF Marked
      <4>2. pc[u] \in {"wait", "work2"} /\ action[u] = "kFinalize" /\ ll1'[u] = ll1[u]
        BY <2>2, <2>7, <3>2, <3>3, <3>5
      <4>3. ll1[u] \in Int
        BY <1>0
      <4>4. ll1[u] >= 0 => Len(distance_sets_[u]) < ll1[u]
               \/ (Len(distance_sets_[u]) = ll1[u] /\ \E d \in Linked(u) : Marked(d))
        BY <1>1, <4>2
      <4>5. ll1[u] >= 0 => Len(distance_sets_'[u]) < ll1[u]
        BY <2>5, <3>1, <4>4
      <4> QED
        BY <4>1, <4>2, <4>3, <4>5
    <3> QED
      BY <3>4, <3>5
  <2> QED
    BY <1>11, <2>6, <2>7 DEF Ends, Beyond
<1> QED
  BY <1>3, <1>4, <1>5, <1>6, <1>7, <1>8, <1>9, <1>10, <1>11, TeamSteps

\* The write sets of a step that changes no watchable sample.
LEMMA MatchedKeeps ==
  ASSUME Matched, IInv, thread_count' = thread_count,
         \A i \in InQueue, d \in DsId : Len(write_sets_'[i][d]) = Len(write_sets_[i][d]),
         \A d \in DsId : d \in Watchable' <=> d \in Watchable,
         \A d \in DsId : d \in Watchable => ds'[d].owner = ds[d].owner
  PROVE  Matched'
<1>1. InQueue' = InQueue
  BY DEF InQueue
<1>2. ASSUME NEW i \in InQueue, NEW d \in DsId
      PROVE  Len(write_sets_'[i][d]) = IF d \in Watchable' /\ ds'[d].owner # i THEN 1 ELSE 0
  BY <1>2 DEF Matched
<1> QED
  BY <1>1, <1>2 DEF Matched

\* Watchable, a member.
LEMMA IsWatchable ==
  \A d \in DsId : d \in Watchable <=>
    \/ d \in AllLinked /\ ~ds[d].pulled
    \/ \E u \in Thread : PastStage1(u) /\ newDS[u] = d
  BY DEF Watchable

\* When nothing else changes than who is in which step between two rounds.
LEMMA WatchableKeeps ==
  ASSUME IInv, UNCHANGED <<ds, distance_sets_, newDS, thread_count>>,
         \A u \in Thread : newDS[u] # NoDs => (PastStage1(u)' <=> PastStage1(u))
  PROVE  \A d \in DsId : d \in Watchable' <=> d \in Watchable
<1>1. AllLinked' = AllLinked
  BY DEF AllLinked, Linked, InQueue
<1>2. \A d \in DsId : d # NoDs
  BY DEF DsId, NoDs
<1>3. \A d \in DsId : d \in Watchable' <=>
        \/ d \in AllLinked' /\ ~ds'[d].pulled
        \/ \E u \in Thread : PastStage1(u)' /\ newDS'[u] = d
  BY DEF Watchable
<1> QED
  BY <1>1, <1>2, <1>3, IsWatchable

\* What is to be taken out in the first stage was not taken out before.
LEMMA NotYetOut ==
  ASSUME IInv, Team, Stages, Pulled, NEW t \in Thread, pc[t] = "work1", NEW d \in AllLinked,
         Marked(d), ds[d].owner \in ServedBy(t)
  PROVE  ~ds[d].pulled
<1>1. t \in awake /\ stage_ = 1 /\ t \notin Waiting /\ Waiting \subseteq awake
  BY StageOf, AwakeType DEF InRound, Waiting
<1>2. SUFFICES ASSUME NEW u \in Waiting, ds[d].owner \in ServedBy(u) PROVE FALSE
  BY <1>1 DEF Pulled
<1>3. ds[d].owner \in InQueue
  BY AllLinkedExist DEF IInv
<1> QED
  BY <1>1, <1>2, <1>3, Served1

LEMMA MatchedStep ==
  ASSUME IInv, TeamInv, TeamIsFixed, NEW t \in Thread, ThreadStep(t)
  PROVE  Matched'
<1> USE DEF TeamInv
<1>0. /\ TypeOK /\ Samples /\ Calls /\ pc \in [Thread -> Control]
      /\ InQueue \subseteq Thread /\ newDS \in [Thread -> DsId \cup {NoDs}]
      /\ \A i \in Thread, d \in DsId : write_sets_[i][d] \in Seq(SUBSET Address)
      /\ \A d \in DsId : d # NoDs
  <2>1. TypeOK /\ Samples /\ Calls
    BY DEF IInv
  <2>2. pc \in [Thread -> Control] /\ InQueue \subseteq Thread
    BY <2>1, QueueType DEF TypeOK, ControlTypeOK
  <2>3. /\ newDS \in [Thread -> DsId \cup {NoDs}]
        /\ \A i \in Thread, d \in DsId : write_sets_[i][d] \in Seq(SUBSET Address)
    BY <2>1 DEF TypeOK, SampleTypeOK
  <2>4. \A d \in DsId : d # NoDs
    BY DEF DsId, NoDs
  <2> QED
    BY <2>1, <2>2, <2>3, <2>4
<1>00. \A d \in DsId : d \in Watchable' <=>
         \/ d \in AllLinked' /\ ~ds'[d].pulled
         \/ \E u \in Thread : PastStage1(u)' /\ newDS'[u] = d
  BY DEF Watchable
<1>1. CASE UNCHANGED teamVars
  <2>1. /\ UNCHANGED <<ds, distance_sets_, newDS, thread_count, write_sets_, pc, stage_>>
    BY <1>1 DEF teamVars, samplesOfTeam
  <2>2. \A u \in Thread : PastStage1(u)' <=> PastStage1(u)
    BY <2>1 DEF PastStage1
  <2> QED
    BY <2>1, <2>2, WatchableKeeps, MatchedKeeps
<1>2. CASE Strolls(t)
  <2>1. /\ UNCHANGED <<ds, distance_sets_, newDS, thread_count, write_sets_>>
        /\ stage_ = 0 /\ stage_' = 0
    BY <1>2 DEF Strolls, samplesOfTeam
  <2>2. \A u \in Thread : PastStage1(u)' <=> PastStage1(u)
    BY <1>2, <2>1 DEF PastStage1, Strolls, InRound
  <2> QED
    BY <2>1, <2>2, WatchableKeeps, MatchedKeeps
<1>3. CASE Gathers(t)
  <2>1. /\ UNCHANGED <<ds, distance_sets_, newDS, thread_count, write_sets_>>
        /\ stage_ = 0
    BY <1>3 DEF Gathers, samplesOfTeam
  <2>2. CASE stage_' = 0
    <3>1. \A u \in Thread : PastStage1(u)' <=> PastStage1(u)
      BY <1>3, <2>1, <2>2 DEF PastStage1, Gathers
    <3> QED
      BY <2>1, <3>1, WatchableKeeps, MatchedKeeps
  <2>3. CASE stage_' = 1
    <3>1. \A u \in Thread : ~PastStage1(u)'
      BY <1>3, <2>3 DEF PastStage1, Gathers
    <3>2. \A u \in Thread : ~PastStage1(u)
      <4>1. \A u \in Thread : u \in awake <=> pc[u] \notin {"unborn", "asleep"}
        BY AwakeType
      <4>2. \A u \in Thread : pc[u] \in {"wait", "start", "app", "unborn", "asleep"}
        BY <1>3, <2>3, <4>1 DEF Gathers
      <4> QED
        BY <2>1, <4>2 DEF PastStage1
    <3> QED
      BY <2>1, <3>1, <3>2, WatchableKeeps, MatchedKeeps
  <2> QED
    BY <1>3, <2>2, <2>3 DEF Gathers
<1>4. CASE Acts(t) /\ ((Access(t) /\ ~Stays) \/ NewSampledAddress(t) \/ Prune(t) \/ Leave(t))
  <2>1. /\ stage_ = 0 /\ stage_' = 0 /\ UNCHANGED thread_count /\ InQueue' = InQueue
        /\ pc'[t] # "leave" /\ \A u \in Thread \ {t} : pc'[u] = pc[u]
    BY <1>4 DEF Acts, InQueue
  <2>2. /\ \A u \in Thread : /\ PastStage1(u) <=> pc[u] = "leave"
                             /\ PastStage1(u)' <=> pc'[u] = "leave"
    <3>1. \A u \in Thread : pc[u] # "work2" /\ pc'[u] # "work2"
      BY <1>4, <2>1 DEF Stages, Acts
    <3> QED
      BY <2>1, <3>1 DEF PastStage1
  <2>3. \A d \in AllLinked : d \in DsId /\ Exists(d)
    BY <1>0, AllLinkedExist
  <2>8. \A u \in Thread : newDS[u] # NoDs => newDS[u] \in DsId /\ Exists(newDS[u])
    BY NewApart
  <2>9. \A d \in DsId : d \in Watchable => Exists(d)
    BY <1>0, <2>3, <2>8, IsWatchable
  <2>4. CASE Access(t) /\ ~Stays
    <3>1. /\ pc[t] = "access" /\ UNCHANGED <<distance_sets_, newDS>>
          /\ \A i \in Thread, d \in DsId : Len(write_sets_'[i][d]) = Len(write_sets_[i][d])
          /\ \A d \in DsId : Exists(d) => ds'[d].owner = ds[d].owner /\ ds'[d].pulled = ds[d].pulled
      BY <2>4, AccessEffect
    <3>2. AllLinked' = AllLinked
      BY <2>1, <3>1 DEF AllLinked, Linked
    <3>3. \A u \in Thread : PastStage1(u)' <=> PastStage1(u)
      BY <2>1, <2>2, <3>1
    <3>4. \A d \in DsId : d \in Watchable' <=> d \in Watchable
      BY <1>00, <2>3, <3>1, <3>2, <3>3, IsWatchable
    <3> QED
      BY <1>0, <2>1, <2>9, <3>1, <3>4, MatchedKeeps
  <2>5. CASE Prune(t)
    <3>1. /\ pc[t] = "prune" /\ UNCHANGED <<distance_sets_, newDS, write_sets_>>
          /\ \A d \in DsId : Exists(d) => ds'[d].owner = ds[d].owner /\ ds'[d].pulled = ds[d].pulled
      BY <2>5, PruneEffect DEF Prune
    <3>2. AllLinked' = AllLinked
      BY <2>1, <3>1 DEF AllLinked, Linked
    <3>3. \A u \in Thread : PastStage1(u)' <=> PastStage1(u)
      BY <2>1, <2>2, <3>1
    <3>4. \A d \in DsId : d \in Watchable' <=> d \in Watchable
      BY <1>00, <2>3, <3>1, <3>2, <3>3, IsWatchable
    <3> QED
      BY <1>0, <2>1, <2>9, <3>1, <3>4, MatchedKeeps
  <2>6. CASE NewSampledAddress(t)
    <3>1. PICK c \in DsId : /\ ~Exists(c) /\ c \notin AllLinked
                            /\ \A u \in Thread : newDS[u] # c
                            /\ newDS[t] = NoDs
                            /\ newDS' = [newDS EXCEPT ![t] = c]
                            /\ \A d \in DsId \ {c} : ds'[d] = ds[d]
      BY <2>6, NewEffect
    <3>2. pc[t] = "sample" /\ UNCHANGED <<distance_sets_, write_sets_>>
      BY <2>6, NewEffect DEF NewSampledAddress
    <3>3. AllLinked' = AllLinked
      BY <2>1, <3>2 DEF AllLinked, Linked
    <3>4. \A u \in Thread : PastStage1(u)' <=> PastStage1(u) /\ u # t
      BY <2>1, <2>2, <3>2
    <3>5. \A u \in Thread \ {t} : newDS'[u] = newDS[u]
      BY <1>0, <3>1
    <3>6. \A u \in Thread : PastStage1(u) => u # t
      BY <2>2, <3>2
    <3>7. \A d \in DsId : d \in Watchable' <=> d \in Watchable
      BY <1>00, <2>3, <3>1, <3>3, <3>4, <3>5, <3>6, IsWatchable
    <3>8. \A d \in DsId : d \in Watchable => d # c
      BY <2>9, <3>1
    <3> QED
      BY <1>0, <2>1, <3>1, <3>2, <3>7, <3>8, MatchedKeeps
  <2>7. CASE Leave(t)
    <3>1. /\ ds' = ds /\ write_sets_' = write_sets_
          /\ newDS'[t] = NoDs /\ pc[t] = "leave"
          /\ \A u \in Thread \ {t} : /\ newDS'[u] = newDS[u]
                                     /\ Linked(u)' = Linked(u)
          /\ newDS[t] = NoDs => Linked(t)' = Linked(t)
          /\ newDS[t] # NoDs => Linked(t)' = Linked(t) \cup {newDS[t]}
      BY <2>7, LeaveEffect DEF Linked
    <3>2. PastStage1(t) /\ ~PastStage1(t)' /\ \A u \in Thread \ {t} : PastStage1(u)' <=> PastStage1(u)
      BY <2>1, <2>2, <3>1
    <3>3. t \in InQueue
      BY <1>4, AwakeType DEF Acts
    <3>4. \A d \in DsId : d \in AllLinked' <=> d \in AllLinked \/ d = newDS[t]
      <4>1. SUFFICES ASSUME NEW d \in DsId
                     PROVE  d \in AllLinked' <=> d \in AllLinked \/ d = newDS[t]
        OBVIOUS
      <4>2. d \in AllLinked' <=> \E u \in InQueue : d \in Linked(u)'
        BY <2>1 DEF AllLinked
      <4>3. d \in AllLinked <=> \E u \in InQueue : d \in Linked(u)
        BY DEF AllLinked
      <4>4. \A u \in InQueue \ {t} : d \in Linked(u)' <=> d \in Linked(u)
        BY <1>0, <3>1
      <4>5. d \in Linked(t)' <=> d \in Linked(t) \/ d = newDS[t]
        BY <1>0, <3>1
      <4> QED
        BY <3>3, <4>2, <4>3, <4>4, <4>5
    <3>5. newDS[t] # NoDs => ~ds[newDS[t]].pulled
      BY DEF NewNotPulled
    <3>6. \A d \in DsId : d \in Watchable' <=> d \in Watchable
      BY <1>0, <1>00, <3>1, <3>2, <3>4, <3>5, IsWatchable
    <3> QED
      BY <1>0, <2>1, <3>1, <3>6, MatchedKeeps
  <2> QED
    BY <1>4, <2>4, <2>5, <2>6, <2>7
<1>5. CASE Ends(t, 1) /\ Stage1(t) /\ ~Stays
  <2> DEFINE R == Removed(t, TodoOf(t))
  <2>1. /\ UNCHANGED <<distance_sets_, newDS>>
        /\ \A d \in DsId : Exists(d) => ds'[d].owner = ds[d].owner
        /\ \A d \in DsId : d \in R <=>
             d \in AllLinked /\ Marked(d) /\ ds[d].owner \in ServedBy(t)
        /\ \A d \in DsId : Exists(d) => ds'[d].pulled =
             IF d \in R THEN thread_count # 1 ELSE ds[d].pulled
        /\ \A i \in Thread, d \in DsId :
              write_sets_'[i][d] = IF i \in InQueue /\ d \in Pushed(t, i)
                                     THEN Cons({}, Cut(t, TodoOf(t), i, d))
                                     ELSE Cut(t, TodoOf(t), i, d)
    BY <1>5, FirstEffect
  <2>2. /\ stage_ = 1 /\ UNCHANGED <<awake, thread_count, action>> /\ t \in awake
        /\ awake \subseteq InQueue /\ awake \subseteq Thread /\ t \in InQueue
        /\ \A u \in Thread : u \in awake <=> pc[u] \notin {"unborn", "asleep"}
        /\ \A u \in awake : pc[u] = "wait" \/ pc[u] = "work1"
        /\ pc[t] = "work1"
    BY <1>5, AwakeType DEF Ends, Stages, Work
  <2> HIDE DEF R
  <2>3. AllLinked' = AllLinked /\ InQueue' = InQueue
    BY <2>1, <2>2 DEF AllLinked, Linked, InQueue
  <2>4. \A u \in Thread : PastStage1(u) <=> u \in Waiting
    BY <2>2 DEF PastStage1, Waiting
  <2>5. \A u \in Thread : PastStage1(u)' <=> u \in Waiting \cup {t}
    <3>1. CASE stage_' = 1 /\ pc' = [pc EXCEPT ![t] = "wait"]
      BY <1>0, <2>2, <3>1 DEF PastStage1, Waiting
    <3>2. CASE /\ stage_' = 2 /\ Waiting \cup {t} = awake
               /\ pc' = [u \in Thread |-> IF u \in awake THEN "work2" ELSE pc[u]]
      BY <1>0, <2>2, <3>2 DEF PastStage1
    <3> QED
      BY <1>5, <3>1, <3>2 DEF Ends, Beyond
  <2>6. t \notin Waiting
    BY <2>2 DEF Waiting
  <2>7. \A d \in R : d \in DsId /\ d \in AllLinked /\ Exists(d) /\ ds[d].owner \in InQueue
    <3>1. R \subseteq AllLinked
      BY <1>0, RemovedType DEF R
    <3> QED
      BY <1>0, <3>1, AllLinkedExist
  <2>8. \A d \in R : ~ds[d].pulled
    BY <2>1, <2>2, <2>7, NotYetOut
  <2>9. \A d \in R : thread_count # 1 => d \in Watchable /\ d \notin Watchable'
    <3>1. SUFFICES ASSUME NEW d \in R, thread_count # 1
                   PROVE  d \in Watchable /\ d \notin Watchable'
      OBVIOUS
    <3>2. \A u \in Thread : newDS[u] # d
      BY <1>0, <2>7, NewApart
    <3>3. d \in DsId /\ d \in AllLinked /\ Exists(d)
      BY <2>7
    <3>4. d \in Watchable
      BY <2>8, <3>3, IsWatchable
    <3>5. ds'[d].pulled
      BY <2>1, <3>1, <3>3
    <3> QED
      BY <1>00, <2>1, <3>2, <3>3, <3>4, <3>5
  <2>10. \A d \in DsId : d \notin R /\ d # newDS[t] => (d \in Watchable' <=> d \in Watchable)
    <3>1. \A d \in AllLinked : Exists(d)
      BY <1>0, AllLinkedExist
    <3> QED
      BY <1>00, <2>1, <2>3, <2>4, <2>5, <2>6, <3>1, IsWatchable
  <2>11. newDS[t] # NoDs => /\ newDS[t] \in DsId /\ newDS[t] \notin R /\ ds[newDS[t]].owner = t
                            /\ Exists(newDS[t])
                            /\ newDS[t] \notin Watchable /\ newDS[t] \in Watchable'
    <3>1. SUFFICES ASSUME newDS[t] # NoDs
                   PROVE  /\ newDS[t] \in DsId /\ newDS[t] \notin R /\ ds[newDS[t]].owner = t
                          /\ Exists(newDS[t])
                          /\ newDS[t] \notin Watchable /\ newDS[t] \in Watchable'
      OBVIOUS
    <3>2. /\ newDS[t] \in DsId /\ ds[newDS[t]].owner = t /\ Exists(newDS[t])
          /\ newDS[t] \notin AllLinked /\ \A u \in Thread \ {t} : newDS[u] # newDS[t]
      BY <3>1, NewApart
    <3>3. newDS[t] \notin R
      BY <2>7, <3>2
    <3>4. newDS[t] \notin Watchable
      BY <2>4, <2>6, <3>2, IsWatchable
    <3>5. newDS[t] \in Watchable'
      BY <1>00, <2>1, <2>5, <3>2
    <3> QED
      BY <3>2, <3>3, <3>4, <3>5
  <2>12. action[t] = "kNewSampledAddress" <=> newDS[t] # NoDs
    BY <1>0 DEF Calls, OneCall
  <2>13. ASSUME NEW i \in InQueue, NEW d \in DsId
         PROVE  Len(write_sets_'[i][d]) = IF d \in Watchable' /\ ds'[d].owner # i THEN 1 ELSE 0
    <3>1. /\ i \in Thread /\ write_sets_[i][d] \in Seq(SUBSET Address)
          /\ Len(write_sets_[i][d]) = IF d \in Watchable /\ ds[d].owner # i THEN 1 ELSE 0
      BY <1>0, <2>13 DEF Matched
    <3>2. d \in Pushed(t, i) <=> newDS[t] # NoDs /\ d = newDS[t] /\ i # t
      BY <2>12 DEF Pushed
    <3>3. CASE d \in R
      <4>1. d # newDS[t] /\ ds'[d].owner = ds[d].owner
        BY <1>0, <2>1, <2>7, <2>11, <3>3
      <4>2. write_sets_'[i][d] = IF i # ds[d].owner THEN Tail(write_sets_[i][d]) ELSE write_sets_[i][d]
        BY <2>1, <2>13, <3>1, <3>2, <3>3, <4>1 DEF Cut, Others, R
      <4>3. CASE i = ds[d].owner
        BY <3>1, <4>1, <4>2, <4>3
      <4>4. CASE i # ds[d].owner
        <5>1. thread_count # 1
          BY <1>0, <2>7, <2>13, <3>3, <4>4 DEF InQueue
        <5>2. Len(write_sets_[i][d]) = 1 /\ d \notin Watchable'
          BY <2>9, <3>1, <3>3, <4>4, <5>1
        <5>3. Len(Tail(write_sets_[i][d])) = 0
          BY <3>1, <5>2
        <5> QED
          BY <4>2, <4>4, <5>2, <5>3
      <4> QED
        BY <4>3, <4>4
    <3>4. CASE newDS[t] # NoDs /\ d = newDS[t]
      <4>1. /\ d \notin R /\ ds'[d].owner = t /\ d \notin Watchable /\ d \in Watchable'
        BY <2>1, <2>11, <3>4
      <4>2. write_sets_'[i][d] = IF i # t THEN Cons({}, write_sets_[i][d]) ELSE write_sets_[i][d]
        BY <2>1, <2>13, <3>1, <3>2, <3>4, <4>1 DEF Cut, R
      <4>3. Len(write_sets_[i][d]) = 0
        BY <3>1, <4>1
      <4>5. Len(Cons({}, write_sets_[i][d])) = Len(write_sets_[i][d]) + 1
        BY <3>1, PrependOne
      <4>6. CASE i = t
        BY <4>1, <4>2, <4>3, <4>6
      <4>7. CASE i # t
        <5>1. Len(write_sets_'[i][d]) = 1
          BY <4>2, <4>3, <4>5, <4>7
        <5> QED
          BY <4>1, <4>7, <5>1
      <4> QED
        BY <4>6, <4>7
    <3>5. CASE d \notin R /\ d # newDS[t]
      <4>1. write_sets_'[i][d] = write_sets_[i][d]
        BY <2>1, <2>13, <3>1, <3>2, <3>5 DEF Cut, R
      <4>2. d \in Watchable' <=> d \in Watchable
        BY <2>10, <3>5
      <4>3. d \in Watchable => Exists(d)
        <5>1. \A u \in Thread : newDS[u] # NoDs => newDS[u] \in DsId /\ Exists(newDS[u])
          BY NewApart
        <5>2. d \in AllLinked => Exists(d)
          BY <1>0, AllLinkedExist
        <5> QED
          BY <1>0, <5>1, <5>2, IsWatchable
      <4> QED
        BY <2>1, <3>1, <4>1, <4>2, <4>3
    <3> QED
      BY <1>0, <3>3, <3>4, <3>5
  <2> QED
    BY <2>3, <2>13 DEF Matched
<1>6. CASE Ends(t, 2) /\ Stage2(t) /\ ~Stays
  <2>1. /\ newDS' = newDS
        /\ \A d \in DsId : d \in DyingOf(t) <=>
              d \in AllLinked /\ Marked(d) /\ ds[d].owner \in ServedOf(t)
        /\ \A d \in DsId \ DyingOf(t) : Exists(d) =>
              ds'[d].owner = ds[d].owner /\ ds'[d].pulled = ds[d].pulled
        /\ AllLinked' = AllLinked \ DyingOf(t)
        /\ \A i \in Thread, d \in DsId : Len(write_sets_'[i][d]) = Len(write_sets_[i][d])
    BY <1>6, SecondEffect
  <2>2. /\ stage_ = 2 /\ UNCHANGED <<awake, thread_count>> /\ t \in awake
        /\ awake \subseteq InQueue /\ awake \subseteq Thread
        /\ \A u \in Thread : u \in awake <=> pc[u] \notin {"unborn", "asleep"}
        /\ \A u \in awake : pc[u] = "wait" \/ pc[u] = "work2"
    BY <1>6, AwakeType DEF Ends, Stages, Work
  <2>3. InQueue' = InQueue
    BY <2>2 DEF InQueue
  <2>4. \A u \in Thread : PastStage1(u) <=> u \in awake
    BY <2>2 DEF PastStage1
  <2>5. \A u \in Thread : PastStage1(u)' <=> u \in awake
    <3>1. CASE stage_' = 2 /\ pc' = [pc EXCEPT ![t] = "wait"]
      BY <1>0, <2>2, <3>1 DEF PastStage1
    <3>2. CASE stage_' = 0 /\ pc' = [u \in Thread |-> IF u \in awake THEN "leave" ELSE pc[u]]
      BY <1>0, <2>2, <3>2 DEF PastStage1
    <3> QED
      BY <1>6, <3>1, <3>2 DEF Ends, Beyond
  <2>6. \A d \in DyingOf(t), u \in Thread : newDS[u] # d
    <3>1. DyingOf(t) \subseteq AllLinked /\ AllLinked \subseteq DsId
      BY <1>0, DyingType
    <3> QED
      BY <1>0, <3>1, NewApart
  <2>7. ASSUME NEW i \in InQueue, NEW d \in DsId
        PROVE  Len(write_sets_'[i][d]) = IF d \in Watchable' /\ ds'[d].owner # i THEN 1 ELSE 0
    <3>1. /\ i \in Thread
          /\ Len(write_sets_'[i][d]) = IF d \in Watchable /\ ds[d].owner # i THEN 1 ELSE 0
      BY <1>0, <2>1, <2>7 DEF Matched
    <3>2. CASE d \in DyingOf(t)
      <4>1. d \notin Watchable'
        BY <1>00, <2>1, <2>6, <3>2
      <4>2. ~(d \in Watchable /\ ds[d].owner # i)
        <5>1. SUFFICES ASSUME ds[d].owner # i PROVE d \notin Watchable
          OBVIOUS
        <5>2. d \in AllLinked /\ Marked(d) /\ ds[d].owner \in InQueue
          BY <1>0, <2>1, <3>2, AllLinkedExist
        <5>3. thread_count # 1
          BY <1>0, <2>7, <5>1, <5>2 DEF InQueue
        <5>4. ds[d].pulled
          BY <2>2, <5>2, <5>3 DEF Pulled
        <5> QED
          BY <2>6, <3>2, <5>4, IsWatchable
      <4> QED
        BY <3>1, <4>1, <4>2
    <3>3. CASE d \notin DyingOf(t)
      <4>1. d \in AllLinked => Exists(d)
        BY <1>0, AllLinkedExist
      <4>2. d \in Watchable' <=> d \in Watchable
        BY <1>00, <2>1, <2>4, <2>5, <3>3, <4>1, IsWatchable
      <4>3. d \in Watchable => Exists(d)
        <5>1. \A u \in Thread : newDS[u] # NoDs => newDS[u] \in DsId /\ Exists(newDS[u])
          BY NewApart
        <5> QED
          BY <1>0, <4>1, <5>1, IsWatchable
      <4> QED
        BY <2>1, <3>1, <3>3, <4>2, <4>3
    <3> QED
      BY <3>2, <3>3
  <2> QED
    BY <2>3, <2>7 DEF Matched
<1> QED
  BY <1>1, <1>2, <1>3, <1>4, <1>5, <1>6, TeamSteps

-----------------------------------------------------------------------------
(* The invariant of a fixed team                                           *)

LEMMA TeamInit ==
  ASSUME Init, TeamIsFixed
  PROVE  TeamInv
<1>1. IInv
  BY InitHolds
<1>2. /\ setup.founders = setup.threads /\ setup.threads \in 0 .. ThreadCount
      /\ thread_count = setup.founders
      /\ awake = 0 .. setup.founders - 1
      /\ pc = [t \in Thread |-> IF t < setup.founders THEN "app" ELSE "unborn"]
      /\ new_thread_ = [t \in Thread |-> t >= setup.founders]
      /\ stage_ = 0
  BY <1>1, SetupType DEF Init, TeamIsFixed, IInv, TypeOK, ControlTypeOK
<1>3. Waiting = {} /\ \A t \in Thread : pc[t] \in {"app", "unborn"}
  BY <1>2 DEF Waiting
<1>4. Team
  <2>1. \A t \in InQueue : t \in Thread /\ t < setup.founders
    BY <1>2, SamplerAssumption DEF InQueue, Thread
  <2>2. \A t \in InQueue : ~new_thread_[t]
    <3>1. SUFFICES ASSUME NEW t \in InQueue PROVE ~new_thread_[t]
      OBVIOUS
    <3>2. t \in Thread /\ t < setup.founders /\ t \in Int /\ setup.founders \in Int
      BY <1>2, <2>1 DEF Thread
    <3>3. ~(t >= setup.founders)
      BY <3>2
    <3>4. new_thread_[t] = (t >= setup.founders)
      BY <1>2, <3>2
    <3> QED
      BY <3>3, <3>4
  <2>3. \A t \in Thread : t \in awake <=> t < setup.founders
    BY <1>2, SamplerAssumption DEF Thread
  <2>4. awake \subseteq Thread
    BY <1>2, SamplerAssumption DEF Thread
  <2>5. awake = AwakeThreads
    BY <1>2, <2>3, <2>4 DEF AwakeThreads
  <2> QED
    BY <1>2, <1>3, <2>2, <2>5 DEF Team
<1>5. Stages
  BY <1>2, <1>3 DEF Stages
<1>6. Plans
  BY <1>2, <1>3 DEF Plans, Init
<1>7. \A d \in DsId : ~Exists(d)
  BY DEF Init, Exists, FinalizeStatus
<1>8. \A t \in Thread : newDS[t] = NoDs /\ Linked(t) = {} /\ distance_sets_[t] = <<>>
  <2>1. \A t \in Thread : newDS[t] = NoDs /\ distance_sets_[t] = <<>>
    BY DEF Init
  <2>2. <<>> \in Seq(DsId) /\ Len(<<>>) = 0
    OBVIOUS
  <2>3. ToSet(<<>>) = {}
    BY <2>2, ListElements
  <2> QED
    BY <2>1, <2>3 DEF Linked
<1>9. AllLinked = {}
  BY <1>1, <1>8, QueueType DEF AllLinked, IInv, TypeOK
<1>10. NewIsActive /\ NewNotPulled
  BY <1>8 DEF NewIsActive, NewNotPulled
<1>11. Marks
  BY <1>7 DEF Marks
<1>12. Announce
  BY <1>3 DEF Announce, Init
<1>13. Pulled
  BY <1>9 DEF Pulled
<1>14. Lengths
  BY <1>3 DEF Lengths
<1>15. Matched
  <2>1. \A d \in DsId : d \notin Watchable
    BY <1>2, <1>3, <1>9 DEF Watchable, PastStage1
  <2>2. InQueue \subseteq Thread
    BY <1>1, QueueType DEF IInv, TypeOK
  <2>3. \A i \in InQueue, d \in DsId : Len(write_sets_[i][d]) = 0
    BY <2>2 DEF Init
  <2> QED
    BY <2>1, <2>3 DEF Matched
<1> QED
  BY <1>4, <1>5, <1>6, <1>10, <1>11, <1>12, <1>13, <1>14, <1>15 DEF TeamInv

\* What the invariant of a team is about.
teamInvVars == <<setup, teamVars>>

LEMMA TeamStutter ==
  ASSUME TeamInv, UNCHANGED teamInvVars
  PROVE  TeamInv'
<1>1. UNCHANGED <<setup, stage_, threads_, awake, thread_count, new_thread_, pc, action, plan, ll1,
                  synchronize, finalize_needed, merge_needed, ds, distance_sets_,
                  oldest_distance_set_, write_sets_, newDS>>
  BY DEF teamInvVars, teamVars, flagVars, samplesOfTeam
<1>2. /\ Waiting' = Waiting /\ Work' = Work /\ AwakeThreads' = AwakeThreads
      /\ InQueue' = InQueue /\ AllLinked' = AllLinked /\ Watchable' = Watchable
  BY <1>1 DEF Waiting, Work, AwakeThreads, InQueue, AllLinked, Linked, Watchable, PastStage1
<1>3. Team' /\ Stages' /\ NewIsActive' /\ NewNotPulled' /\ Announce' /\ Lengths' /\ Matched'
  BY <1>1, <1>2 DEF TeamInv, Team, Stages, NewIsActive, NewNotPulled, Announce, Lengths,
                    Matched, Linked, Marked
<1>4. Plans'
  BY <1>1, <1>2 DEF TeamInv, Plans, PlanOf
<1>5. Marks' /\ Pulled'
  BY <1>1, <1>2 DEF TeamInv, Marks, Pulled, Exists, Marked, ServedBy
<1> QED
  BY <1>3, <1>4, <1>5 DEF TeamInv

LEMMA TeamStepKeeps ==
  ASSUME IInv, TeamIsFixed => TeamInv, [Next]_vars
  PROVE  (TeamIsFixed => TeamInv)'
<1>1. SUFFICES ASSUME TeamIsFixed' PROVE TeamInv'
  OBVIOUS
<1>2. setup' = setup
  BY DEF Next, Running, vars
<1>3. TeamIsFixed /\ TeamInv
  BY <1>1, <1>2 DEF TeamIsFixed
<1>4. ASSUME NEW t \in Thread, ThreadStep(t) PROVE TeamInv'
  BY <1>2, <1>3, <1>4, TeamStep, StagesStep, PlansStep, NewIsActiveStep, MarksStep,
     AnnounceStep, PulledStep, NewNotPulledStep, LengthsStep, MatchedStep DEF TeamInv
<1>5. CASE DumpStatsPython
  <2>1. UNCHANGED teamInvVars
    BY <1>2, <1>5 DEF DumpStatsPython, teamInvVars, teamVars, flagVars, samplesOfTeam,
                      barrierVars, globalVars, listVars, setVars, callVars
  <2> QED
    BY <1>3, <2>1, TeamStutter
<1>6. CASE UNCHANGED vars
  <2>1. UNCHANGED teamInvVars
    BY <1>6 DEF vars, teamInvVars, teamVars, flagVars, samplesOfTeam,
                barrierVars, globalVars, listVars, setVars, callVars
  <2> QED
    BY <1>3, <2>1, TeamStutter
<1> QED
  BY <1>4, <1>5, <1>6 DEF Next

\* The inductive invariant, for a team of any size: whoever sleeps, wakes or works for
\* whom, the flags, plans, marks, write sets and lists agree.
THEOREM TeamInvariance == Spec => [](IInv /\ (TeamIsFixed => TeamInv))
<1>1. Init => IInv /\ (TeamIsFixed => TeamInv)
  BY InitHolds, TeamInit
<1>2. IInv /\ (TeamIsFixed => TeamInv) /\ [Next]_vars => (IInv /\ (TeamIsFixed => TeamInv))'
  BY StepKeeps, TeamStepKeeps
<1> QED
  BY <1>1, <1>2, PTL DEF Spec

\* Every marked sample is called out until a round takes it: the flags are never reset
\* with a mark left behind.
THEOREM MarksAreAlwaysAnnounced == Spec => []MarksAreAnnounced
<1>1. IInv /\ (TeamIsFixed => TeamInv) => MarksAreAnnounced
  <2>1. SUFFICES ASSUME IInv, TeamInv, stage_ = 0, NEW d \in AllLinked, Marked(d)
                 PROVE  finalize_needed /\ synchronize
    BY DEF MarksAreAnnounced
  <2>2. d \in DsId /\ Exists(d)
    BY <2>1, AllLinkedExist DEF IInv
  <2> QED
    BY <2>1, <2>2 DEF TeamInv, Marks
<1> QED
  BY <1>1, TeamInvariance, PTL

\* Every thread but the owner holds exactly one write set for each sample that is in
\* place, and none for a sample that was taken out.
THEOREM WriteSetsAlwaysMatch == Spec => []WriteSetsMatch
<1>1. (TeamIsFixed => TeamInv) => WriteSetsMatch
  BY DEF WriteSetsMatch, TeamInv, Matched
<1> QED
  BY <1>1, TeamInvariance, PTL

-----------------------------------------------------------------------------
(* Nothing is thrown                                                       *)

\* Write sets that are in place.
LEMMA HasWriteSets ==
  ASSUME IInv, Matched, NEW d \in AllLinked, ~ds[d].pulled
  PROVE  ~Missing(d)
<1>1. d \in DsId /\ InQueue \subseteq Thread
  BY AllLinkedExist, QueueType DEF IInv, TypeOK
<1>2. d \in Watchable
  BY <1>1, IsWatchable
<1>3. SUFFICES ASSUME NEW i \in Others(d), write_sets_[i][d] = <<>> PROVE FALSE
  BY DEF Missing
<1>4. Len(write_sets_[i][d]) = 1
  BY <1>1, <1>2 DEF Matched, Others
<1> QED
  BY <1>3, <1>4

\* An Access meets no sample that is gone.
LEMMA HitExists ==
  ASSUME IInv, Matched, NEW t \in InQueue, NEW w, NEW d \in Watched(t, w)
  PROVE  Exists(d)
<1>1. d \in DsId /\ write_sets_[t][d] # <<>> /\ t \in Thread
  BY QueueType DEF Watched, IInv, TypeOK
<1>2. write_sets_[t][d] \in Seq(SUBSET Address)
  BY <1>1 DEF IInv, TypeOK, SampleTypeOK
<1>3. Len(write_sets_[t][d]) # 0
  BY <1>1, <1>2
<1>4. d \in Watchable
  BY <1>1, <1>3 DEF Matched
<1>5. d \in AllLinked => Exists(d)
  BY AllLinkedExist DEF IInv
<1>6. \A u \in Thread : newDS[u] = d => Exists(d)
  <2>1. d # NoDs
    BY <1>1 DEF DsId, NoDs
  <2> QED
    BY <2>1, NewApart
<1> QED
  BY <1>1, <1>4, <1>5, <1>6, IsWatchable

\* The checks of the first stage, but for the count of active samples.
LEMMA FirstIsSafe ==
  ASSUME IInv, TeamInv, NEW t \in Thread, pc[t] = "work1"
  PROVE  /\ ~(Synced /\ AdjacentFails(t, awake, thread_count, threads_))
         /\ \A d \in Removed(t, TodoOf(t)) : ~Missing(d)
         /\ ~(action[t] = "kFinalize" /\ ~finalize_needed)
         /\ stage_ = 1
<1> USE DEF TeamInv
<1>1. stage_ = 1 /\ t \in awake
  BY StageOf DEF InRound
<1>2. ~AdjacentFails(t, awake, thread_count, threads_)
  <2>1. SUFFICES ASSUME Gap(t, awake, thread_count) = thread_count, threads_ # 1 PROVE FALSE
    BY DEF AdjacentFails
  <2>2. thread_count \in Nat \ {0} /\ awake \in SUBSET (0 .. thread_count - 1)
    <3>1. awake \subseteq 0 .. thread_count - 1
      BY AwakeType DEF InQueue
    <3> QED
      BY <1>1, <3>1, SamplerAssumption DEF IInv, TypeOK, ControlTypeOK
  <2>3. awake = {t}
    BY <1>1, <2>1, <2>2, AloneIsAlone
  <2>4. threads_ = Cardinality(awake)
    BY <1>1 DEF Stages
  <2> QED
    BY <2>1, <2>3, <2>4, FS_Singleton
<1>3. ASSUME NEW d \in Removed(t, TodoOf(t)) PROVE ~Missing(d)
  <2>1. d \in AllLinked
    BY RemovedType DEF IInv
  <2>2. d \in DsId
    BY <2>1, AllLinkedExist DEF IInv
  <2>3. Marked(d) /\ ds[d].owner \in ServedBy(t)
    BY <1>3, <2>2, RemovedIs
  <2>4. ~ds[d].pulled
    BY <2>1, <2>3, NotYetOut
  <2> QED
    BY <2>1, <2>4, HasWriteSets
<1>4. ~(action[t] = "kFinalize" /\ ~finalize_needed)
  BY <1>1 DEF Announce
<1> QED
  BY <1>1, <1>2, <1>3, <1>4

\* The checks of the second stage.
LEMMA SecondIsSafe ==
  ASSUME IInv, TeamInv, NEW t \in Thread, pc[t] = "work2"
  PROVE  /\ \A d \in DyingOf(t) : ds[d].pulled \/ thread_count = 1
         /\ \A u \in ServedOf(t) : oldest_distance_set_[u] \in DyingOf(t)
                                     => oldest_distance_set_[u] = Last(distance_sets_[u])
         /\ \A d \in LinkedOf(ServedOf(t)) \ DyingOf(t) : ~Missing(d)
         /\ stage_ = 2
<1> USE DEF TeamInv
<1>1. stage_ = 2
  BY StageOf
<1>2. /\ DyingOf(t) \subseteq AllLinked /\ DyingOf(t) \subseteq DsId
      /\ LinkedOf(ServedOf(t)) \subseteq AllLinked
      /\ \A d \in LinkedOf(ServedOf(t)) : d \in DyingOf(t) <=> Marked(d)
      /\ \A d \in DyingOf(t) : Marked(d)
  BY DyingType DEF IInv, DyingOf
<1>3. \A d \in DyingOf(t) : ds[d].pulled \/ thread_count = 1
  BY <1>1, <1>2 DEF Pulled
<1>4. ASSUME NEW u \in ServedOf(t), oldest_distance_set_[u] \in DyingOf(t)
      PROVE  oldest_distance_set_[u] = Last(distance_sets_[u])
  <2>1. u \in Thread
    BY ServedInQueue DEF IInv, TypeOK
  <2>2. oldest_distance_set_[u] = OldestOf(distance_sets_[u]) /\ oldest_distance_set_[u] # NoDs
    BY <1>2, <1>4, <2>1 DEF IInv, Oldest, DsId, NoDs
  <2> QED
    BY <2>2 DEF OldestOf
<1>5. ASSUME NEW d \in LinkedOf(ServedOf(t)) \ DyingOf(t) PROVE ~Missing(d)
  <2>1. d \in AllLinked /\ ~Marked(d)
    BY <1>2
  <2>2. ~ds[d].pulled
    BY <1>1, <2>1 DEF Pulled
  <2> QED
    BY <2>1, <2>2, HasWriteSets
<1> QED
  BY <1>1, <1>3, <1>4, <1>5

\* A step of a fixed team ends the process only because of the count.
LEMMA Outcome ==
  ASSUME IInv, TeamInv, TeamIsFixed, NEW t \in Thread, ThreadStep(t)
  PROVE  \/ outcome' = outcome
         \/ outcome' = "sample count mismatch" /\ TooManyActive(t)
<1>0. Team /\ Stages /\ Matched /\ Lengths
  BY DEF TeamInv
<1>1. CASE WaitStart(t)
  <2>1. pc[t] = "start" => stage_ = 0
    BY <1>0, StageOf DEF InRound
  <2> QED
    BY <1>1, <2>1 DEF WaitStart
<1>2. CASE Sleep(t)
  <2>1. pc[t] = "app" => stage_ = 0
    BY <1>0, StageOf
  <2> QED
    BY <1>2, <2>1 DEF Sleep
<1>3. CASE Access(t)
  <2>1. pc[t] = "access" => t \in InQueue
    BY <1>0, StageOf, AwakeType
  <2>2. ~ \E d \in Watched(t, ref[t][2]) : ds[d].addr = ref[t][1] /\ ~Exists(d)
    BY <1>0, <1>3, <2>1, HitExists DEF Access
  <2> QED
    BY <1>3, <2>2 DEF Access
<1>4. CASE AccessChecks(t)
  <2>1. /\ ll1[t] < 0 \/ Len(distance_sets_[t]) < ll1[t]
        /\ \A d \in Linked(t) : ds[d].finalize # "kReuseFinalize"
    BY <1>0, <1>4 DEF AccessChecks, Lengths
  <2>2. ll1[t] \in Int /\ Len(distance_sets_[t]) \in Nat
    BY DEF IInv, TypeOK, ControlTypeOK, SampleTypeOK
  <2>3. ~(ll1[t] >= 0 /\ Len(distance_sets_[t]) >= ll1[t])
    BY <2>1, <2>2
  <2> QED
    BY <1>4, <2>1, <2>3 DEF AccessChecks
<1>5. CASE Stage1(t)
  <2> DEFINE A == Synced /\ AdjacentFails(t, awake, thread_count, threads_)
             B == \E d \in Removed(t, TodoOf(t)) : Missing(d)
             C == action[t] = "kFinalize" /\ ~finalize_needed
  <2>1. /\ pc[t] = "work1"
        /\ IF A THEN Throw("wrapped around adjacent sleepers")
           ELSE IF B THEN Throw("finalized address not found in remote write set")
           ELSE IF C THEN Throw("kfinalize without global finalize")
           ELSE IF TooManyActive(t) THEN Throw("sample count mismatch")
           ELSE IF stage_ # 1 THEN Throw("stage wrong in wait")
           ELSE FirstStage(t, TodoOf(t))
    BY <1>5 DEF Stage1, Synced, TodoOf
  <2>2. ~A /\ ~B /\ ~C /\ stage_ = 1
    BY <2>1, FirstIsSafe
  <2> HIDE DEF A, B, C
  <2> QED
    BY <2>1, <2>2 DEF Throw, FirstStage
<1>6. CASE Stage2(t)
  <2> DEFINE A == \E d \in DyingOf(t) : ~ds[d].pulled /\ thread_count # 1
             B == \E u \in ServedOf(t) : /\ oldest_distance_set_[u] \in DyingOf(t)
                                         /\ oldest_distance_set_[u] # Last(distance_sets_[u])
             C == plan[t].merge /\ \E d \in LinkedOf(ServedOf(t)) \ DyingOf(t) : Missing(d)
  <2>1. /\ pc[t] = "work2"
        /\ IF A THEN Throw("assertion failed in FinalizeSample")
           ELSE IF B THEN Throw("assertion failed in SynchronizedOperations")
           ELSE IF C THEN Throw("merged address not found in remote write sets")
           ELSE IF stage_ # 2 THEN Throw("stage wrong in wait")
           ELSE SecondStage(t, SyncedOf(t), ServedOf(t))
    BY <1>6 DEF Stage2, SyncedOf, ServedOf, DyingOf
  <2>2. ~A /\ ~B /\ ~C /\ stage_ = 2
    BY <2>1, SecondIsSafe
  <2> HIDE DEF A, B, C
  <2> QED
    BY <2>1, <2>2 DEF SecondStage
<1>7. CASE JoinBarrier(t) \/ JoinQueue(t) \/ SetThreadEnable(t) \/ Wake(t) \/ SampleTrigger(t)
  BY <1>7 DEF JoinBarrier, JoinQueue, SetThreadEnable, Wake, SampleTrigger
<1>8. CASE \E a \in setup.blocks, is_write \in BOOLEAN : SampledMemRef(t, a, is_write)
  BY <1>8 DEF SampledMemRef
<1>9. CASE AccessDisabled(t) \/ NotSampled(t) \/ SampleRefused(t) \/ MergeAllSamples(t)
  BY <1>9 DEF AccessDisabled, NotSampled, SampleRefused, MergeAllSamples
<1>10. CASE NewSampledAddress(t) \/ Prune(t) \/ Leave(t)
  BY <1>10 DEF NewSampledAddress, Prune, Leave
<1> QED
  BY <1>1, <1>2, <1>3, <1>4, <1>5, <1>6, <1>7, <1>8, <1>9, <1>10 DEF ThreadStep

\* Of all that the sampler and its barrier check, a fixed team can fail one thing only,
\* ValidateActiveSamples: the count of triggers and samples against the lists.
THEOREM OnlyTheCountCanFail ==
  Spec => [](TeamIsFixed => outcome \in {"running", "report", "sample count mismatch"})
<1> DEFINE Fine == TeamIsFixed => outcome \in {"running", "report", "sample count mismatch"}
           Inv == IInv /\ (TeamIsFixed => TeamInv)
<1>1. Init => Fine
  BY DEF Init
<1>2. Inv /\ Fine /\ [Next]_vars => Fine'
  <2>1. SUFFICES ASSUME Inv, Fine, [Next]_vars, TeamIsFixed'
                 PROVE  outcome' \in {"running", "report", "sample count mismatch"}
    OBVIOUS
  <2>2. TeamIsFixed
    BY <2>1 DEF Next, Running, vars, TeamIsFixed
  <2>3. CASE \E t \in Thread : ThreadStep(t)
    BY <2>1, <2>2, <2>3, Outcome
  <2>4. CASE DumpStatsPython
    BY <2>4 DEF DumpStatsPython
  <2>5. CASE UNCHANGED vars
    BY <2>1, <2>2, <2>5 DEF vars
  <2> QED
    BY <2>1, <2>3, <2>4, <2>5 DEF Next
<1>3. Spec => []Inv
  BY TeamInvariance
<1> HIDE DEF Fine, Inv
<1>4. Spec => []Fine
  BY <1>1, <1>2, <1>3, PTL DEF Spec
<1> QED
  BY <1>4 DEF Fine

\* Threads that have not appeared announce nothing.
Quiet == \A t \in Thread : is_samplechoice[t] > 0 => t \in InQueue

LEMMA CountGrows ==
  ASSUME IInv, NEW t \in Thread, ThreadStep(t)
  PROVE  thread_count' = thread_count \/ thread_count' = thread_count + 1
<1>0. ControlTypeOK /\ BornInOrder
  BY DEF IInv, TypeOK
<1> QED
  BY <1>0, ProgramMoves DEF JoinBarrier, JoinQueue, LivesOn, globalVars

LEMMA QuietStep ==
  ASSUME IInv, Quiet, NEW t \in Thread, ThreadStep(t)
  PROVE  Quiet'
<1>0. TypeOK /\ BornInOrder /\ Calls /\ is_samplechoice \in [Thread -> 0 .. MaxPending]
  BY DEF IInv, TypeOK, ControlTypeOK
<1>1. \A u \in InQueue : u \in InQueue'
  <2>1. thread_count' = thread_count \/ thread_count' = thread_count + 1
    BY CountGrows
  <2> QED
    BY <1>0, <2>1 DEF InQueue, TypeOK, ControlTypeOK
<1>2. ASSUME \A u \in Thread : is_samplechoice'[u] > 0 => is_samplechoice[u] > 0 \/ u \in InQueue
      PROVE  Quiet'
  BY <1>1, <1>2 DEF Quiet
<1>3. CASE is_samplechoice' = is_samplechoice
  BY <1>2, <1>3
<1>4. CASE SampleTrigger(t)
  <2>1. t \in InQueue
    BY <1>0, <1>4, InTheQueue DEF SampleTrigger, TypeOK
  <2>2. \A u \in Thread \ {t} : is_samplechoice'[u] = is_samplechoice[u]
    BY <1>0, <1>4 DEF SampleTrigger
  <2> QED
    BY <1>2, <2>1, <2>2
<1>5. ASSUME is_samplechoice' = [is_samplechoice EXCEPT ![t] = @ - 1], is_samplechoice[t] > 0
      PROVE  Quiet'
  BY <1>0, <1>2, <1>5
<1>6. CASE SampleRefused(t)
  BY <1>5, <1>6 DEF SampleRefused
<1>7. CASE Leave(t)
  BY <1>0, <1>3, <1>5, <1>7 DEF Leave, Calls, OneCall
<1>8. CASE Stays
  BY <1>3, <1>8 DEF Stays, callVars
<1>9. \/ is_samplechoice' = is_samplechoice
      \/ SampleTrigger(t) \/ SampleRefused(t) \/ Leave(t) \/ Stays
  <2> USE DEF callVars
  <2>1. WaitStart(t) => Stays \/ is_samplechoice' = is_samplechoice
    BY WaitStartStep
  <2>2. Sleep(t) => Stays \/ is_samplechoice' = is_samplechoice
    BY SleepStep
  <2>3. Access(t) => Stays \/ is_samplechoice' = is_samplechoice
    BY AccessStep
  <2>4. AccessChecks(t) => Stays \/ is_samplechoice' = is_samplechoice
    BY AccessChecksStep
  <2>5. Stage1(t) => Stays \/ is_samplechoice' = is_samplechoice
    BY Stage1Step DEF FirstStage
  <2>6. Stage2(t) => Stays \/ is_samplechoice' = is_samplechoice
    BY Stage2Step DEF SecondStage
  <2>7. JoinBarrier(t) \/ JoinQueue(t) \/ SetThreadEnable(t) \/ Wake(t) => is_samplechoice' = is_samplechoice
    BY DEF JoinBarrier, JoinQueue, SetThreadEnable, Wake
  <2>8. (\E a \in setup.blocks, is_write \in BOOLEAN : SampledMemRef(t, a, is_write))
          => is_samplechoice' = is_samplechoice
    BY DEF SampledMemRef
  <2>9. AccessDisabled(t) \/ NotSampled(t) \/ MergeAllSamples(t) => is_samplechoice' = is_samplechoice
    BY DEF AccessDisabled, NotSampled, MergeAllSamples
  <2>10. NewSampledAddress(t) \/ Prune(t) => is_samplechoice' = is_samplechoice
    BY DEF NewSampledAddress, Prune
  <2> QED
    BY <2>1, <2>2, <2>3, <2>4, <2>5, <2>6, <2>7, <2>8, <2>9, <2>10 DEF ThreadStep
<1> QED
  BY <1>3, <1>4, <1>6, <1>7, <1>8, <1>9

LEMMA QuietKept == IInv /\ Quiet /\ [Next]_vars => Quiet'
<1>1. SUFFICES ASSUME IInv, Quiet, [Next]_vars PROVE Quiet'
  OBVIOUS
<1>2. CASE \E t \in Thread : ThreadStep(t)
  BY <1>1, <1>2, QuietStep
<1>3. CASE DumpStatsPython \/ UNCHANGED vars
  <2>1. UNCHANGED <<is_samplechoice, thread_count>>
    BY <1>3 DEF DumpStatsPython, vars, callVars, globalVars
  <2> QED
    BY <1>1, <2>1 DEF Quiet, InQueue
<1> QED
  BY <1>1, <1>2, <1>3 DEF Next

\* With at most one trigger waiting per thread the count is right.
LEMMA CountIsRight ==
  ASSUME IInv, Quiet, MaxPending <= 1, NEW t \in Thread
  PROVE  ~TooManyActive(t)
<1>1. /\ thread_count \in Nat /\ MaxPending \in {0, 1}
      /\ is_samplechoice \in [Thread -> 0 .. MaxPending]
  BY SamplerAssumption DEF IInv, TypeOK, ControlTypeOK
<1>2. /\ IsFiniteSet(InQueue) /\ Cardinality(InQueue) = thread_count
  <2>1. /\ IsFiniteSet(0 .. thread_count - 1)
        /\ Cardinality(0 .. thread_count - 1) =
             IF 0 > thread_count - 1 THEN 0 ELSE (thread_count - 1) - 0 + 1
    <3>1. 0 \in Int /\ thread_count - 1 \in Int
      BY <1>1
    <3> QED
      BY <3>1, FS_Interval
  <2> QED
    BY <1>1, <2>1 DEF InQueue
<1>3. /\ IsFiniteSet(1 .. MaxPending) /\ Cardinality(1 .. MaxPending) = MaxPending
  BY <1>1, FS_Interval
<1>4. Announced \in SUBSET (InQueue \X (1 .. MaxPending))
  <2>1. \A u \in Thread, n \in 1 .. MaxPending : n <= is_samplechoice[u] => u \in InQueue
    BY <1>1 DEF Quiet
  <2> QED
    BY <2>1 DEF Announced
<1>5. /\ IsFiniteSet(InQueue \X (1 .. MaxPending))
      /\ Cardinality(InQueue \X (1 .. MaxPending)) = thread_count * MaxPending
  BY <1>2, <1>3, FS_Product
<1>6. Cardinality(Announced) <= thread_count * MaxPending
  BY <1>4, <1>5, FS_Subset
<1>7. thread_count * MaxPending <= thread_count
  BY <1>1
<1>8. Cardinality(Announced) \in Nat /\ Cardinality(AllLinked) \in Nat
  BY AnnouncedFinite, LinkedFinite DEF IInv
<1>9. active_sample_count = Cardinality(Announced) + Cardinality(AllLinked)
  BY DEF IInv, SampleAccounting
<1>10. active_sample_count <= Cardinality(AllLinked) + thread_count
  BY <1>1, <1>6, <1>7, <1>8, <1>9
<1>11. \A n \in {0, 1} : active_sample_count <= Cardinality(AllLinked) + thread_count + n + 1
  BY <1>1, <1>8, <1>9, <1>10
<1> QED
  BY <1>1, <1>8, <1>9, <1>11 DEF TooManyActive

\* If no thread has more than one trigger waiting to become a sample, nothing at all is
\* thrown by a fixed team.
THEOREM NothingIsThrown == ASSUME MaxPending <= 1 PROVE Spec => []NoFailure
<1> DEFINE Inv == IInv /\ (TeamIsFixed => TeamInv)
<1>1. Init => Quiet /\ NoFailure
  BY DEF Init, Quiet, NoFailure
<1>2. Inv /\ Quiet /\ NoFailure /\ [Next]_vars => NoFailure'
  <2>1. SUFFICES ASSUME Inv, Quiet, NoFailure, [Next]_vars, TeamIsFixed'
                 PROVE  outcome' \in {"running", "report"}
    BY DEF NoFailure
  <2>2. TeamIsFixed
    BY <2>1 DEF Next, Running, vars, TeamIsFixed
  <2>3. CASE \E t \in Thread : ThreadStep(t)
    BY <2>1, <2>2, <2>3, Outcome, CountIsRight DEF NoFailure
  <2>4. CASE DumpStatsPython
    BY <2>4 DEF DumpStatsPython
  <2>5. CASE UNCHANGED vars
    BY <2>1, <2>2, <2>5 DEF vars, NoFailure
  <2> QED
    BY <2>1, <2>3, <2>4, <2>5 DEF Next
<1>3. Inv /\ Quiet /\ [Next]_vars => Quiet'
  BY QuietKept
<1>4. Spec => []Inv
  BY TeamInvariance
<1> HIDE DEF Inv
<1> QED
  BY <1>1, <1>2, <1>3, <1>4, PTL DEF Spec

-----------------------------------------------------------------------------
(* A merge is complete                                                     *)

\* Nothing is in the write sets of d.
Emptied(d) == \A i \in InQueue : ToSet(write_sets_[i][d]) \subseteq {{}}

\* In the second stage of a round that merges, the threads that are done have emptied the
\* write sets of the samples they serve.
Merges ==
  stage_ = 2 /\ (\E u \in Thread : pc[u] = "work2" /\ plan[u].merge) =>
    \A t \in Waiting : \A d \in AllLinked : ds[d].owner \in ServedBy(t) => Emptied(d)

LEMMA SingleList ==
  ASSUME NEW S, NEW list \in Seq(S), Len(list) = 1
  PROVE  list # <<>> /\ Head(list) = list[1] /\ Tail(list) = <<>>
<1>1. list # <<>>
  OBVIOUS
<1>2. Head(list) = list[1]
  BY <1>1
<1>3. Tail(list) \in Seq(S) /\ Len(Tail(list)) = 0
  BY <1>1
<1> QED
  BY <1>1, <1>2, <1>3

\* A write set that nobody has to have is not there, and the others are there once.
LEMMA OneWriteSet ==
  ASSUME IInv, Matched, NEW d \in DsId, NEW i \in InQueue
  PROVE  /\ i \in Thread /\ write_sets_[i][d] \in Seq(SUBSET Address)
         /\ d \in Watchable /\ ds[d].owner # i
              => /\ Len(write_sets_[i][d]) = 1 /\ write_sets_[i][d] # <<>>
                 /\ ToSet(write_sets_[i][d]) = {Head(write_sets_[i][d])}
                 /\ Tail(write_sets_[i][d]) = <<>>
         /\ ~(d \in Watchable /\ ds[d].owner # i)
              => write_sets_[i][d] = <<>> /\ ToSet(write_sets_[i][d]) = {}
<1> DEFINE list == write_sets_[i][d]
<1>1. i \in Thread
  BY QueueType DEF IInv, TypeOK
<1>2. list \in Seq(SUBSET Address)
  BY <1>1 DEF IInv, TypeOK, SampleTypeOK
<1>3. Len(list) = IF d \in Watchable /\ ds[d].owner # i THEN 1 ELSE 0
  BY DEF Matched
<1> HIDE DEF list
<1>4. ToSet(list) = {list[k] : k \in 1 .. Len(list)}
  BY <1>2, ListElements
<1>5. ASSUME Len(list) = 1
      PROVE  list # <<>> /\ ToSet(list) = {Head(list)} /\ Tail(list) = <<>>
  <2>1. list # <<>> /\ Head(list) = list[1] /\ Tail(list) = <<>>
    BY <1>2, <1>5, SingleList
  <2>2. 1 .. Len(list) = {1}
    BY <1>5
  <2> QED
    BY <1>4, <2>1, <2>2
<1>6. ASSUME Len(list) = 0
      PROVE  list = <<>> /\ ToSet(list) = {}
  <2>1. list = <<>>
    BY <1>2, <1>6
  <2>2. 1 .. Len(list) = {}
    BY <1>6
  <2> QED
    BY <1>4, <2>1, <2>2
<1>7. /\ d \in Watchable /\ ds[d].owner # i => Len(list) = 1
      /\ ~(d \in Watchable /\ ds[d].owner # i) => Len(list) = 0
  BY <1>3
<1> QED
  BY <1>1, <1>2, <1>5, <1>6, <1>7 DEF list

\* The samples that t merges.
MergedBy(t) ==
  IF plan[t].merge THEN LinkedOf(ServedOf(t)) \ DyingOf(t) ELSE {}

\* What the second stage does to the samples that stay and to the write sets.
LEMMA SecondSets ==
  ASSUME IInv, TeamInv, NEW t \in Thread, Stage2(t), ~Stays
  PROVE  /\ \A d \in DsId : d \in MergedBy(t) <=>
              /\ plan[t].merge /\ d \in AllLinked /\ ds[d].owner \in ServedBy(t)
              /\ d \notin DyingOf(t)
         /\ \A d \in MergedBy(t) : d \in Watchable /\ ds'[d] = Absorb(ds[d], Heads(d))
         /\ \A d \in DsId : d \notin MergedBy(t) /\ d \notin DyingOf(t) => ds'[d] = ds[d]
         /\ \A i \in InQueue, d \in DsId : write_sets_'[i][d] =
              IF d \in MergedBy(t) /\ ds[d].owner # i THEN ReplaceAt(write_sets_[i][d], 1, {})
                                                      ELSE write_sets_[i][d]
<1> USE DEF TeamInv
<1>0. TypeOK /\ Samples /\ InQueue \subseteq Thread
  BY QueueType DEF IInv, TypeOK
<1>1. SecondStage(t, SyncedOf(t), ServedOf(t)) /\ stage_ = 2 /\ pc[t] = "work2"
  BY Stage2Step
<1>2. /\ ds' = [d \in DsId |-> IF d \in DyingOf(t) THEN Finalized(ds[d])
                               ELSE IF d \in MergedBy(t) THEN Absorb(ds[d], Heads(d))
                               ELSE ds[d]]
      /\ write_sets_' = [i \in Thread |-> [d \in DsId |->
           IF d \in MergedBy(t) /\ i \in Others(d) THEN ReplaceAt(write_sets_[i][d], 1, {})
                                                   ELSE write_sets_[i][d]]]
  BY <1>1 DEF SecondStage, DyingOf, MergedBy
<1>3. /\ ServedOf(t) = IF SyncedOf(t) THEN ServedBy(t) ELSE {}
      /\ \A d \in DsId : d \in DyingOf(t) <=>
           d \in AllLinked /\ Marked(d) /\ ds[d].owner \in ServedOf(t)
  BY SecondEffect
<1>4. ServedOf(t) \subseteq InQueue
  BY <1>0, ServedInQueue DEF TypeOK
<1>5. \A d : d \in LinkedOf(ServedOf(t)) <=> d \in AllLinked /\ ds[d].owner \in ServedOf(t)
  BY <1>4, AllLinkedOwner
<1>6. plan[t].merge => ServedOf(t) = ServedBy(t)
  BY <1>3 DEF SyncedOf
<1>7. \A d \in DsId : d \in MergedBy(t) <=>
        /\ plan[t].merge /\ d \in AllLinked /\ ds[d].owner \in ServedBy(t)
        /\ d \notin DyingOf(t)
  BY <1>5, <1>6 DEF MergedBy
<1>8. ASSUME NEW d \in MergedBy(t)
      PROVE  d \in DsId /\ d \in Watchable /\ d \notin DyingOf(t)
  <2>1. d \in AllLinked /\ d \notin DyingOf(t) /\ plan[t].merge
    BY <1>5, <1>8 DEF MergedBy
  <2>2. d \in DsId
    BY <1>0, <2>1, AllLinkedExist
  <2>3. ~Marked(d)
    BY <1>3, <1>6, <1>7, <1>8, <2>1, <2>2
  <2>4. ~ds[d].pulled
    BY <2>1, <2>3 DEF Pulled
  <2> QED
    BY <2>1, <2>2, <2>4, IsWatchable
<1>9. \A d \in MergedBy(t) : ds'[d] = Absorb(ds[d], Heads(d))
  BY <1>2, <1>8
<1>10. \A d \in DsId : d \notin MergedBy(t) /\ d \notin DyingOf(t) => ds'[d] = ds[d]
  BY <1>2
<1>11. \A i \in InQueue, d \in DsId : write_sets_'[i][d] =
         IF d \in MergedBy(t) /\ ds[d].owner # i THEN ReplaceAt(write_sets_[i][d], 1, {})
                                                 ELSE write_sets_[i][d]
  BY <1>0, <1>2 DEF Others
<1> QED
  BY <1>7, <1>8, <1>9, <1>10, <1>11

LEMMA ReplaceOnly ==
  \A list \in Seq(SUBSET Address) : Len(list) = 1 => ToSet(ReplaceAt(list, 1, {})) = {{}}
<1> SUFFICES ASSUME NEW list \in Seq(SUBSET Address), Len(list) = 1
             PROVE  ToSet(ReplaceAt(list, 1, {})) = {{}}
  OBVIOUS
<1>1. {} \in SUBSET Address
  OBVIOUS
<1> QED
  BY <1>1, ListReplace

\* What is merged is emptied, and what is not stays as it is.
LEMMA MergeEmpties ==
  ASSUME IInv, TeamInv, NEW t \in Thread, Stage2(t), ~Stays
  PROVE  /\ \A d \in MergedBy(t) : Emptied(d)'
         /\ \A d \in DsId \ MergedBy(t) : Emptied(d) => Emptied(d)'
<1> USE DEF TeamInv
<1>0. InQueue' = InQueue
  BY SecondEffect DEF InQueue
<1>1. ASSUME NEW d \in MergedBy(t), NEW i \in InQueue
      PROVE  ToSet(write_sets_'[i][d]) \subseteq {{}}
  <2>1. d \in DsId /\ d \in Watchable
    <3>1. MergedBy(t) \subseteq AllLinked
      BY DyingType DEF MergedBy, IInv
    <3> QED
      BY <1>1, <3>1, SecondSets, AllLinkedExist DEF IInv
  <2>2. CASE ds[d].owner # i
    <3>1. write_sets_'[i][d] = ReplaceAt(write_sets_[i][d], 1, {})
      BY <1>1, <2>1, <2>2, SecondSets
    <3>2. write_sets_[i][d] \in Seq(SUBSET Address) /\ Len(write_sets_[i][d]) = 1
      BY <1>1, <2>1, <2>2, OneWriteSet
    <3> QED
      BY <3>1, <3>2, ReplaceOnly
  <2>3. CASE ds[d].owner = i
    <3>1. write_sets_'[i][d] = write_sets_[i][d]
      BY <1>1, <2>1, <2>3, SecondSets
    <3>2. ToSet(write_sets_[i][d]) = {}
      BY <1>1, <2>1, <2>3, OneWriteSet
    <3> QED
      BY <3>1, <3>2
  <2> QED
    BY <2>2, <2>3
<1>2. \A d \in DsId \ MergedBy(t), i \in InQueue : write_sets_'[i][d] = write_sets_[i][d]
  BY SecondSets
<1> QED
  BY <1>0, <1>1, <1>2 DEF Emptied

\* After its work of the second stage of a merge, what t serves is emptied, like what the
\* threads have served that were done before.
LEMMA MergeGoesOn ==
  ASSUME IInv, TeamInv, Merges, NEW t \in Thread, Stage2(t), ~Stays, plan[t].merge,
         NEW u \in Waiting \cup {t}, NEW d \in AllLinked, d \notin DyingOf(t),
         ds[d].owner \in ServedBy(u)
  PROVE  Emptied(d)'
<1>0. d \in DsId /\ t \in awake /\ Waiting \subseteq awake /\ stage_ = 2 /\ pc[t] = "work2"
  <2>1. pc[t] = "work2" /\ stage_ = 2
    BY Stage2Step
  <2>2. t \in awake /\ Waiting \subseteq awake
    BY <2>1, StageOf, AwakeType DEF TeamInv, InRound
  <2> QED
    BY <2>1, <2>2, AllLinkedExist DEF IInv
<1>1. CASE d \in MergedBy(t)
  BY <1>1, MergeEmpties
<1>2. CASE d \notin MergedBy(t)
  <2>1. ds[d].owner \notin ServedBy(t)
    BY <1>0, <1>2, SecondSets
  <2>2. u \in Waiting
    BY <2>1
  <2>3. Emptied(d)
    BY <1>0, <2>2 DEF Merges
  <2> QED
    BY <1>0, <1>2, <2>3, MergeEmpties
<1> QED
  BY <1>1, <1>2

LEMMA MergesStep ==
  ASSUME IInv, TeamInv, Merges, TeamIsFixed, NEW t \in Thread, ThreadStep(t)
  PROVE  Merges'
<1> USE DEF TeamInv
<1>0. pc \in [Thread -> Control]
  BY DEF IInv, TypeOK, ControlTypeOK
<1>1. CASE UNCHANGED teamVars
  BY <1>1 DEF teamVars, samplesOfTeam, Merges, Emptied, Waiting, AllLinked, Linked,
              ServedBy, InQueue
<1>2. CASE Strolls(t) \/ Gathers(t) \/ Acts(t)
  <2>1. stage_' # 2
    BY <1>2 DEF Strolls, Gathers, Acts
  <2> QED
    BY <2>1 DEF Merges
<1>3. CASE Ends(t, 1) /\ Stage1(t) /\ ~Stays
  <2>1. stage_' = 2 => pc' = [u \in Thread |-> IF u \in awake THEN "work2" ELSE pc[u]]
    BY <1>3 DEF Ends, Beyond
  <2>2. stage_' = 2 => Waiting' = {}
    BY <2>1, AwakeType DEF Waiting
  <2> QED
    BY <2>2 DEF Merges
<1>4. CASE Ends(t, 2) /\ Stage2(t) /\ ~Stays
  <2>1. SUFFICES ASSUME stage_' = 2,
                        NEW v \in Thread, pc'[v] = "work2", plan'[v].merge,
                        NEW u \in Waiting', NEW d \in AllLinked',
                        (ds[d].owner)' \in ServedBy(u)'
                 PROVE  Emptied(d)'
    BY DEF Merges
  <2>2. /\ pc' = [pc EXCEPT ![t] = "wait"] /\ pc[t] = "work2" /\ stage_ = 2
        /\ UNCHANGED <<awake, thread_count>>
    BY <1>4, <2>1 DEF Ends, Work
  <2>3. Waiting' = Waiting \cup {t} /\ v # t /\ pc[v] = "work2"
    BY <1>0, <2>1, <2>2 DEF Waiting
  <2>4. plan'[v] = plan[v]
    <3>1. plan' = [plan EXCEPT ![t] = <<>>]
      BY <1>4, Stage2Step DEF SecondStage
    <3>2. DOMAIN plan = Thread
      BY DEF IInv, TypeOK, ControlTypeOK
    <3> QED
      BY <2>3, <3>1, <3>2
  <2>5. plan[t].merge
    <3>1. PICK m \in BOOLEAN, f \in BOOLEAN : \A w \in Thread : pc[w] = "work2" => plan[w] = PlanOf(w, m, f)
      BY DEF Plans
    <3>2. plan[t] = PlanOf(t, m, f) /\ plan[v] = PlanOf(v, m, f)
      BY <2>2, <2>3, <3>1
    <3>3. plan[t].merge = m /\ plan[v].merge = m
      BY <3>2 DEF PlanOf
    <3> QED
      BY <2>1, <2>4, <3>3
  <2>6. d \in AllLinked /\ d \notin DyingOf(t)
    BY <1>4, <2>1, SecondEffect
  <2>7. ds'[d].owner = ds[d].owner
    BY <1>4, <2>6, SecondEffect, AllLinkedExist DEF IInv
  <2>8. ServedBy(u)' = ServedBy(u)
    BY <2>2 DEF ServedBy
  <2> QED
    BY <1>4, <2>1, <2>3, <2>5, <2>6, <2>7, <2>8, MergeGoesOn
<1> QED
  BY <1>1, <1>2, <1>3, <1>4, TeamSteps

LEMMA MergesKept ==
  IInv /\ (TeamIsFixed => TeamInv /\ Merges) /\ [Next]_vars => (TeamIsFixed => Merges)'
<1> SUFFICES ASSUME IInv, TeamIsFixed => TeamInv /\ Merges, [Next]_vars, TeamIsFixed'
             PROVE  Merges'
  OBVIOUS
<1>1. TeamIsFixed
  BY DEF Next, Running, vars, TeamIsFixed
<1>2. CASE \E t \in Thread : ThreadStep(t)
  BY <1>1, <1>2, MergesStep
<1>3. CASE DumpStatsPython \/ UNCHANGED vars
  <2>1. UNCHANGED teamVars
    BY <1>3 DEF DumpStatsPython, vars, barrierVars, globalVars, listVars, setVars, callVars,
                teamVars, samplesOfTeam, flagVars
  <2> QED
    BY <1>1, <2>1 DEF teamVars, samplesOfTeam, Merges, Emptied, Waiting, AllLinked, Linked,
                      ServedBy, InQueue
<1> QED
  BY <1>2, <1>3 DEF Next

\* A round that merges leaves nothing in the write sets of any sample, whoever slept.
THEOREM MergesAreComplete == Spec => MergeIsComplete
<1> DEFINE Inv == IInv /\ (TeamIsFixed => TeamInv)
           More == TeamIsFixed => Merges
           Done == (TeamIsFixed /\ stage_ = 2 /\ stage_' = 0
                      /\ \E t \in Thread : plan[t] # <<>> /\ plan[t].merge)
                   => \A t \in InQueue, d \in DsId :
                        d \in Watchable' /\ d \in AllLinked
                          => ToSet(write_sets_[t][d])' \subseteq {{}}
<1>1. Init => More
  BY DEF Init, Merges
<1>2. Inv /\ More /\ [Next]_vars => More'
  BY MergesKept
<1>3. Inv /\ More /\ [Next]_vars => [Done]_vars
  <2>1. SUFFICES ASSUME Inv, More, Next, TeamIsFixed, stage_ = 2, stage_' = 0,
                        NEW v \in Thread, plan[v] # <<>>, plan[v].merge,
                        NEW i \in InQueue, NEW d \in DsId, d \in Watchable', d \in AllLinked
                 PROVE  ToSet(write_sets_[i][d])' \subseteq {{}}
    BY DEF vars
  <2>2. PICK t \in Thread : ThreadStep(t)
    BY <2>1 DEF Next, DumpStatsPython, barrierVars
  <2>3. Ends(t, 2) /\ Stage2(t) /\ ~Stays
    <3>1. ~UNCHANGED teamVars /\ ~Strolls(t) /\ ~Gathers(t) /\ ~Acts(t) /\ ~Ends(t, 1)
      BY <2>1 DEF teamVars, Strolls, Gathers, Acts, Ends
    <3> QED
      BY <2>1, <2>2, <3>1, TeamSteps DEF TeamInv
  <2>4. /\ Waiting \cup {t} = awake /\ UNCHANGED <<awake, thread_count, newDS>>
        /\ pc' = [u \in Thread |-> IF u \in awake THEN "leave" ELSE pc[u]]
    BY <2>1, <2>3 DEF Ends, Beyond
  <2>5. v = t
    <3>1. pc[v] = "work2"
      BY <2>1 DEF TeamInv, Plans
    <3>2. v \in awake
      BY <2>1, <3>1, StageOf DEF TeamInv, InRound
    <3> QED
      BY <2>4, <3>1, <3>2 DEF Waiting
  <2>6. d \notin DyingOf(t)
    <3>1. \A u \in Thread : newDS[u] # d
      BY <2>1, NewApart DEF NoDs, DsId
    <3>2. d \in AllLinked'
      BY <2>1, <2>4, <3>1 DEF Watchable
    <3> QED
      BY <2>1, <2>3, <3>2, SecondEffect DEF TeamInv
  <2>7. PICK u \in awake : ds[d].owner \in ServedBy(u)
    <3>1. ds[d].owner \in InQueue
      BY <2>1, AllLinkedExist DEF IInv
    <3> QED
      BY <2>1, <2>4, <3>1, Served1 DEF TeamInv
  <2>8. Emptied(d)'
    BY <2>1, <2>3, <2>4, <2>5, <2>6, <2>7, MergeGoesOn
  <2> QED
    BY <2>1, <2>4, <2>8 DEF Emptied, InQueue
<1>4. Spec => []Inv
  BY TeamInvariance
<1>5. MergeIsComplete <=> [][Done]_vars
  BY DEF MergeIsComplete
<1> HIDE DEF Inv, More, Done
<1> QED
  BY <1>1, <1>2, <1>3, <1>4, <1>5, PTL DEF Spec

-----------------------------------------------------------------------------
(* What a sample holds is what was touched                                 *)

\* What Access does to the distance sets and to the write sets, in full.
LEMMA AccessShape ==
  ASSUME IInv, NEW t \in Thread, Access(t), ~Stays
  PROVE  \E a \in Address, w \in BOOLEAN :
           /\ \A d \in DsId : Exists(d) /\ ds[d].addr = a /\ d \in Linked(t) \cup Watched(t, w)
                => \E f \in FinalizeStatus : ds'[d] = [ds[d] EXCEPT !.finalize = f]
           /\ \A d \in DsId : Exists(d) /\ ~(ds[d].addr = a /\ d \in Linked(t) \cup Watched(t, w))
                => ds'[d] = Touch(IF d \in Linked(t) THEN Insert(ds[d], a) ELSE ds[d], d, t, a)
           /\ \A i \in Thread, d \in DsId : write_sets_'[i][d] =
                IF i = t /\ d \in Watched(t, w) /\ ds[d].addr # a
                  THEN [j \in DOMAIN write_sets_[i][d] |-> write_sets_[i][d][j] \cup {a}]
                  ELSE write_sets_[i][d]
           /\ Shared => Watched(t, w) = {d \in DsId : write_sets_[t][d] # <<>>}
<1> DEFINE a == ref[t][1]
           w == ref[t][2]
           reused == {d \in Linked(t) : ds[d].addr = a}
           hit == {d \in Watched(t, w) : ds[d].addr = a}
           missed == Watched(t, w) \ hit
           left(d) == IF d \in Linked(t) THEN Insert(ds[d], a) ELSE ds[d]
<1>0. TypeOK /\ Calls
  BY DEF IInv
<1>1. pc[t] = "access" /\ AccessSets(t, a, w)
  BY AccessStep
<1>2. a \in Address /\ w \in BOOLEAN
  <2>1. ref[t] # <<>>
    BY <1>0, <1>1 DEF Calls, OneCall
  <2> QED
    BY <1>0, <2>1 DEF TypeOK, ControlTypeOK
<1>3. ds' = [d \in DsId |->
       IF d \in hit THEN [ds[d] EXCEPT !.finalize = RemoteFinalize]
       ELSE IF d \in reused THEN [ds[d] EXCEPT !.finalize = "kReuseFinalize"]
       ELSE IF Exists(d) THEN Touch(left(d), d, t, a) ELSE ds[d]]
  BY <1>1 DEF AccessSets
<1>4. write_sets_' = [write_sets_ EXCEPT ![t] = [d \in DsId |->
        IF d \in missed THEN [i \in DOMAIN write_sets_[t][d] |-> write_sets_[t][d][i] \cup {a}]
                        ELSE write_sets_[t][d]]]
  BY <1>0, <1>1 DEF AccessSets, TypeOK, SampleTypeOK
<1>5. RemoteFinalize \in FinalizeStatus /\ "kReuseFinalize" \in FinalizeStatus
  BY DEF RemoteFinalize, FinalizeStatus
<1>6. /\ \A d : d \in hit <=> d \in Watched(t, w) /\ ds[d].addr = a
      /\ \A d : d \in reused <=> d \in Linked(t) /\ ds[d].addr = a
      /\ \A d : d \in missed <=> d \in Watched(t, w) /\ ds[d].addr # a
  OBVIOUS
<1>7. Shared => Watched(t, w) = {d \in DsId : write_sets_[t][d] # <<>>}
  BY DEF Watched
<1> HIDE DEF hit, reused, missed, a, w, left
<1>8. ASSUME NEW d \in DsId, Exists(d), ds[d].addr = a, d \in Linked(t) \cup Watched(t, w)
      PROVE  \E f \in FinalizeStatus : ds'[d] = [ds[d] EXCEPT !.finalize = f]
  BY <1>3, <1>5, <1>6, <1>8
<1>9. ASSUME NEW d \in DsId, Exists(d), ~(ds[d].addr = a /\ d \in Linked(t) \cup Watched(t, w))
      PROVE  ds'[d] = Touch(left(d), d, t, a)
  BY <1>3, <1>6, <1>9
<1>10. ASSUME NEW i \in Thread, NEW d \in DsId
       PROVE  write_sets_'[i][d] =
                IF i = t /\ d \in Watched(t, w) /\ ds[d].addr # a
                  THEN [j \in DOMAIN write_sets_[i][d] |-> write_sets_[i][d][j] \cup {a}]
                  ELSE write_sets_[i][d]
  <2>1. write_sets_ \in [Thread -> [DsId -> Seq(SUBSET Address)]]
    BY <1>0 DEF TypeOK, SampleTypeOK
  <2>2. CASE i = t
    BY <1>4, <1>6, <2>1, <2>2
  <2>3. CASE i # t
    BY <1>4, <2>1, <2>3
  <2> QED
    BY <2>2, <2>3
<1>11. \A d \in DsId : Exists(d) /\ ~(ds[d].addr = a /\ d \in Linked(t) \cup Watched(t, w))
         => ds'[d] = Touch(IF d \in Linked(t) THEN Insert(ds[d], a) ELSE ds[d], d, t, a)
  BY <1>9 DEF left
<1> USE <1>2
<1> WITNESS a \in Address, w \in BOOLEAN
<1> QED
  BY <1>7, <1>8, <1>10, <1>11

\* Every block and every hole of a sample of a private stack stands for a block that the
\* owner touched.
Sound(x) ==
  x.set \subseteq x.touched /\ Cardinality(x.set) + x.holes <= Cardinality(x.touched)

SoundSamples == ~Shared => \A d \in DsId : Exists(d) => Sound(ds[d])

LEMMA SetSizes ==
  \A S, T \in SUBSET Address :
    /\ S \subseteq T => Cardinality(S) <= Cardinality(T)
    /\ Cardinality(S \ T) + Cardinality(S \cap T) = Cardinality(S)
    /\ \A a \in Address : a \notin S => Cardinality(S \cup {a}) = Cardinality(S) + 1
    /\ Cardinality({}) = 0
<1> SUFFICES ASSUME NEW S \in SUBSET Address, NEW T \in SUBSET Address
             PROVE  /\ S \subseteq T => Cardinality(S) <= Cardinality(T)
                    /\ Cardinality(S \ T) + Cardinality(S \cap T) = Cardinality(S)
                    /\ \A a \in Address : a \notin S => Cardinality(S \cup {a}) = Cardinality(S) + 1
                    /\ Cardinality({}) = 0
  OBVIOUS
<1>1. IsFiniteSet(S) /\ IsFiniteSet(T)
  BY BlocksFinite
<1>2. S \subseteq T => Cardinality(S) <= Cardinality(T)
  BY <1>1, FS_Subset
<1>3. Cardinality(S \ T) + Cardinality(S \cap T) = Cardinality(S)
  <2>1. /\ S \ T \in SUBSET Address /\ S \cap T \in SUBSET Address
        /\ Cardinality(S) \in Nat
    BY BlocksFinite
  <2>2. Cardinality(S \ T) = Cardinality(S) - Cardinality(S \cap T)
    BY <1>1, FS_Difference
  <2>3. Cardinality(S \ T) \in Nat /\ Cardinality(S \cap T) \in Nat
    BY <2>1, BlocksFinite
  <2> QED
    BY <2>1, <2>2, <2>3
<1>4. \A a \in Address : a \notin S => Cardinality(S \cup {a}) = Cardinality(S) + 1
  BY <1>1, FS_AddElement
<1>5. Cardinality({}) = 0
  BY FS_EmptySet
<1> QED
  BY <1>2, <1>3, <1>4, <1>5

\* A block goes into the sample that it was touched for.
LEMMA SoundInsert ==
  ASSUME NEW x \in DistanceSet, Sound(x), NEW a \in Address
  PROVE  Sound([Insert(x, a) EXCEPT !.touched = @ \cup {a}])
<1> DEFINE left == IF x.holes > 0 /\ a \notin x.set THEN x.holes - 1 ELSE x.holes
           y == [Insert(x, a) EXCEPT !.touched = @ \cup {a}]
<1>1. y.set = x.set \cup {a} /\ y.touched = x.touched \cup {a} /\ y.holes = left
  BY DEF Insert, DistanceSet
<1>2. /\ x.set \in SUBSET Address /\ x.touched \in SUBSET Address /\ x.holes \in Nat
      /\ x.set \cup {a} \in SUBSET Address /\ x.touched \cup {a} \in SUBSET Address
  BY DEF DistanceSet
<1>3. /\ Cardinality(x.set) \in Nat /\ Cardinality(x.touched) \in Nat
      /\ Cardinality(x.set \cup {a}) \in Nat /\ Cardinality(x.touched \cup {a}) \in Nat
  BY <1>2, BlocksFinite
<1>4. x.set \subseteq x.touched /\ Cardinality(x.set) + x.holes <= Cardinality(x.touched)
  BY DEF Sound
<1>5. /\ Cardinality(x.set \cup {a}) <= Cardinality(x.touched \cup {a})
      /\ Cardinality(x.touched) <= Cardinality(x.touched \cup {a})
      /\ a \notin x.set => Cardinality(x.set \cup {a}) = Cardinality(x.set) + 1
  <2>1. x.set \cup {a} \subseteq x.touched \cup {a} /\ x.touched \subseteq x.touched \cup {a}
    BY <1>4
  <2> QED
    BY <1>2, <2>1, SetSizes
<1>6. a \in x.set => x.set \cup {a} = x.set /\ x.touched \cup {a} = x.touched
  BY <1>4
<1>7. Cardinality(x.set \cup {a}) + left <= Cardinality(x.touched \cup {a})
  <2>1. CASE a \in x.set
    BY <1>2, <1>4, <1>6, <2>1
  <2>2. CASE a \notin x.set /\ x.holes > 0
    BY <1>2, <1>3, <1>4, <1>5, <2>2
  <2>3. CASE a \notin x.set /\ x.holes = 0
    BY <1>3, <1>5, <2>3
  <2> QED
    BY <1>2, <2>1, <2>2, <2>3
<1> HIDE DEF left
<1> QED
  BY <1>1, <1>4, <1>7 DEF Sound

LEMMA SoundTouch ==
  ASSUME NEW x \in DistanceSet, Sound(x), NEW d, NEW t, NEW a \in Address
  PROVE  Sound(Touch(x, d, t, a))
<1>1. CASE Touch(x, d, t, a) = x
  BY <1>1
<1>2. CASE Touch(x, d, t, a) = [x EXCEPT !.touched = @ \cup {a}]
  <2> DEFINE y == [x EXCEPT !.touched = @ \cup {a}]
  <2>1. y.set = x.set /\ y.holes = x.holes /\ y.touched = x.touched \cup {a}
    BY DEF DistanceSet
  <2>2. /\ x.set \in SUBSET Address /\ x.touched \in SUBSET Address /\ x.holes \in Nat
        /\ x.touched \cup {a} \in SUBSET Address /\ x.touched \subseteq x.touched \cup {a}
    BY DEF DistanceSet
  <2>3. /\ Cardinality(x.set) \in Nat /\ Cardinality(x.touched) \in Nat
        /\ Cardinality(x.touched \cup {a}) \in Nat
        /\ Cardinality(x.touched) <= Cardinality(x.touched \cup {a})
    BY <2>2, BlocksFinite, SetSizes
  <2> HIDE DEF y
  <2>4. Sound(y)
    BY <2>1, <2>2, <2>3 DEF Sound
  <2> QED
    BY <1>2, <2>4 DEF y
<1> QED
  BY <1>1, <1>2 DEF Touch

\* Blocks that become holes count once, before and after.
LEMMA SoundAbsorb ==
  ASSUME NEW x \in DistanceSet, Sound(x), ~Shared, NEW S \in SUBSET Address
  PROVE  Sound(Absorb(x, S)) /\ Absorb(x, S).touched = x.touched
         /\ Absorb(x, S) \in DistanceSet
<1> DEFINE y == Absorb(x, S)
<1>1. y = [x EXCEPT !.set = @ \ S, !.holes = @ + Cardinality(x.set \cap S)]
  BY DEF Absorb
<1>2. /\ y.set = x.set \ S /\ y.holes = x.holes + Cardinality(x.set \cap S)
      /\ y.touched = x.touched
  BY <1>1 DEF DistanceSet
<1>3. /\ x.set \in SUBSET Address /\ x.holes \in Nat /\ x.touched \in SUBSET Address
      /\ x.set \ S \in SUBSET Address /\ x.set \cap S \in SUBSET Address
  BY DEF DistanceSet
<1>4. /\ Cardinality(x.set) \in Nat /\ Cardinality(x.set \ S) \in Nat
      /\ Cardinality(x.set \cap S) \in Nat /\ Cardinality(x.touched) \in Nat
      /\ Cardinality(x.set \ S) + Cardinality(x.set \cap S) = Cardinality(x.set)
  BY <1>3, BlocksFinite, SetSizes
<1>5. y \in DistanceSet
  BY AbsorbType DEF SameSet
<1> HIDE DEF y
<1>6. Sound(y)
  BY <1>2, <1>3, <1>4 DEF Sound
<1> QED
  BY <1>2, <1>5, <1>6 DEF y

LEMMA SoundMark ==
  ASSUME NEW x \in DistanceSet, Sound(x), NEW f
  PROVE  Sound([x EXCEPT !.finalize = f])
  BY DEF Sound, DistanceSet

LEMMA SoundAccess ==
  ASSUME IInv, ~Shared, NEW t \in Thread, Access(t), ~Stays,
         NEW d \in DsId, Exists(d), Sound(ds[d])
  PROVE  Sound(ds'[d])
<1>0. TypeOK /\ Samples
  BY DEF IInv
<1>1. PICK a \in Address, w \in BOOLEAN :
        /\ ds[d].addr = a /\ d \in Linked(t) \cup Watched(t, w)
             => \E f \in FinalizeStatus : ds'[d] = [ds[d] EXCEPT !.finalize = f]
        /\ ~(ds[d].addr = a /\ d \in Linked(t) \cup Watched(t, w))
             => ds'[d] = Touch(IF d \in Linked(t) THEN Insert(ds[d], a) ELSE ds[d], d, t, a)
  BY AccessShape
<1>2. ds[d] \in DistanceSet
  BY <1>0, ExistsType
<1>3. CASE ds[d].addr = a /\ d \in Linked(t) \cup Watched(t, w)
  BY <1>1, <1>2, <1>3, SoundMark
<1>4. CASE d \in Linked(t) /\ ds[d].addr # a
  <2> DEFINE x == Insert(ds[d], a)
  <2>1. x \in DistanceSet /\ x.owner = ds[d].owner /\ x.addr = ds[d].addr
    BY <1>2, InsertType DEF SameSet
  <2>2. ds[d].owner = t
    BY <1>0, <1>4, LinkedExist
  <2>3. t \in InQueue
    <3>1. distance_sets_[t] # <<>>
      BY <1>0, <1>4, ListElements DEF Linked, TypeOK, SampleTypeOK
    <3> QED
      BY <1>0, <3>1 DEF Samples
  <2>4. Tracked(d)
    BY <1>4, <2>3 DEF Tracked
  <2>5. ds'[d] = Touch(x, d, t, a)
    BY <1>1, <1>4
  <2>6. Touch(x, d, t, a) = [x EXCEPT !.touched = @ \cup {a}]
    BY <1>4, <2>1, <2>2, <2>4 DEF Touch
  <2> QED
    BY <1>2, <2>5, <2>6, SoundInsert
<1>5. CASE d \notin Linked(t) /\ ~(ds[d].addr = a /\ d \in Linked(t) \cup Watched(t, w))
  <2>1. ds'[d] = Touch(ds[d], d, t, a)
    BY <1>1, <1>5
  <2> QED
    BY <1>2, <2>1, SoundTouch
<1> QED
  BY <1>3, <1>4, <1>5

LEMMA SoundStep ==
  ASSUME IInv, SoundSamples, NEW t \in Thread, ThreadStep(t), UNCHANGED setup
  PROVE  SoundSamples'
<1>0. TypeOK /\ Samples /\ Calls /\ Oldest /\ (Shared' <=> Shared)
  BY DEF IInv, Shared
<1>1. SUFFICES ASSUME ~Shared, NEW d \in DsId, Exists(d)'
               PROVE  Sound(ds'[d])
  BY <1>0 DEF SoundSamples, Sound
<1>2. Exists(d) => Sound(ds[d]) /\ ds[d] \in DistanceSet
  BY <1>0, <1>1, ExistsType DEF SoundSamples
<1>3. CASE UNCHANGED ds
  BY <1>1, <1>2, <1>3 DEF Exists
<1>4. CASE UNCHANGED sampleVars \/ JoinQueue(t) \/ Leave(t)
  BY <1>3, <1>4 DEF sampleVars, JoinQueue, Leave, setVars
<1>5. CASE Access(t) /\ ~Stays
  <2>1. Exists(d)
    BY <1>0, <1>1, <1>5, AccessSamples DEF SetsGoOn, Exists
  <2> QED
    BY <1>1, <1>2, <1>5, <2>1, SoundAccess
<1>6. CASE NewSampledAddress(t)
  <2>1. ds' = [ds EXCEPT ![created + 1] = Fresh(t, ref[t][1])]
    BY <1>0, <1>6, NewSample
  <2>2. CASE d = created + 1
    <3>1. ds'[d] = Fresh(t, ref[t][1])
      BY <1>0, <2>1, <2>2 DEF TypeOK, SampleTypeOK
    <3>2. ds'[d].set = {} /\ ds'[d].touched = {} /\ ds'[d].holes = 0
      BY <3>1 DEF Fresh
    <3>3. Cardinality({}) = 0
      BY FS_EmptySet
    <3> QED
      BY <3>2, <3>3 DEF Sound
  <2>3. CASE d # created + 1
    BY <1>0, <1>1, <1>2, <2>1, <2>3 DEF TypeOK, SampleTypeOK, Exists
  <2> QED
    BY <2>2, <2>3
<1>7. CASE Prune(t)
  <2>1. Exists(d)
    BY <1>1, <1>7, PruneEffect
  <2>2. ds'[d] = ds[d] \/ ds'[d] = [ds[d] EXCEPT !.finalize = "kPruneFinalize"]
    BY <1>0, <1>7 DEF Prune, TypeOK, SampleTypeOK
  <2> QED
    BY <1>2, <2>1, <2>2, SoundMark
<1>8. CASE Stage1(t) /\ ~Stays
  <2>1. FirstStage(t, TodoOf(t)) /\ \A e \in Removed(t, TodoOf(t)) : ~Missing(e)
    BY <1>8, Stage1Step
  <2>2. Exists(d)
    BY <1>0, <1>1, <2>1, FirstStageSamples DEF SetsGoOn, Exists
  <2>3. \/ ds'[d] = ds[d]
        \/ ds'[d] = [ds[d] EXCEPT !.chain = @ \cup Heads(d), !.pulled = Others(d) # {}]
    BY <2>1 DEF FirstStage
  <2>4. /\ ds'[d].set = ds[d].set /\ ds'[d].holes = ds[d].holes
        /\ ds'[d].touched = ds[d].touched
    BY <1>2, <2>2, <2>3 DEF DistanceSet
  <2> QED
    BY <1>2, <2>2, <2>4 DEF Sound
<1>9. CASE Stage2(t) /\ ~Stays
  <2> DEFINE merged == IF plan[t].merge THEN LinkedOf(ServedOf(t)) \ DyingOf(t) ELSE {}
  <2>1. /\ SecondStage(t, SyncedOf(t), ServedOf(t))
        /\ plan[t].merge => \A e \in LinkedOf(ServedOf(t)) \ DyingOf(t) : ~Missing(e)
    BY <1>9, Stage2Step
  <2>2. ds'[d] = IF d \in DyingOf(t) THEN Finalized(ds[d])
                 ELSE IF d \in merged THEN Absorb(ds[d], Heads(d)) ELSE ds[d]
    BY <2>1 DEF SecondStage, DyingOf
  <2>3. d \notin DyingOf(t)
    BY <1>0, <1>1, <2>1, SecondStageSamples DEF Exists, FinalizeStatus
  <2>4. Exists(d)
    BY <1>0, <1>1, <2>1, <2>3, SecondStageSamples DEF Exists
  <2>5. CASE d \in merged
    <3>1. ~Missing(d)
      BY <2>1, <2>5
    <3>2. Heads(d) \in SUBSET Address
      BY <1>0, <3>1, HeadsType
    <3>3. ds'[d] = Absorb(ds[d], Heads(d))
      BY <2>2, <2>3, <2>5
    <3> QED
      BY <1>1, <1>2, <2>4, <3>2, <3>3, SoundAbsorb
  <2>6. CASE d \notin merged
    BY <1>2, <2>2, <2>3, <2>4, <2>6
  <2> QED
    BY <2>5, <2>6
<1> QED
  BY <1>4, <1>5, <1>6, <1>7, <1>8, <1>9, OtherStepsSamples

LEMMA SoundKept == IInv /\ SoundSamples /\ [Next]_vars => SoundSamples'
<1> SUFFICES ASSUME IInv, SoundSamples, [Next]_vars PROVE SoundSamples'
  OBVIOUS
<1>1. CASE Next /\ \E t \in Thread : ThreadStep(t)
  BY <1>1, SoundStep DEF Next, Running
<1>2. CASE (Running /\ DumpStatsPython) \/ UNCHANGED vars
  BY <1>2 DEF DumpStatsPython, Running, vars, setVars, SoundSamples, Shared, Exists, Sound
<1> QED
  BY <1>1, <1>2 DEF Next

\* What a sample of a private stack reports is bounded by what its owner touched.
LEMMA SoundDistance ==
  ASSUME NEW x \in DistanceSet, Sound(x), ~Shared, Distance(x) >= 0
  PROVE  Distance(x) <= Cardinality(x.touched)
<1>1. Sound(Absorb(x, x.chain)) /\ Absorb(x, x.chain).touched = x.touched
  BY SoundAbsorb DEF DistanceSet
<1>2. Distance(x) \in {kInvalidationMiss, kColdMiss, Depth(Absorb(x, x.chain))}
  BY DEF Distance
<1>3. Distance(x) = Depth(Absorb(x, x.chain))
  BY <1>2 DEF kInvalidationMiss, kColdMiss
<1> QED
  BY <1>1, <1>3 DEF Sound, Depth

\* The blocks in the write sets of d.
Held(d) == {a \in Address : \E i \in InQueue : \E S \in ToSet(write_sets_[i][d]) : a \in S}

\* With shared stacks, what was touched while d was tracked is in its own set, in the
\* write sets that were pulled into it or in those that are still out.
Exact(d) ==
  ds[d].holes = 0 /\ ds[d].touched = ds[d].set \cup ds[d].chain \cup Held(d)

ExactSamples == Shared => \A d \in DsId : Exists(d) => Exact(d)

LEMMA HeldKeeps ==
  ASSUME UNCHANGED thread_count, NEW d, \A i \in InQueue : write_sets_'[i][d] = write_sets_[i][d]
  PROVE  Held(d)' = Held(d)
<1>1. InQueue' = InQueue
  BY DEF InQueue
<1>2. \A i \in InQueue : ToSet(write_sets_'[i][d]) = ToSet(write_sets_[i][d])
  OBVIOUS
<1>3. Held(d)' = {a \in Address : \E i \in InQueue : \E S \in ToSet(write_sets_'[i][d]) : a \in S}
  BY <1>1 DEF Held
<1> QED
  BY <1>2, <1>3 DEF Held

\* Nothing is held for a sample that nobody watches, and otherwise what the threads hold.
LEMMA HeldIs ==
  ASSUME IInv, Matched, NEW d \in DsId
  PROVE  /\ d \notin Watchable => Held(d) = {}
         /\ d \in Watchable => Held(d) = Heads(d) /\ ~Missing(d)
<1>1. ASSUME d \notin Watchable PROVE Held(d) = {}
  <2>1. \A i \in InQueue : ToSet(write_sets_[i][d]) = {}
    BY <1>1, OneWriteSet
  <2> QED
    BY <2>1 DEF Held
<1>2. ASSUME d \in Watchable PROVE Held(d) = Heads(d) /\ ~Missing(d)
  <2>1. \A i \in Others(d) : /\ i \in InQueue /\ write_sets_[i][d] # <<>>
                             /\ ToSet(write_sets_[i][d]) = {Head(write_sets_[i][d])}
    BY <1>2, OneWriteSet DEF Others
  <2>2. \A i \in InQueue : i \notin Others(d) => ToSet(write_sets_[i][d]) = {}
    BY <1>2, OneWriteSet DEF Others
  <2>3. ~Missing(d)
    BY <2>1 DEF Missing
  <2>4. Heads(d) \in SUBSET Address
    BY <2>3, HeadsType DEF IInv
  <2>5. \A a : (\E i \in InQueue : \E S \in ToSet(write_sets_[i][d]) : a \in S)
                 <=> \E i \in Others(d) : a \in Head(write_sets_[i][d])
    BY <2>1, <2>2
  <2>6. \A a : a \in Heads(d) <=> \E i \in Others(d) : a \in Head(write_sets_[i][d])
    BY DEF Heads
  <2>7. Held(d) = {a \in Address : a \in Heads(d)}
    BY <2>5, <2>6 DEF Held
  <2> QED
    BY <2>3, <2>4, <2>7
<1> QED
  BY <1>1, <1>2

\* Between two rounds a sample is tracked as long as the others hold write sets for it.
LEMMA WatchedIsTracked ==
  ASSUME IInv, TeamInv, stage_ = 0, NEW d \in DsId
  PROVE  d \in Watchable <=> Tracked(d)
<1> USE DEF TeamInv
<1>1. \A e \in AllLinked : ~ds[e].pulled
  BY DEF Pulled
<1>2. \A u \in Thread : PastStage1(u) <=> pc[u] = "leave"
  BY StageOf DEF PastStage1
<1>3. \A u \in Thread : pc[u] = "leave" => u \in InQueue
  BY InTheQueue DEF IInv, TypeOK
<1>4. InQueue \subseteq Thread
  BY QueueType DEF IInv, TypeOK
<1>5. d \in Watchable <=> d \in AllLinked \/ \E u \in Thread : pc[u] = "leave" /\ newDS[u] = d
  BY <1>1, <1>2, IsWatchable
<1>6. d \in AllLinked <=> \E u \in InQueue : d \in Linked(u)
  BY DEF AllLinked
<1> QED
  BY <1>3, <1>4, <1>5, <1>6 DEF Tracked

\* A block goes into the one write set of a list.
LEMMA TouchList ==
  ASSUME NEW list \in Seq(SUBSET Address), Len(list) = 1, NEW a \in Address
  PROVE  ToSet([j \in DOMAIN list |-> list[j] \cup {a}]) = {Head(list) \cup {a}}
<1> DEFINE new == [j \in DOMAIN list |-> list[j] \cup {a}]
<1>1. DOMAIN list = 1 .. 1 /\ Head(list) = list[1]
  <2>1. list # <<>>
    OBVIOUS
  <2> QED
    BY <2>1
<1>3. DOMAIN new = {1} /\ new[1] = Head(list) \cup {a}
  BY <1>1
<1>4. ToSet(new) = {new[j] : j \in DOMAIN new}
  BY DEF ToSet
<1> HIDE DEF new
<1>5. ToSet(new) = {new[1]}
  BY <1>3, <1>4
<1> QED
  BY <1>3, <1>5 DEF new

\* A reference to another block than d's is in the write set that t holds for d, if any.
LEMMA HeldGrows ==
  ASSUME IInv, Matched, UNCHANGED thread_count, NEW t \in InQueue, NEW d \in DsId,
         NEW a \in Address, write_sets_[t][d] # <<>>,
         write_sets_'[t][d] = [j \in DOMAIN write_sets_[t][d] |-> write_sets_[t][d][j] \cup {a}],
         \A i \in InQueue \ {t} : write_sets_'[i][d] = write_sets_[i][d]
  PROVE  Held(d)' = Held(d) \cup {a}
<1> DEFINE list == write_sets_[t][d]
<1>1. /\ list \in Seq(SUBSET Address) /\ Len(list) = 1
      /\ ToSet(list) = {Head(list)}
  BY OneWriteSet
<1>2. ToSet(write_sets_'[t][d]) = {Head(list) \cup {a}}
  BY <1>1, TouchList
<1>3. \A i \in InQueue \ {t} : ToSet(write_sets_'[i][d]) = ToSet(write_sets_[i][d])
  OBVIOUS
<1> HIDE DEF list
<1>4. InQueue' = InQueue
  BY DEF InQueue
<1>5. Held(d)' = {b \in Address : \E i \in InQueue : \E S \in ToSet(write_sets_'[i][d]) : b \in S}
  BY <1>4 DEF Held
<1>6. \A b : (\E i \in InQueue : \E S \in ToSet(write_sets_'[i][d]) : b \in S)
               <=> b = a \/ \E i \in InQueue : \E S \in ToSet(write_sets_[i][d]) : b \in S
  <2>1. \A b : (\E S \in ToSet(write_sets_'[t][d]) : b \in S) <=> b \in Head(list) \/ b = a
    BY <1>2
  <2>2. \A b : (\E S \in ToSet(write_sets_[t][d]) : b \in S) <=> b \in Head(list)
    BY <1>1 DEF list
  <2> QED
    BY <1>3, <2>1, <2>2
<1> QED
  BY <1>5, <1>6 DEF Held

LEMMA ExactAccess ==
  ASSUME IInv, TeamInv, Shared, NEW t \in Thread, Access(t), ~Stays, stage_ = 0, t \in awake,
         NEW d \in DsId, Exists(d), Exact(d)
  PROVE  Exact(d)'
<1> USE DEF TeamInv
<1>0. TypeOK /\ Samples
  BY DEF IInv
<1>a. PICK a \in Address, w \in BOOLEAN :
        /\ \A e \in DsId : Exists(e) /\ ds[e].addr = a /\ e \in Linked(t) \cup Watched(t, w)
             => \E f \in FinalizeStatus : ds'[e] = [ds[e] EXCEPT !.finalize = f]
        /\ \A e \in DsId : Exists(e) /\ ~(ds[e].addr = a /\ e \in Linked(t) \cup Watched(t, w))
             => ds'[e] = Touch(IF e \in Linked(t) THEN Insert(ds[e], a) ELSE ds[e], e, t, a)
        /\ \A i \in Thread, e \in DsId : write_sets_'[i][e] =
             IF i = t /\ e \in Watched(t, w) /\ ds[e].addr # a
               THEN [j \in DOMAIN write_sets_[i][e] |-> write_sets_[i][e][j] \cup {a}]
               ELSE write_sets_[i][e]
        /\ Shared => Watched(t, w) = {e \in DsId : write_sets_[t][e] # <<>>}
  BY AccessShape
<1>1. /\ ds[d].addr = a /\ d \in Linked(t) \cup Watched(t, w)
           => \E f \in FinalizeStatus : ds'[d] = [ds[d] EXCEPT !.finalize = f]
      /\ ~(ds[d].addr = a /\ d \in Linked(t) \cup Watched(t, w))
           => ds'[d] = Touch(IF d \in Linked(t) THEN Insert(ds[d], a) ELSE ds[d], d, t, a)
      /\ Watched(t, w) = {e \in DsId : write_sets_[t][e] # <<>>}
      /\ \A i \in Thread : write_sets_'[i][d] =
           IF i = t /\ d \in Watched(t, w) /\ ds[d].addr # a
             THEN [j \in DOMAIN write_sets_[i][d] |-> write_sets_[i][d][j] \cup {a}]
             ELSE write_sets_[i][d]
  BY <1>a
<1>2. ds[d] \in DistanceSet
  BY <1>0, ExistsType
<1>3. /\ UNCHANGED thread_count /\ InQueue \subseteq Thread /\ t \in InQueue /\ pc[t] = "access"
  BY <1>0, AccessEffect, AwakeType, QueueType DEF TypeOK
<1>4. d \in Watched(t, w) <=> d \in Watchable /\ ds[d].owner # t
  BY <1>1, <1>3, OneWriteSet
<1>5. ds[d].holes = 0 /\ ds[d].touched = ds[d].set \cup ds[d].chain \cup Held(d)
  BY DEF Exact
<1>6. d \in Linked(t) => ds[d].owner = t /\ Tracked(d)
  BY <1>0, <1>3, LinkedExist DEF Tracked
<1>7. Tracked(d) => d \in Linked(t) \/ d \in Watched(t, w)
  <2>1. SUFFICES ASSUME Tracked(d), ds[d].owner = t PROVE d \in Linked(t)
    BY <1>4, WatchedIsTracked
  <2>2. PICK u \in InQueue : d \in Linked(u) \/ (pc[u] = "leave" /\ newDS[u] = d)
    BY <2>1 DEF Tracked
  <2>3. d \in Linked(u) => u = t
    BY <1>0, <1>3, <2>1, LinkedExist
  <2>4. pc[u] = "leave" /\ newDS[u] = d => u = t
    BY <1>0, <1>3, <2>1 DEF Samples, DsId, NoDs
  <2> QED
    BY <1>3, <2>2, <2>3, <2>4
<1>8. d \in Watched(t, w) => Tracked(d) /\ d \notin Linked(t)
  BY <1>4, <1>6, WatchedIsTracked
<1>9. CASE ds[d].addr = a /\ d \in Linked(t) \cup Watched(t, w)
  <2>1. /\ ds'[d].holes = ds[d].holes /\ ds'[d].touched = ds[d].touched
        /\ ds'[d].set = ds[d].set /\ ds'[d].chain = ds[d].chain
    BY <1>1, <1>2, <1>9 DEF DistanceSet
  <2>2. Held(d)' = Held(d)
    BY <1>1, <1>3, <1>9, HeldKeeps
  <2> QED
    BY <1>5, <2>1, <2>2 DEF Exact
<1>10. CASE ds[d].addr = a /\ d \notin Linked(t) \cup Watched(t, w)
  <2>1. ds'[d] = ds[d]
    BY <1>1, <1>10 DEF Touch
  <2>2. Held(d)' = Held(d)
    BY <1>1, <1>3, <1>10, HeldKeeps
  <2> QED
    BY <1>5, <2>1, <2>2 DEF Exact
<1>11. CASE ds[d].addr # a /\ d \in Linked(t)
  <2> DEFINE x == Insert(ds[d], a)
  <2>1. ds'[d] = Touch(x, d, t, a)
    BY <1>1, <1>11
  <2>2. x.addr = ds[d].addr /\ x \in DistanceSet
    BY <1>2, InsertType DEF SameSet
  <2>3. Touch(x, d, t, a) = [x EXCEPT !.touched = @ \cup {a}]
    BY <1>6, <1>11, <2>2 DEF Touch
  <2>4. /\ x.holes = 0 /\ x.set = ds[d].set \cup {a}
        /\ x.chain = ds[d].chain /\ x.touched = ds[d].touched
    BY <1>2, <1>5 DEF Insert, DistanceSet
  <2> HIDE DEF x
  <2>5. /\ ds'[d].holes = 0 /\ ds'[d].set = ds[d].set \cup {a}
        /\ ds'[d].chain = ds[d].chain /\ ds'[d].touched = ds[d].touched \cup {a}
    BY <2>1, <2>2, <2>3, <2>4 DEF DistanceSet
  <2>6. Held(d)' = Held(d)
    BY <1>1, <1>3, <1>8, <1>11, HeldKeeps
  <2> QED
    BY <1>5, <2>5, <2>6 DEF Exact
<1>12. CASE ds[d].addr # a /\ d \in Watched(t, w)
  <2>1. ds'[d] = Touch(ds[d], d, t, a)
    BY <1>1, <1>8, <1>12
  <2>2. ds'[d] = [ds[d] EXCEPT !.touched = @ \cup {a}]
    BY <1>8, <1>12, <2>1 DEF Touch
  <2>3. /\ ds'[d].holes = 0 /\ ds'[d].set = ds[d].set
        /\ ds'[d].chain = ds[d].chain /\ ds'[d].touched = ds[d].touched \cup {a}
    BY <1>2, <1>5, <2>2 DEF DistanceSet
  <2>4. Held(d)' = Held(d) \cup {a}
    <3>1. write_sets_[t][d] # <<>>
      BY <1>1, <1>12
    <3>2. write_sets_'[t][d] = [j \in DOMAIN write_sets_[t][d] |-> write_sets_[t][d][j] \cup {a}]
      BY <1>1, <1>12
    <3>3. \A i \in InQueue \ {t} : write_sets_'[i][d] = write_sets_[i][d]
      BY <1>1, <1>3
    <3> QED
      BY <1>3, <3>1, <3>2, <3>3, HeldGrows
  <2> QED
    BY <1>5, <2>3, <2>4 DEF Exact
<1>13. CASE ds[d].addr # a /\ d \notin Linked(t) \cup Watched(t, w)
  <2>1. ds'[d] = ds[d]
    BY <1>1, <1>7, <1>13 DEF Touch
  <2>2. Held(d)' = Held(d)
    BY <1>1, <1>3, <1>13, HeldKeeps
  <2> QED
    BY <1>5, <2>1, <2>2 DEF Exact
<1> QED
  BY <1>9, <1>10, <1>11, <1>12, <1>13

LEMMA PrependTo ==
  ASSUME NEW S, NEW e \in S
  PROVE  \A list \in Seq(S) : ToSet(Cons(e, list)) = ToSet(list) \cup {e}
<1> SUFFICES ASSUME NEW list \in Seq(S)
             PROVE  ToSet(Cons(e, list)) = ToSet(list) \cup {e}
  OBVIOUS
<1> QED
  BY ListPrepend

LEMMA PrependEmpty ==
  \A list \in Seq(SUBSET Address) : ToSet(Cons({}, list)) = ToSet(list) \cup {{}}
<1>1. {} \in SUBSET Address
  OBVIOUS
<1> QED
  BY <1>1, PrependTo, Zenon

LEMMA ExactFirst ==
  ASSUME IInv, TeamInv, Shared, NEW t \in Thread, Stage1(t), ~Stays,
         NEW d \in DsId, Exists(d), Exact(d), UNCHANGED thread_count
  PROVE  Exact(d)'
<1> USE DEF TeamInv
<1> DEFINE todo == TodoOf(t)
<1>0. TypeOK /\ Samples /\ ds[d] \in DistanceSet /\ InQueue' = InQueue
  BY ExistsType DEF IInv, InQueue
<1>1. FirstStage(t, todo) /\ pc[t] = "work1"
  BY Stage1Step
<1>2. /\ d \in Removed(t, todo) <=> d \in AllLinked /\ Marked(d) /\ ds[d].owner \in ServedBy(t)
      /\ \A i \in InQueue : write_sets_'[i][d] = IF d \in Pushed(t, i) THEN Cons({}, Cut(t, todo, i, d))
                                                 ELSE Cut(t, todo, i, d)
  <2>1. InQueue \subseteq Thread
    BY <1>0, QueueType DEF TypeOK
  <2> QED
    BY <2>1, FirstEffect
<1>3. ds'[d] = IF d \in Removed(t, todo)
        THEN [ds[d] EXCEPT !.chain = @ \cup Heads(d), !.pulled = Others(d) # {}] ELSE ds[d]
  BY <1>1 DEF FirstStage
<1>4. ds[d].holes = 0 /\ ds[d].touched = ds[d].set \cup ds[d].chain \cup Held(d)
  BY DEF Exact
<1> HIDE DEF todo
<1>5. CASE d \in Removed(t, todo)
  <2>1. ~ds[d].pulled /\ d \in AllLinked
    BY <1>1, <1>2, <1>5, NotYetOut
  <2>2. d \in Watchable
    BY <2>1, IsWatchable
  <2>3. Held(d) = Heads(d)
    BY <2>2, HeldIs
  <2>4. /\ ds'[d].holes = 0 /\ ds'[d].set = ds[d].set /\ ds'[d].touched = ds[d].touched
        /\ ds'[d].chain = ds[d].chain \cup Heads(d)
    BY <1>0, <1>3, <1>4, <1>5 DEF DistanceSet
  <2>5. ASSUME NEW i \in InQueue PROVE ToSet(write_sets_'[i][d]) = {}
    <3>1. d \notin Pushed(t, i)
      BY <2>1, NewApart DEF Pushed, IInv, Calls, OneCall
    <3>2. write_sets_'[i][d] = Cut(t, todo, i, d)
      BY <1>2, <3>1
    <3>3. Cut(t, todo, i, d) = <<>>
      BY <1>5, <2>2, OneWriteSet DEF Cut, Others
    <3>4. <<>> \in Seq(SUBSET Address)
      OBVIOUS
    <3> QED
      BY <3>2, <3>3, <3>4, ListElements
  <2>6. Held(d)' = {}
    BY <1>0, <2>5 DEF Held
  <2> QED
    BY <1>4, <2>3, <2>4, <2>6 DEF Exact
<1>6. CASE d \notin Removed(t, todo)
  <2>1. ds'[d] = ds[d]
    BY <1>3, <1>6
  <2>2. ASSUME NEW i \in InQueue, NEW b
        PROVE  (\E S \in ToSet(write_sets_'[i][d]) : b \in S)
                  <=> \E S \in ToSet(write_sets_[i][d]) : b \in S
    <3>1. write_sets_[i][d] \in Seq(SUBSET Address) /\ Cut(t, todo, i, d) = write_sets_[i][d]
      BY <1>6, OneWriteSet DEF Cut
    <3>2. ToSet(write_sets_'[i][d]) \in {ToSet(write_sets_[i][d]), ToSet(write_sets_[i][d]) \cup {{}}}
      BY <1>2, <3>1, PrependEmpty
    <3> QED
      BY <3>2
  <2>3. Held(d)' = {b \in Address : \E i \in InQueue : \E S \in ToSet(write_sets_'[i][d]) : b \in S}
    BY <1>0 DEF Held
  <2>4. Held(d)' = Held(d)
    BY <2>2, <2>3 DEF Held
  <2> QED
    BY <1>4, <2>1, <2>4 DEF Exact
<1> QED
  BY <1>5, <1>6

LEMMA ExactSecond ==
  ASSUME IInv, TeamInv, Shared, NEW t \in Thread, Stage2(t), ~Stays,
         NEW d \in DsId, Exists(d), Exact(d), Exists(d)'
  PROVE  Exact(d)'
<1> USE DEF TeamInv
<1>0. ds[d] \in DistanceSet
  BY ExistsType DEF IInv
<1>1. d \notin DyingOf(t) /\ UNCHANGED thread_count
  BY SecondEffect
<1>2. ds[d].holes = 0 /\ ds[d].touched = ds[d].set \cup ds[d].chain \cup Held(d)
  BY DEF Exact
<1>3. CASE d \in MergedBy(t)
  <2>1. d \in Watchable /\ ds'[d] = Absorb(ds[d], Heads(d))
    BY <1>3, SecondSets
  <2>2. Held(d) = Heads(d)
    BY <2>1, HeldIs
  <2>3. /\ ds'[d].holes = 0 /\ ds'[d].set = ds[d].set \cup Heads(d)
        /\ ds'[d].chain = ds[d].chain /\ ds'[d].touched = ds[d].touched
    BY <1>0, <1>2, <2>1 DEF Absorb, DistanceSet
  <2>4. Emptied(d)'
    BY <1>3, MergeEmpties
  <2>5. Held(d)' = {}
    BY <2>4 DEF Emptied, Held
  <2> QED
    BY <1>2, <2>2, <2>3, <2>5 DEF Exact
<1>4. CASE d \notin MergedBy(t)
  <2>1. ds'[d] = ds[d] /\ \A i \in InQueue : write_sets_'[i][d] = write_sets_[i][d]
    BY <1>1, <1>4, SecondSets
  <2>2. Held(d)' = Held(d)
    BY <1>1, <2>1, HeldKeeps
  <2> QED
    BY <1>2, <2>1, <2>2 DEF Exact
<1> QED
  BY <1>3, <1>4

LEMMA ExactStep ==
  ASSUME IInv, TeamInv, TeamIsFixed, ExactSamples, NEW t \in Thread, ThreadStep(t),
         UNCHANGED setup
  PROVE  ExactSamples'
<1> USE DEF TeamInv
<1>0. TypeOK /\ Samples /\ (Shared' <=> Shared)
  BY DEF IInv, Shared
<1>1. SUFFICES ASSUME Shared, NEW d \in DsId, Exists(d)' PROVE Exact(d)'
  BY <1>0 DEF ExactSamples
<1>2. Exists(d) => Exact(d)
  BY <1>1 DEF ExactSamples
<1>3. CASE UNCHANGED <<ds, write_sets_, thread_count>>
  <2>1. Exists(d) /\ ds'[d] = ds[d] /\ \A i \in InQueue : write_sets_'[i][d] = write_sets_[i][d]
    BY <1>1, <1>3 DEF Exists
  <2>2. Held(d)' = Held(d)
    BY <1>3, <2>1, HeldKeeps
  <2> QED
    BY <1>2, <2>1, <2>2 DEF Exact
<1>4. CASE UNCHANGED teamVars \/ Strolls(t) \/ Gathers(t) \/ Leave(t)
  <2>1. UNCHANGED <<ds, write_sets_, thread_count>>
    BY <1>4, LeaveEffect DEF teamVars, samplesOfTeam, Strolls, Gathers
  <2> QED
    BY <1>3, <2>1
<1>5. CASE Acts(t) /\ Access(t) /\ ~Stays
  <2>1. Exists(d)
    BY <1>1, <1>5, AccessEffect
  <2> QED
    BY <1>1, <1>2, <1>5, <2>1, ExactAccess DEF Acts
<1>6. CASE Acts(t) /\ NewSampledAddress(t)
  <2>1. /\ UNCHANGED <<write_sets_, thread_count>>
        /\ ds' = [ds EXCEPT ![created + 1] = Fresh(t, ref[t][1])]
        /\ created + 1 \in DsId /\ ~Exists(created + 1)
    BY <1>0, <1>6, NewEffect, NewSample DEF IInv
  <2>2. Held(d)' = Held(d)
    BY <2>1, HeldKeeps
  <2>3. CASE d = created + 1
    <3>1. ds'[d] = Fresh(t, ref[t][1])
      BY <1>0, <2>1, <2>3 DEF TypeOK, SampleTypeOK
    <3>2. ds'[d].set = {} /\ ds'[d].touched = {} /\ ds'[d].chain = {} /\ ds'[d].holes = 0
      BY <3>1 DEF Fresh
    <3>3. d \notin Watchable
      <4>1. d \notin AllLinked
        BY <1>0, <2>1, <2>3, AllLinkedExist
      <4>2. \A u \in Thread : newDS[u] # d
        BY <2>1, <2>3, NewApart DEF DsId, NoDs
      <4> QED
        BY <4>1, <4>2, IsWatchable
    <3>4. Held(d) = {}
      BY <3>3, HeldIs
    <3> QED
      BY <2>2, <3>2, <3>4 DEF Exact
  <2>4. CASE d # created + 1
    <3>1. ds'[d] = ds[d]
      BY <1>0, <2>1, <2>4 DEF TypeOK, SampleTypeOK
    <3> QED
      BY <1>1, <1>2, <2>2, <3>1 DEF Exact, Exists
  <2> QED
    BY <2>3, <2>4
<1>7. CASE Acts(t) /\ Prune(t)
  <2>1. Exists(d) /\ UNCHANGED <<write_sets_, thread_count>>
    BY <1>1, <1>7, PruneEffect
  <2>2. ds[d] \in DistanceSet
    BY <1>0, <2>1, ExistsType
  <2>3. ds'[d] = ds[d] \/ ds'[d] = [ds[d] EXCEPT !.finalize = "kPruneFinalize"]
    BY <1>0, <1>7 DEF Prune, TypeOK, SampleTypeOK
  <2>4. /\ ds'[d].holes = ds[d].holes /\ ds'[d].set = ds[d].set
        /\ ds'[d].chain = ds[d].chain /\ ds'[d].touched = ds[d].touched
    BY <2>2, <2>3 DEF DistanceSet
  <2>5. Held(d)' = Held(d)
    BY <2>1, HeldKeeps
  <2> QED
    BY <1>2, <2>1, <2>4, <2>5 DEF Exact
<1>8. CASE Ends(t, 1) /\ Stage1(t) /\ ~Stays
  <2>1. Exists(d) /\ UNCHANGED thread_count
    BY <1>1, <1>8, FirstEffect DEF Ends
  <2> QED
    BY <1>1, <1>2, <1>8, <2>1, ExactFirst
<1>9. CASE Ends(t, 2) /\ Stage2(t) /\ ~Stays
  <2>1. Exists(d)
    BY <1>1, <1>9, SecondEffect
  <2> QED
    BY <1>1, <1>2, <1>9, <2>1, ExactSecond
<1> QED
  BY <1>4, <1>5, <1>6, <1>7, <1>8, <1>9, TeamSteps

LEMMA ExactKept ==
  IInv /\ (TeamIsFixed => TeamInv /\ ExactSamples) /\ [Next]_vars
    => (TeamIsFixed => ExactSamples)'
<1> SUFFICES ASSUME IInv, TeamIsFixed => TeamInv /\ ExactSamples, [Next]_vars, TeamIsFixed'
             PROVE  ExactSamples'
  OBVIOUS
<1>1. TeamIsFixed
  BY DEF Next, Running, vars, TeamIsFixed
<1>2. CASE Next /\ \E t \in Thread : ThreadStep(t)
  BY <1>1, <1>2, ExactStep DEF Next, Running
<1>3. CASE (Running /\ DumpStatsPython) \/ UNCHANGED vars
  <2>1. UNCHANGED <<setup, ds, write_sets_, thread_count>>
    BY <1>3 DEF DumpStatsPython, Running, vars, globalVars, listVars, setVars
  <2> QED
    BY <1>1, <2>1 DEF ExactSamples, Shared, Exists, Exact, Held, InQueue
<1> QED
  BY <1>2, <1>3 DEF Next

\* What a sample of a shared stack reports is what was touched, once nothing is held for it.
LEMMA ExactDistance ==
  ASSUME IInv, NEW d \in DsId, Exists(d), Exact(d), Held(d) = {}, Shared, Distance(ds[d]) >= 0
  PROVE  Distance(ds[d]) = Cardinality(ds[d].touched)
<1> DEFINE x == ds[d]
<1>1. x \in DistanceSet
  BY ExistsType DEF IInv
<1>2. x.holes = 0 /\ x.touched = x.set \cup x.chain
  BY DEF Exact
<1> HIDE DEF x
<1>3. Absorb(x, x.chain).set = x.set \cup x.chain /\ Absorb(x, x.chain).holes = 0
  BY <1>1, <1>2 DEF Absorb, DistanceSet
<1>4. Distance(x) \in {kInvalidationMiss, kColdMiss, Depth(Absorb(x, x.chain))}
  BY DEF Distance
<1>5. Distance(x) >= 0
  BY DEF x
<1>6. Distance(x) = Depth(Absorb(x, x.chain))
  BY <1>4, <1>5 DEF kInvalidationMiss, kColdMiss
<1>7. Cardinality(x.set \cup x.chain) \in Nat
  <2>1. x.set \cup x.chain \in SUBSET Address
    BY <1>1 DEF DistanceSet
  <2> QED
    BY <2>1, BlocksFinite
<1>8. Distance(x) = Cardinality(x.set \cup x.chain)
  BY <1>3, <1>6, <1>7 DEF Depth
<1> QED
  BY <1>2, <1>8 DEF x

\* Only the second stage of a round deletes samples.
LEMMA DeletedBy ==
  ASSUME IInv, NEW t \in Thread, ThreadStep(t), NEW d \in DsId, Exists(d),
         ds'[d].finalize = "deleted"
  PROVE  Stage2(t) /\ ~Stays /\ d \in DyingOf(t)
<1>0. TypeOK /\ Samples /\ Calls /\ Oldest
  BY DEF IInv
<1>1. ~Exists(d)'
  BY DEF Exists, FinalizeStatus
<1>2. ~(UNCHANGED ds)
  BY <1>1 DEF Exists
<1>3. ~(UNCHANGED sampleVars) /\ ~JoinQueue(t) /\ ~Leave(t)
  BY <1>2 DEF sampleVars, JoinQueue, Leave, setVars
<1>4. ~(Access(t) /\ ~Stays)
  BY <1>0, <1>1, AccessSamples DEF SetsGoOn
<1>5. ~NewSampledAddress(t)
  <2>1. SUFFICES ASSUME NewSampledAddress(t) PROVE FALSE
    OBVIOUS
  <2>2. PICK c \in DsId : ~Exists(c) /\ \A e \in DsId \ {c} : ds'[e] = ds[e]
    BY <2>1, NewEffect
  <2>3. ds'[d] = ds[d]
    BY <2>2
  <2> QED
    BY <1>1, <2>3 DEF Exists
<1>6. ~Prune(t)
  BY <1>1, PruneEffect
<1>7. ~(Stage1(t) /\ ~Stays)
  <2>1. SUFFICES ASSUME Stage1(t), ~Stays PROVE FALSE
    OBVIOUS
  <2>2. FirstStage(t, TodoOf(t)) /\ \A e \in Removed(t, TodoOf(t)) : ~Missing(e)
    BY <2>1, Stage1Step
  <2> QED
    BY <1>0, <1>1, <2>2, FirstStageSamples DEF SetsGoOn
<1>8. Stage2(t) /\ ~Stays
  BY <1>3, <1>4, <1>5, <1>6, <1>7, OtherStepsSamples
<1>9. /\ SecondStage(t, SyncedOf(t), ServedOf(t))
      /\ plan[t].merge => \A e \in LinkedOf(ServedOf(t)) \ DyingOf(t) : ~Missing(e)
  BY <1>8, Stage2Step
<1>10. d \in DyingOf(t)
  BY <1>0, <1>1, <1>9, SecondStageSamples
<1> QED
  BY <1>8, <1>10

\* Nothing is held for a sample that dies.
LEMMA NothingHeld ==
  ASSUME IInv, TeamInv, NEW t \in Thread, Stage2(t), ~Stays, NEW d \in DyingOf(t)
  PROVE  Held(d) = {}
<1> USE DEF TeamInv
<1>1. d \in AllLinked /\ Marked(d) /\ d \in DsId /\ ds[d].owner \in InQueue /\ stage_ = 2
  <2>1. DyingOf(t) \subseteq AllLinked /\ DyingOf(t) \subseteq DsId
    BY DyingType DEF IInv
  <2>2. Marked(d)
    BY DEF DyingOf
  <2> QED
    BY <2>1, <2>2, Stage2Step, AllLinkedExist DEF IInv
<1>2. \A u \in Thread : newDS[u] # d
  BY <1>1, NewApart DEF DsId, NoDs
<1>3. CASE thread_count # 1
  <2>1. ds[d].pulled
    BY <1>1, <1>3 DEF Pulled
  <2>2. d \notin Watchable
    BY <1>1, <1>2, <2>1, IsWatchable
  <2> QED
    BY <1>1, <2>2, HeldIs
<1>4. CASE thread_count = 1
  <2>1. \A i \in InQueue : ds[d].owner = i
    BY <1>1, <1>4 DEF InQueue
  <2>2. \A i \in InQueue : ToSet(write_sets_[i][d]) = {}
    BY <1>1, <2>1, OneWriteSet
  <2> QED
    BY <2>2 DEF Held
<1> QED
  BY <1>3, <1>4

\* The distances that are recorded are right: with shared stacks the number of blocks that
\* all threads touched since the sample was taken, with private stacks at most what the
\* owner touched.
THEOREM DistancesAreFaithful == Spec => DistanceFaithful
<1> DEFINE Inv == IInv /\ (TeamIsFixed => TeamInv)
           More == TeamIsFixed => ExactSamples
           Right(d) == Exists(d) /\ ds'[d].finalize = "deleted" /\ Distance(ds[d]) >= 0 =>
             LET blocks == Cardinality(ds[d].touched) IN
             IF Shared THEN TeamIsFixed => Distance(ds[d]) = blocks
                       ELSE Distance(ds[d]) <= blocks
           Done == \A d \in DsId : Right(d)
<1>1. Init => SoundSamples /\ More
  <2>1. Init => \A d \in DsId : ~Exists(d)
    BY DEF Init, Exists, FinalizeStatus
  <2> QED
    BY <2>1 DEF SoundSamples, ExactSamples
<1>2. Inv /\ SoundSamples /\ [Next]_vars => SoundSamples'
  BY SoundKept
<1>3. Inv /\ More /\ [Next]_vars => More'
  BY ExactKept
<1>4. Inv /\ SoundSamples /\ More /\ [Next]_vars => [Done]_vars
  <2>1. SUFFICES ASSUME Inv, SoundSamples, More, Next, NEW d \in DsId, Exists(d),
                        ds'[d].finalize = "deleted", Distance(ds[d]) >= 0
                 PROVE  IF Shared THEN TeamIsFixed => Distance(ds[d]) = Cardinality(ds[d].touched)
                                  ELSE Distance(ds[d]) <= Cardinality(ds[d].touched)
    BY DEF vars
  <2>2. CASE ~Shared
    <3>1. ds[d] \in DistanceSet /\ Sound(ds[d])
      BY <2>1, <2>2, ExistsType DEF SoundSamples, IInv
    <3> QED
      BY <2>1, <2>2, <3>1, SoundDistance
  <2>3. CASE Shared /\ TeamIsFixed
    <3>1. Exact(d)
      BY <2>1, <2>3 DEF ExactSamples
    <3>2. PICK t \in Thread : ThreadStep(t)
      <4>1. DumpStatsPython => UNCHANGED ds
        BY DEF DumpStatsPython, setVars
      <4>2. ~(UNCHANGED ds)
        BY <2>1 DEF Exists, FinalizeStatus
      <4> QED
        BY <2>1, <4>1, <4>2 DEF Next
    <3>3. Held(d) = {}
      BY <2>1, <2>3, <3>2, DeletedBy, NothingHeld
    <3> QED
      BY <2>1, <2>3, <3>1, <3>3, ExactDistance
  <2> QED
    BY <2>2, <2>3
<1>5. Spec => []Inv
  BY TeamInvariance
<1>6. DistanceFaithful <=> [][Done]_vars
  BY DEF DistanceFaithful
<1> HIDE DEF Inv, More, Done
<1> QED
  BY <1>1, <1>2, <1>3, <1>4, <1>5, <1>6, PTL DEF Spec
=============================================================================
