------------------------ MODULE ParallelSampledStack ------------------------
(***************************************************************************)
(* The parallel reuse distance sampler, parallelsampledstack.{h,cc}, as    *)
(* the Pin tool sampledreuse_parallel.cc drives it.  Every thread owns     *)
(* distance sets, one per block it samples, and keeps a write set for each *)
(* distance set of the other threads.  Threads work on their own sets in   *)
(* parallel; whoever adds, merges or finalizes a sample calls for a        *)
(* synchronised round, in which the awake threads also work for the        *)
(* sleeping ones.                                                          *)
(*                                                                         *)
(* The barrier is the one of MultistageBarrier at a coarser grain: each of *)
(* its methods is one step, and the threads that spin at a stage leave it  *)
(* at the moment of its release.  A stage's work and the arrival at its    *)
(* end are one step per thread: within a stage the loops of different      *)
(* threads work on different sets, or hold the list's lock and commute,    *)
(* but for the one pair (removal by one, first population by another) that *)
(* the order of their steps decides.                                       *)
(*                                                                         *)
(* Left out: program counters, read/write histograms, creation times and   *)
(* the text of the report; global_enabled_ is on.                          *)
(***************************************************************************)
EXTENDS Integers, Sequences, SequencesExt, FiniteSets, ThreadQueue

CONSTANTS
  ThreadCount,    \* threads that ever appear, at most
  Address,        \* blocks (addresses after GetBlock)
  MaxSamples,     \* bound: distance sets ever created, at most
  MaxPending,     \* bound: triggers a thread can have outstanding
  Setups          \* what a behaviour can start with, see Setup

\* A behaviour is one of a sampler of the type stack_type, with threads that appear,
\* of which the founders have met in a first round before Init, with the blocks that
\* the program uses, a bound on the samples, and switchers, whose program turns the
\* sampling of itself on and off.
Setup ==
  [ stack_type : {"kPrivateStacks", "kSharedStacks"},
    threads : 0 .. ThreadCount, founders : 0 .. ThreadCount,
    blocks : SUBSET Address, samples : 0 .. MaxSamples,
    switchers : SUBSET (0 .. ThreadCount) ]

ASSUME SamplerAssumption ==
  /\ ThreadCount \in Nat /\ MaxSamples \in Nat /\ MaxPending \in Nat
  /\ IsFiniteSet(Address)
  /\ Setups \subseteq Setup
  /\ \A s \in Setups : s.founders <= s.threads

Thread == 0 .. ThreadCount - 1
DsId == 1 .. MaxSamples
NoDs == 0

VARIABLES
  \* chosen at the start, and never changed: an element of Setups
  setup,
  \* the barrier: see MultistageBarrier
  stage_, threads_, awake, total_threads_,
  \* PssGlobalData
  thread_count, synchronize, finalize_needed, merge_needed, active_sample_count,
  \* per distance set, and how many were created
  ds, created,
  \* ParallelSampledStack, per thread
  distance_sets_, oldest_distance_set_, write_sets_, enabled_, new_thread_,
  prune_count_, cold_samples,
  \* per thread, the state of its calls
  pc, action, newDS, ref, plan, ll1, is_samplechoice,
  \* "running", "report" after DumpStatsPython, or the error that ended the process
  outcome

barrierVars == <<stage_, threads_, awake, total_threads_>>
globalVars == <<thread_count, synchronize, finalize_needed, merge_needed,
                active_sample_count>>
listVars == <<distance_sets_, oldest_distance_set_, write_sets_, new_thread_>>
setVars == <<ds, created>>
statVars == <<prune_count_, cold_samples>>
callVars == <<action, newDS, ref, plan, ll1, is_samplechoice>>
vars == <<setup, barrierVars, globalVars, listVars, setVars, statVars, callVars, enabled_,
          pc, outcome>>

\* stack_type_
Shared == setup.stack_type = "kSharedStacks"

Control ==
  { "unborn", "joining",     \* before and in the middle of GetThreadStack
    "app",                   \* in the program, or between two analysis calls
    "asleep",                \* in a futex wait, or exited
    "access",                \* in Access, past the test of synchronize
    "checks",                \* in Access, after its round
    "sample",                \* in SampledMemRef, after Access
    "prune",                 \* CheckOldestSample found a sample to prune
    "start",                 \* about to call WaitStart
    "wait",                  \* counted in at the current stage
    "work1", "work2",        \* in a synchronised stage
    "leave" }                \* past WaitStage(2)

FinalizeStatus ==
  { "kActive", "kReuseFinalize", "kInvalidateFinalize", "kPruneFinalize",
    "kRemoteReuseFinalize" }

\* A DistanceSet.  "none" and "deleted" stand for an object that does not exist.
\* chain is the union of the write sets pulled into it by RemoveWriteSetFromAll
\* and pulled says that there were any.  touched is not in the code: the blocks
\* that a thread whose references count accessed while the sample was tracked.
Fresh(t, a) ==
  [ owner |-> t, addr |-> a, set |-> {}, holes |-> 0, finalize |-> "kActive",
    pulled |-> FALSE, chain |-> {}, touched |-> {} ]

kColdMiss == -1
kInvalidationMiss == -2

Init ==
  /\ setup \in Setups
  /\ stage_ = 0 /\ threads_ = 0
  /\ awake = 0 .. setup.founders - 1
  /\ total_threads_ = setup.founders /\ thread_count = setup.founders
  /\ synchronize = FALSE /\ finalize_needed = FALSE /\ merge_needed = FALSE
  /\ active_sample_count = 0
  /\ ds = [d \in DsId |-> [finalize |-> "none"]] /\ created = 0
  /\ distance_sets_ = [t \in Thread |-> <<>>]
  /\ oldest_distance_set_ = [t \in Thread |-> NoDs]
  /\ write_sets_ = [t \in Thread |-> [d \in DsId |-> <<>>]]
  /\ enabled_ = [t \in Thread |-> TRUE]
  /\ new_thread_ = [t \in Thread |-> t >= setup.founders]
  /\ prune_count_ = [t \in Thread |-> 0]
  /\ cold_samples = [t \in Thread |-> 0]
  /\ pc = [t \in Thread |-> IF t < setup.founders THEN "app" ELSE "unborn"]
  /\ action = [t \in Thread |-> "kNoAction"]
  /\ newDS = [t \in Thread |-> NoDs]
  /\ ref = [t \in Thread |-> <<>>]
  /\ plan = [t \in Thread |-> <<>>]
  /\ ll1 = [t \in Thread |-> 0]
  /\ is_samplechoice = [t \in Thread |-> 0]
  /\ outcome = "running"

Goto(t, label) == pc' = [pc EXCEPT ![t] = label]

\* An uncaught exception, a failed assertion or a write to freed memory.
Throw(what) ==
  /\ outcome' = what
  /\ UNCHANGED <<barrierVars, globalVars, listVars, setVars, statVars, callVars,
                 enabled_, pc>>

InQueue == 0 .. thread_count - 1
Linked(t) == ToSet(distance_sets_[t])
AllLinked == UNION {Linked(t) : t \in InQueue}
Exists(d) == ds[d].finalize \in FinalizeStatus

-----------------------------------------------------------------------------
(* The barrier                                                             *)

Waiting == {u \in Thread : pc[u] = "wait"}

\* Where the threads waiting at stage s go at its release.
Beyond(s) == CASE s = 0 -> "work1" [] s = 1 -> "work2" [] s = 2 -> "leave"

\* The threads of team move on from stage s.
Release(s, team, elsewhere) ==
  /\ stage_' = (s + 1) % 3
  /\ pc' = [u \in Thread |-> IF u \in team THEN Beyond(s) ELSE elsewhere[u]]

\* t counts in at stage s of a round of size threads.
Arrive(t, s, size) ==
  IF Cardinality(Waiting) + 1 = size
    THEN Release(s, Waiting \cup {t}, pc)
    ELSE Goto(t, "wait") /\ UNCHANGED stage_

WaitStart(t) ==
  /\ pc[t] = "start"
  /\ IF stage_ # 0 THEN Throw("stage or count wrong in waitstart")
     ELSE LET size == IF Waiting = {} THEN Cardinality(awake) ELSE threads_ IN
          /\ threads_' = size
          /\ Arrive(t, 0, size)
          /\ UNCHANGED <<awake, total_threads_, globalVars, listVars, setVars,
                         statVars, callVars, enabled_, outcome>>

\* Mutant: a thread that falls asleep releases nobody.
NeverLastMissing(t) == FALSE

\* The others all wait for t, which is part of the round.
LastMissing(t) == Waiting # {} /\ Cardinality(Waiting) = threads_ - 1

\* A futex wait, or the end of the thread.  The last thread the others wait for
\* releases them.
Sleep(t) ==
  /\ pc[t] = "app"
  /\ IF stage_ # 0 THEN Throw("Sleep during barrier")
     ELSE LET asleep == [pc EXCEPT ![t] = "asleep"] IN
          /\ awake' = awake \ {t}
          /\ threads_' = IF Waiting = {} THEN threads_ ELSE threads_ - 1
          /\ IF LastMissing(t)
               THEN Release(0, Waiting, asleep)
               ELSE pc' = asleep /\ UNCHANGED stage_
          /\ UNCHANGED <<total_threads_, globalVars, listVars, setVars, statVars,
                         callVars, enabled_, outcome>>

\* The first memory reference, or magic instruction, after a futex wait.  Wake waits
\* for the end of a round that is in progress.
Wake(t) ==
  /\ pc[t] = "asleep"
  /\ stage_ = 0 /\ Waiting = {}
  /\ awake' = awake \cup {t}
  /\ Goto(t, "app")
  /\ UNCHANGED <<stage_, threads_, total_threads_, globalVars, listVars, setVars,
                 statVars, callVars, enabled_, outcome>>

-----------------------------------------------------------------------------
(* Threads appear                                                          *)

\* GetThreadStack, under threads_lock: first the barrier's AddThread ...
JoinBarrier(t) ==
  /\ pc[t] = "unborn" /\ t = thread_count /\ t < setup.threads
  /\ \A u \in Thread : pc[u] # "joining"
  /\ total_threads_' = total_threads_ + 1
  /\ awake' = awake \cup {t}
  /\ Goto(t, "joining")
  /\ UNCHANGED <<stage_, threads_, globalVars, listVars, setVars, statVars, callVars,
                 enabled_, outcome>>

\* ... then the thread queue's, and the call for a first round.
JoinQueue(t) ==
  /\ pc[t] = "joining"
  /\ thread_count' = thread_count + 1
  /\ synchronize' = TRUE /\ merge_needed' = TRUE
  /\ enabled_' = [enabled_ EXCEPT ![t] = TRUE]
  /\ Goto(t, "app")
  /\ UNCHANGED <<barrierVars, finalize_needed, active_sample_count, listVars, setVars,
                 statVars, callVars, outcome>>

\* LOCAL_START_PERIOD and LOCAL_END_PERIOD.
SetThreadEnable(t) ==
  /\ pc[t] = "app" /\ t \in setup.switchers
  /\ enabled_' = [enabled_ EXCEPT ![t] = ~@]
  /\ UNCHANGED <<barrierVars, globalVars, listVars, setVars, statVars, callVars, pc,
                 outcome>>

-----------------------------------------------------------------------------
(* A memory reference                                                      *)

\* The thread's reference count has run down: one of the next references becomes
\* a sample.  ActivateSampledAddress counts it at once.  A thread that is back from
\* a futex wait is still asleep here.
SampleTrigger(t) ==
  /\ pc[t] \in {"app", "asleep"} /\ is_samplechoice[t] < MaxPending
  /\ is_samplechoice' = [is_samplechoice EXCEPT ![t] = @ + 1]
  /\ active_sample_count' = active_sample_count + 1
  /\ UNCHANGED <<barrierVars, thread_count, synchronize, finalize_needed, merge_needed,
                 listVars, setVars, statVars, action, newDS, ref, plan, ll1, enabled_,
                 pc, outcome>>

\* SampledMemRef calls Access, which first joins a round that is called for.
SampledMemRef(t, a, is_write) ==
  /\ pc[t] = "app" /\ active_sample_count # 0
  /\ ref' = [ref EXCEPT ![t] = <<a, is_write>>]
  /\ Goto(t, IF synchronize THEN "start" ELSE "access")
  /\ UNCHANGED <<barrierVars, globalVars, listVars, setVars, statVars, action, newDS,
                 plan, ll1, is_samplechoice, enabled_, outcome>>

\* The address goes into a distance set: it fills a hole if there is one.
Insert(x, a) ==
  [x EXCEPT !.holes = IF @ > 0 /\ a \notin x.set THEN @ - 1 ELSE @,
            !.set = @ \cup {a}]

\* A tracked sample is in its owner's list, or about to be put there.
Tracked(d) ==
  \E t \in InQueue : d \in Linked(t) \/ (pc[t] = "leave" /\ newDS[t] = d)

Touch(x, d, t, a) ==
  IF Tracked(d) /\ x.addr # a /\ (Shared \/ x.owner = t)
    THEN [x EXCEPT !.touched = @ \cup {a}] ELSE x

\* The other threads' samples that a reference of t concerns: with private stacks
\* only writes do.
Watched(t, is_write) ==
  IF Shared \/ is_write THEN {d \in DsId : write_sets_[t][d] # <<>>} ELSE {}

RemoteFinalize == IF Shared THEN "kRemoteReuseFinalize" ELSE "kInvalidateFinalize"

\* The two loops of Access.  A hit marks the sample and calls for a round.
AccessSets(t, a, is_write) ==
  LET reused == {d \in Linked(t) : ds[d].addr = a}
      hit == {d \in Watched(t, is_write) : ds[d].addr = a}
      missed == Watched(t, is_write) \ hit
  IN
  /\ ds' = [d \in DsId |->
       IF d \in hit THEN [ds[d] EXCEPT !.finalize = RemoteFinalize]
       ELSE IF d \in reused THEN [ds[d] EXCEPT !.finalize = "kReuseFinalize"]
       ELSE IF Exists(d)
         THEN Touch(IF d \in Linked(t) THEN Insert(ds[d], a) ELSE ds[d], d, t, a)
         ELSE ds[d]]
  /\ write_sets_' = [write_sets_ EXCEPT ![t] = [d \in DsId |->
       IF d \in missed THEN [i \in DOMAIN @[d] |-> @[d][i] \cup {a}] ELSE @[d]]]
  /\ IF reused \cup hit # {}
       THEN /\ finalize_needed' = TRUE /\ synchronize' = TRUE
            /\ action' = [action EXCEPT ![t] = "kFinalize"]
            /\ ll1' = [ll1 EXCEPT ![t] = IF hit = {} THEN Len(distance_sets_[t]) ELSE -1]
            /\ Goto(t, "start")
       ELSE /\ Goto(t, "sample")
            /\ UNCHANGED <<finalize_needed, synchronize, action, ll1>>

Access(t) ==
  LET a == ref[t][1]
      is_write == ref[t][2]
  IN
  /\ pc[t] = "access" /\ enabled_[t]
  /\ IF \E d \in Watched(t, is_write) : ds[d].addr = a /\ ~Exists(d)
       THEN Throw("write to a deleted distance set")
       ELSE /\ AccessSets(t, a, is_write)
            /\ UNCHANGED <<barrierVars, thread_count, merge_needed,
                           active_sample_count, distance_sets_, oldest_distance_set_,
                           new_thread_, created, statVars, newDS, ref, plan,
                           is_samplechoice, enabled_, outcome>>

AccessDisabled(t) ==
  /\ pc[t] = "access" /\ ~enabled_[t]
  /\ Goto(t, "sample")
  /\ UNCHANGED <<barrierVars, globalVars, listVars, setVars, statVars, callVars,
                 enabled_, outcome>>

\* The end of an Access that called for a round.
AccessChecks(t) ==
  /\ pc[t] = "checks"
  /\ IF ll1[t] >= 0 /\ Len(distance_sets_[t]) >= ll1[t] THEN Throw("length")
     ELSE IF \E d \in Linked(t) : ds[d].finalize = "kReuseFinalize"
            THEN Throw("still final")
            ELSE /\ Goto(t, "sample")
                 /\ ll1' = [ll1 EXCEPT ![t] = 0]
                 /\ UNCHANGED <<barrierVars, globalVars, listVars, setVars, statVars,
                                action, newDS, ref, plan, is_samplechoice, enabled_,
                                outcome>>

-----------------------------------------------------------------------------
(* A reference becomes a sample                                            *)

\* This reference is not the chosen one.
NotSampled(t) ==
  /\ pc[t] = "sample"
  /\ ref' = [ref EXCEPT ![t] = <<>>]
  /\ Goto(t, "app")
  /\ UNCHANGED <<barrierVars, globalVars, listVars, setVars, statVars, action, newDS,
                 plan, ll1, is_samplechoice, enabled_, outcome>>

Refused(t) == ~enabled_[t] \/ \E d \in Linked(t) : ds[d].addr = ref[t][1]

\* Mutant: the count stays up.
SampleRefusedCounted(t) ==
  /\ pc[t] = "sample" /\ is_samplechoice[t] > 0
  /\ Refused(t)
  /\ is_samplechoice' = [is_samplechoice EXCEPT ![t] = @ - 1]
  /\ ref' = [ref EXCEPT ![t] = <<>>]
  /\ Goto(t, "app")
  /\ UNCHANGED <<barrierVars, globalVars, listVars, setVars, statVars, action, newDS,
                 plan, ll1, enabled_, outcome>>

\* NewSampledAddress takes back what SampleTrigger has counted.
SampleRefused(t) ==
  /\ pc[t] = "sample" /\ is_samplechoice[t] > 0
  /\ Refused(t)
  /\ active_sample_count' = active_sample_count - 1
  /\ is_samplechoice' = [is_samplechoice EXCEPT ![t] = @ - 1]
  /\ ref' = [ref EXCEPT ![t] = <<>>]
  /\ Goto(t, "app")
  /\ UNCHANGED <<barrierVars, thread_count, synchronize, finalize_needed, merge_needed,
                 listVars, setVars, statVars, action, newDS, plan, ll1, enabled_,
                 outcome>>

\* CheckOldestSample: the oldest sample may be far enough away to be given up,
\* which depends on the statistics collected so far.
Prunable(t) ==
  /\ oldest_distance_set_[t] # NoDs
  /\ ds[oldest_distance_set_[t]].finalize = "kActive"

NewSampledAddress(t) ==
  /\ pc[t] = "sample" /\ is_samplechoice[t] > 0
  /\ ~Refused(t)
  /\ created < setup.samples
  /\ created' = created + 1
  /\ ds' = [ds EXCEPT ![created + 1] = Fresh(t, ref[t][1])]
  /\ newDS' = [newDS EXCEPT ![t] = created + 1]
  /\ synchronize' = TRUE
  /\ action' = [action EXCEPT ![t] = "kNewSampledAddress"]
  /\ ref' = [ref EXCEPT ![t] = <<>>]
  /\ Goto(t, "start") \/ (Prunable(t) /\ Goto(t, "prune"))
  /\ UNCHANGED <<barrierVars, thread_count, finalize_needed, merge_needed,
                 active_sample_count, listVars, statVars, plan, ll1, is_samplechoice,
                 enabled_, outcome>>

\* The sample was found active before; another thread may have marked it since.
Prune(t) ==
  /\ pc[t] = "prune"
  /\ ds' = [ds EXCEPT ![oldest_distance_set_[t]].finalize = "kPruneFinalize"]
  /\ prune_count_' = [prune_count_ EXCEPT ![t] = @ + 1]
  /\ finalize_needed' = TRUE
  /\ Goto(t, "start")
  /\ UNCHANGED <<barrierVars, thread_count, synchronize, merge_needed,
                 active_sample_count, listVars, created, cold_samples, callVars,
                 enabled_, outcome>>

\* At the sync interval, or by a magic instruction of the program.
MergeAllSamples(t) ==
  /\ pc[t] = "app"
  /\ synchronize' = TRUE /\ merge_needed' = TRUE
  /\ action' = [action EXCEPT ![t] = "kMerge"]
  /\ Goto(t, "start")
  /\ UNCHANGED <<barrierVars, thread_count, finalize_needed, active_sample_count,
                 listVars, setVars, statVars, newDS, ref, plan, ll1, is_samplechoice,
                 enabled_, outcome>>

-----------------------------------------------------------------------------
(* SynchronizedOperations                                                  *)

Marked(d) == ds[d].finalize # "kActive"
Others(d) == InQueue \ {ds[d].owner}
LinkedOf(S) == UNION {Linked(u) : u \in S}

\* The union of the first write sets that the other threads hold for d.
Heads(d) == UNION {Head(write_sets_[i][d]) : i \in Others(d)}

Missing(d) == \E i \in Others(d) : write_sets_[i][d] = <<>>

\* Stage 1.  Marked samples of the threads t works for are pulled out of all write
\* sets; t's new sample is put into them, or else a new thread fills its own.
Removed(t, todo) ==
  IF todo.finalize THEN {d \in LinkedOf(Walk(t, todo.end, thread_count)) : Marked(d)}
                   ELSE {}

\* Mutant: the owner gets a write set, too.
PushedToAll(t, i) == IF action[t] = "kNewSampledAddress" THEN {newDS[t]} ELSE {}

Pushed(t, i) == IF action[t] = "kNewSampledAddress" /\ i # t THEN {newDS[t]} ELSE {}

Populated(t, i) ==
  IF action[t] # "kNewSampledAddress" /\ new_thread_[t] /\ i = t
    THEN LinkedOf(InQueue \ {t}) ELSE {}

FirstStage(t, todo) ==
  LET removed == Removed(t, todo) IN
  /\ write_sets_' = [i \in Thread |-> [d \in DsId |->
       LET left == IF d \in removed /\ i \in Others(d) THEN Tail(write_sets_[i][d])
                                                       ELSE write_sets_[i][d]
       IN IF i \in InQueue /\ d \in Pushed(t, i) \cup Populated(t, i)
            THEN Cons({}, left) ELSE left]]
  /\ ds' = [d \in DsId |-> IF d \in removed
       THEN [ds[d] EXCEPT !.chain = @ \cup Heads(d), !.pulled = Others(d) # {}]
       ELSE ds[d]]
  /\ new_thread_' = [new_thread_ EXCEPT ![t] =
       @ /\ action[t] = "kNewSampledAddress"]
  /\ plan' = [plan EXCEPT ![t] = todo]
  /\ Arrive(t, 1, threads_)
  /\ UNCHANGED <<threads_, awake, total_threads_, globalVars, distance_sets_,
                 oldest_distance_set_, created, statVars, action, newDS, ref, ll1,
                 is_samplechoice, enabled_, outcome>>

\* ValidateActiveSamples.
TooManyActive(t) ==
  active_sample_count >
    Cardinality(AllLinked) + thread_count + (IF newDS[t] # NoDs THEN 1 ELSE 0) + 1

\* The flags are copied at the start of the stage, because stage 2 resets them.
Stage1(t) ==
  LET synced == merge_needed \/ finalize_needed
      todo == [ merge |-> merge_needed, finalize |-> finalize_needed,
                end |-> IF synced THEN EndSleepers(t, awake, thread_count) ELSE -2 ]
  IN
  /\ pc[t] = "work1"
  /\ IF synced /\ AdjacentFails(t, awake, thread_count, threads_)
       THEN Throw("wrapped around adjacent sleepers")
     ELSE IF \E d \in Removed(t, todo) : Missing(d)
       THEN Throw("finalized address not found in remote write set")
     ELSE IF action[t] = "kFinalize" /\ ~finalize_needed
       THEN Throw("kfinalize without global finalize")
     ELSE IF TooManyActive(t) THEN Throw("sample count mismatch")
     ELSE IF stage_ # 1 THEN Throw("stage wrong in wait")
     ELSE FirstStage(t, todo)

\* Merging S into a sample: with private stacks every address of S that it knows
\* becomes a hole, with shared stacks S is added.
Absorb(x, S) ==
  IF Shared THEN [x EXCEPT !.set = @ \cup S]
            ELSE [x EXCEPT !.set = @ \ S, !.holes = @ + Cardinality(x.set \cap S)]

Depth(x) == Cardinality(x.set) + x.holes

\* Mutant: what other threads touched since the last merge is left out.
DistanceUnmerged(x) ==
  CASE x.finalize = "kInvalidateFinalize" -> kInvalidationMiss
    [] x.finalize = "kPruneFinalize" -> kColdMiss
    [] OTHER -> Depth(x)

Distance(x) ==
  CASE x.finalize = "kInvalidateFinalize" -> kInvalidationMiss
    [] x.finalize = "kPruneFinalize" -> kColdMiss
    [] OTHER -> Depth(Absorb(x, x.chain))

\* FinalizeSample: the statistics get Distance(x), the object is deleted.
Finalized(x) ==
  [finalize |-> "deleted", addr |-> x.addr]

\* Mutant: the unlinked sample's predecessor is forgotten.
OldestForgotten(list) == NoDs

OldestOf(list) == IF list = <<>> THEN NoDs ELSE Last(list)

\* The list after the samples of dying were unlinked from it.
Unlink(list, dying) ==
  LET kept[n \in 0 .. Len(list)] ==
        IF n = 0 THEN <<>>
        ELSE IF list[n] \in dying THEN kept[n - 1] ELSE Append(kept[n - 1], list[n])
  IN kept[Len(list)]

\* Stage 2.  Marked samples of the threads t works for are finalized and unlinked,
\* the others get what the write sets have collected.
SecondStage(t, synced, served) ==
  LET dying == {d \in LinkedOf(served) : Marked(d)}
      merged == IF plan[t].merge THEN LinkedOf(served) \ dying ELSE {}
      Kept(u) == Unlink(distance_sets_[u], dying)
  IN
  /\ ds' = [d \in DsId |-> IF d \in dying THEN Finalized(ds[d])
                           ELSE IF d \in merged THEN Absorb(ds[d], Heads(d))
                           ELSE ds[d]]
  /\ write_sets_' = [i \in Thread |-> [d \in DsId |->
       IF d \in merged /\ i \in Others(d) THEN ReplaceAt(write_sets_[i][d], 1, {})
                                          ELSE write_sets_[i][d]]]
  /\ distance_sets_' = [u \in Thread |-> Kept(u)]
  /\ oldest_distance_set_' = [u \in Thread |->
       IF oldest_distance_set_[u] \in dying THEN OldestOf(Kept(u))
                                            ELSE oldest_distance_set_[u]]
  /\ active_sample_count' = active_sample_count - Cardinality(dying)
  /\ cold_samples' = [u \in Thread |-> cold_samples[u] + Cardinality(
       {d \in dying : ds[d].owner = u /\ ds[d].finalize = "kPruneFinalize"})]
  /\ merge_needed' = (merge_needed /\ ~synced)
  /\ finalize_needed' = (finalize_needed /\ ~synced)
  /\ synchronize' = FALSE
  /\ plan' = [plan EXCEPT ![t] = <<>>]
  /\ Arrive(t, 2, threads_)
  /\ UNCHANGED <<threads_, awake, total_threads_, thread_count, new_thread_, created,
                 prune_count_, action, newDS, ref, ll1, is_samplechoice, enabled_,
                 outcome>>

Stage2(t) ==
  LET synced == plan[t].merge \/ plan[t].finalize
      served == IF synced THEN Walk(t, plan[t].end, thread_count) ELSE {}
      dying == {d \in LinkedOf(served) : Marked(d)}
  IN
  /\ pc[t] = "work2"
  /\ IF \E d \in dying : ~ds[d].pulled /\ thread_count # 1
       THEN Throw("assertion failed in FinalizeSample")
     ELSE IF \E u \in served : /\ oldest_distance_set_[u] \in dying
                               /\ oldest_distance_set_[u] # Last(distance_sets_[u])
       THEN Throw("assertion failed in SynchronizedOperations")
     ELSE IF plan[t].merge /\ \E d \in LinkedOf(served) \ dying : Missing(d)
       THEN Throw("merged address not found in remote write sets")
     ELSE IF stage_ # 2 THEN Throw("stage wrong in wait")
     ELSE SecondStage(t, synced, served)

\* After WaitStage(2): a new sample is linked, and the call that led to the round
\* goes on.
Leave(t) ==
  LET linking == action[t] = "kNewSampledAddress" IN
  /\ pc[t] = "leave"
  /\ distance_sets_' = IF linking THEN [distance_sets_ EXCEPT ![t] = Cons(newDS[t], @)]
                                  ELSE distance_sets_
  /\ oldest_distance_set_' = IF linking /\ distance_sets_[t] = <<>>
       THEN [oldest_distance_set_ EXCEPT ![t] = newDS[t]] ELSE oldest_distance_set_
  /\ is_samplechoice' = IF linking THEN [is_samplechoice EXCEPT ![t] = @ - 1]
                                   ELSE is_samplechoice
  /\ newDS' = [newDS EXCEPT ![t] = NoDs]
  /\ Goto(t, CASE action[t] = "kNoAction" -> "access"
               [] action[t] = "kFinalize" -> "checks"
               [] OTHER -> "app")
  /\ action' = [action EXCEPT ![t] = "kNoAction"]
  /\ UNCHANGED <<barrierVars, globalVars, write_sets_, new_thread_, setVars, statVars,
                 ref, plan, ll1, enabled_, outcome>>

\* All threads have exited: RecordLeftovers, then the report.
DumpStatsPython ==
  /\ thread_count > 0 /\ \A t \in InQueue : pc[t] = "asleep"
  /\ \A t \in Thread : pc[t] # "joining"
  /\ cold_samples' = [t \in Thread |-> cold_samples[t] + Len(distance_sets_[t])]
  /\ outcome' = "report"
  /\ UNCHANGED <<barrierVars, globalVars, listVars, setVars, prune_count_, callVars,
                 enabled_, pc>>

-----------------------------------------------------------------------------

ThreadStep(t) ==
  \/ JoinBarrier(t) \/ JoinQueue(t) \/ SetThreadEnable(t)
  \/ WaitStart(t) \/ Sleep(t) \/ Wake(t)
  \/ SampleTrigger(t)
  \/ \E a \in setup.blocks, is_write \in BOOLEAN : SampledMemRef(t, a, is_write)
  \/ Access(t) \/ AccessDisabled(t) \/ AccessChecks(t)
  \/ NotSampled(t) \/ SampleRefused(t) \/ NewSampledAddress(t) \/ Prune(t)
  \/ MergeAllSamples(t)
  \/ Stage1(t) \/ Stage2(t) \/ Leave(t)

\* The process has not ended.
Running == outcome = "running" /\ UNCHANGED setup

Next ==
  /\ Running
  /\ DumpStatsPython \/ \E t \in Thread : ThreadStep(t)

Spec == Init /\ [][Next]_vars

(***************************************************************************)
(* Fairness.  A thread that is in Access, in NewSampledAddress or in a     *)
(* stage's work keeps running.  An awake thread in the program makes       *)
(* memory references: one that is instrumented because a sample is active, *)
(* or else enough of them to trigger a sample; or it falls asleep.         *)
(* Nothing makes a sleeping thread wake, or a new one appear.              *)
(***************************************************************************)
Obliged(t) ==
  \/ \E a \in setup.blocks, is_write \in BOOLEAN : SampledMemRef(t, a, is_write)
  \/ active_sample_count = 0 /\ pc[t] = "app" /\ SampleTrigger(t)
  \/ Sleep(t)
  \/ Access(t) \/ AccessDisabled(t) \/ AccessChecks(t)
  \/ NotSampled(t) \/ SampleRefused(t) \/ NewSampledAddress(t) \/ Prune(t)
  \/ WaitStart(t) \/ Stage1(t) \/ Stage2(t) \/ Leave(t) \/ JoinQueue(t)

FairSpec == Spec /\ \A t \in Thread : WF_vars(Running /\ Obliged(t))

-----------------------------------------------------------------------------
(* Properties                                                              *)

\* Nobody joins after the first round.
TeamIsFixed == setup.founders = setup.threads

\* If nobody joins, no exception of the sampler or its barrier is thrown, no
\* assertion fails and no thread writes through a write set to a distance set that
\* is gone.
NoFailure == TeamIsFixed => outcome \in {"running", "report"}

\* A thread that has done its work of stage 1, in a round that goes on.
PastStage1(t) == pc[t] \in {"work2", "leave"} \/ (pc[t] = "wait" /\ stage_ # 0)

\* The samples whose write sets are in place: linked and not yet pulled out for
\* being finalized, or pushed in stage 1 and about to be linked.
Watchable ==
  {d \in AllLinked : ~ds[d].pulled} \cup {newDS[t] : t \in {u \in Thread : PastStage1(u)}}

\* If nobody joins, every thread but the owner holds exactly one write set for each
\* sample, and none for a sample that was taken out: RemoveWriteSetFromAll and the
\* merges throw if one is missing, and Access writes to freed memory through one too
\* many.
WriteSetsMatch ==
  TeamIsFixed => \A i \in InQueue, d \in DsId :
    Len(write_sets_[i][d]) = IF d \in Watchable /\ ds[d].owner # i THEN 1 ELSE 0

\* The triggers that wait for a reference to become a sample, one by one.
Announced ==
  {trigger \in Thread \X (1 .. MaxPending) : trigger[2] <= is_samplechoice[trigger[1]]}

\* HasActiveSamples counts what SampleTrigger has announced and what is linked.
\* Were it to drop to 0 too early, MemRef would skip references that matter; were
\* it to stay up, it would never skip any.
SampleAccounting == active_sample_count = Cardinality(Announced) + Cardinality(AllLinked)

\* If nobody joins, outside of the synchronised stages a marked sample is always
\* called out, so the next round takes it: the flags are never reset with a mark left
\* behind, be it the mark of a sleeping thread's sample or one set just after the
\* round.
MarksAreAnnounced ==
  TeamIsFixed /\ stage_ = 0 /\ (\E d \in AllLinked : Marked(d))
    => finalize_needed /\ synchronize

\* oldest_distance_set_ is the end of the list, the candidate of CheckOldestSample.
OldestIsLast ==
  \A t \in InQueue :
    oldest_distance_set_[t] =
      IF distance_sets_[t] = <<>> THEN NoDs ELSE Last(distance_sets_[t])

\* If nobody joins, a round that merges leaves nothing in the write sets of any
\* sample, a sleeping thread's included: the threads of stage 2 together walked the
\* whole queue.
MergeIsComplete ==
  [][ (TeamIsFixed /\ stage_ = 2 /\ stage_' = 0
         /\ \E t \in Thread : plan[t] # <<>> /\ plan[t].merge)
        => \A t \in InQueue, d \in DsId :
             d \in Watchable' /\ d \in AllLinked => ToSet(write_sets_[t][d])' \subseteq {{}}
    ]_vars

\* If nobody joins, the reuse distance of a sample with shared stacks is the number of
\* blocks that the threads touched since it was taken, whichever thread did, however
\* the sets were merged, and who slept meanwhile.  With private stacks it never exceeds
\* the number the owner touched: a block that was invalidated and touched again counts
\* once.
DistanceFaithful ==
  [][ \A d \in DsId : Exists(d) /\ ds'[d].finalize = "deleted" /\ Distance(ds[d]) >= 0 =>
        LET blocks == Cardinality(ds[d].touched) IN
        IF Shared THEN TeamIsFixed => Distance(ds[d]) = blocks
                  ELSE Distance(ds[d]) <= blocks
    ]_vars

\* Nobody waits at the barrier for good.
EveryRoundCompletes == \A t \in Thread : pc[t] = "wait" ~> pc[t] # "wait"

\* A marked sample is finalized, even if its owner sleeps from then on.
MarkedIsFinalized ==
  \A d \in DsId : Exists(d) /\ Marked(d) ~> ds[d].finalize = "deleted"

\* Half of the check that DumpStatsPython makes of a thread's counts ("Error: thread
\* %d prune count"): a pruned sample was recorded as a cold miss.
PrunedIsCold == outcome = "report" => \A t \in Thread : prune_count_[t] <= cold_samples[t]
=============================================================================
