--------------------------- MODULE PerRefSampler ---------------------------
(***************************************************************************)
(* The Pin tool sampledreuse_perref.cc: the threads of the program share   *)
(* one sequential sampler, guarded by sampler_lock.  A thread whose count  *)
(* of references has run down takes one of the references of the basic     *)
(* block it enters as a sample.  While no thread has a sample the          *)
(* references are not even looked at, which is what the flag sampling is   *)
(* for; threads read it and active_samples without the lock.               *)
(*                                                                         *)
(* What happens under the lock is one step but for the writes of sampling  *)
(* and active_samples, which others can see happen.  References that are   *)
(* not executed (predicated away) make a block shorter.  The interval      *)
(* between triggers is random, so any block may trigger.                   *)
(***************************************************************************)
EXTENDS SampledReuseStack, RecencyList

CONSTANTS
  MaxRefs,      \* references in a basic block, executed or not, at most
  MaxActive     \* bound: triggers stop when active_samples is that high

ASSUME PerRefAssumption == MaxRefs \in Nat /\ MaxActive \in Nat

VARIABLES
  sampler,           \* see SampledReuseStack
  sampling, active_samples, sampler_lock,      \* global_data
  is_samplechoice, samplechoice,               \* thread_data_t
  refs_left,         \* references the thread still makes in its basic block
  ref,               \* the reference that is being analysed
  pc,
  \* not in the code: what each map's threads used since the oldest sample
  recency

globalVars == <<sampling, active_samples, sampler_lock>>
threadVars == <<is_samplechoice, samplechoice, refs_left, ref, pc>>
vars == <<sampler, globalVars, threadVars, recency>>

NoRef == <<>>
Free == -1
Control == {"new", "app", "check", "access", "reset", "drop", "sample", "watch", "count",
            "exited"}
Locked == {"reset", "drop", "watch", "count"}

Init ==
  /\ \E type \in StackType, limit \in Limits : sampler = NewSampler(type, limit)
  /\ sampling = 0 /\ active_samples = 0 /\ sampler_lock = Free
  /\ is_samplechoice = [t \in Thread |-> FALSE]
  /\ samplechoice = [t \in Thread |-> 0]
  /\ refs_left = [t \in Thread |-> 0]
  /\ ref = [t \in Thread |-> NoRef]
  /\ pc = [t \in Thread |-> "new"]
  /\ recency = [t \in Thread |-> <<>>]

Goto(t, label) == pc' = [pc EXCEPT ![t] = label]

ThreadStart(t) ==
  /\ pc[t] = "new" /\ sampler_lock = Free
  /\ \A earlier \in Thread : earlier < t => pc[earlier] # "new"
  /\ sampler' = Allocate(sampler, t)
  /\ Goto(t, "app")
  /\ UNCHANGED <<globalVars, is_samplechoice, samplechoice, refs_left, ref, recency>>

-----------------------------------------------------------------------------
(* Basic blocks                                                            *)

EnterBlock(t) ==
  /\ pc[t] = "app" /\ refs_left[t] = 0
  /\ \E count \in 1 .. MaxRefs : refs_left' = [refs_left EXCEPT ![t] = count]
  /\ UNCHANGED <<sampler, globalVars, is_samplechoice, samplechoice, ref, pc, recency>>

\* The thread's count runs down in the block it enters, so samplechoice is one of the
\* block's references, whether it will be executed or not: with fewer executed the choice
\* is carried over to the next blocks.  A choice still outstanding is overwritten.
SampleTrigger(t) ==
  /\ pc[t] = "app" /\ refs_left[t] = 0 /\ active_samples < MaxActive
  /\ \E count \in 0 .. MaxRefs, choice \in 0 .. MaxRefs - 1 :
        /\ refs_left' = [refs_left EXCEPT ![t] = count]
        /\ samplechoice' = [samplechoice EXCEPT ![t] = choice]
  /\ sampling' = 1
  /\ is_samplechoice' = [is_samplechoice EXCEPT ![t] = TRUE]
  /\ UNCHANGED <<sampler, active_samples, sampler_lock, ref, pc, recency>>

\* The reference is analysed only if sampling is on.
MemRef(t, a, is_write) ==
  /\ pc[t] = "app" /\ refs_left[t] > 0
  /\ refs_left' = [refs_left EXCEPT ![t] = @ - 1]
  /\ IF sampling = 1 THEN Goto(t, "check") /\ ref' = [ref EXCEPT ![t] = <<a, is_write>>]
                     ELSE UNCHANGED <<pc, ref>>
  /\ UNCHANGED <<sampler, globalVars, is_samplechoice, samplechoice, recency>>

-----------------------------------------------------------------------------
(* SampledMemRef                                                           *)

\* The end of SampledMemRef, or of its first half: this may be the reference that the
\* thread has chosen.
CountDown(t) ==
  /\ IF is_samplechoice[t]
       THEN samplechoice' = [samplechoice EXCEPT ![t] = @ - 1]
       ELSE UNCHANGED samplechoice
  /\ IF is_samplechoice[t] /\ samplechoice[t] = 0
       THEN Goto(t, "sample") /\ UNCHANGED ref
       ELSE Goto(t, "app") /\ ref' = [ref EXCEPT ![t] = NoRef]
  /\ UNCHANGED <<is_samplechoice, refs_left>>

\* active_samples is read without the lock.
CheckActive(t) ==
  /\ pc[t] = "check"
  /\ IF active_samples # 0
       THEN Goto(t, "access") /\ UNCHANGED <<is_samplechoice, samplechoice, refs_left, ref>>
       ELSE CountDown(t)
  /\ UNCHANGED <<sampler, globalVars, recency>>

\* The history of a reference.
Recent(t, a, is_write, s) ==
  LET o == Owner(s, t) IN
  [i \in Thread |->
     LET seen == IF i = o THEN Touched(recency[i], a)
                 ELSE IF is_write /\ s.type = "private" THEN Snooped(recency[i], a)
                 ELSE recency[i]
     IN Unmarked(seen, Marks(seen) \ Tracked(s, i))]

\* Under the lock active_samples is read again.
Analysed(t) == active_samples # 0 /\ Enabled(sampler, t)

\* Mutant: the lock is released before sampling and active_samples are written.
KeepLockNever(t) == UNCHANGED sampler_lock

KeepLock(t) == sampler_lock' = t

Access(t) ==
  LET a == ref[t][1]
      is_write == ref[t][2]
      s == SampleAccess(sampler, t, a, is_write)
  IN
  /\ pc[t] = "access" /\ sampler_lock = Free
  /\ IF Analysed(t)
       THEN sampler' = s /\ recency' = Recent(t, a, is_write, s)
       ELSE UNCHANGED <<sampler, recency>>
  /\ IF Analysed(t) /\ NoneTracked(s)
       THEN /\ Goto(t, "reset") /\ KeepLock(t)
            /\ UNCHANGED <<is_samplechoice, samplechoice, refs_left, ref>>
       ELSE CountDown(t) /\ UNCHANGED sampler_lock
  /\ UNCHANGED <<sampling, active_samples>>

ResetSampling(t) ==
  /\ pc[t] = "reset"
  /\ sampling' = 0
  /\ Goto(t, "drop")
  /\ UNCHANGED <<sampler, active_samples, sampler_lock, is_samplechoice, samplechoice,
                 refs_left, ref, recency>>

DropActive(t) ==
  /\ pc[t] = "drop"
  /\ active_samples' = active_samples - 1
  /\ sampler_lock' = Free
  /\ CountDown(t)
  /\ UNCHANGED <<sampler, sampling, recency>>

\* The second half: the sample is taken, or refused, and counted in any case.
TakeSample(t) ==
  LET a == ref[t][1]
      o == Owner(sampler, t)
      s == NewSampledAddress(sampler, t, a)
  IN
  /\ pc[t] = "sample" /\ sampler_lock = Free
  /\ sampler' = s
  /\ recency' = IF s = sampler THEN recency ELSE [recency EXCEPT ![o] = Marked(@, a)]
  /\ sampler_lock' = t
  /\ Goto(t, "watch")
  /\ UNCHANGED <<sampling, active_samples, is_samplechoice, samplechoice, refs_left, ref>>

Watch(t) ==
  /\ pc[t] = "watch"
  /\ sampling' = 1
  /\ Goto(t, "count")
  /\ UNCHANGED <<sampler, active_samples, sampler_lock, is_samplechoice, samplechoice,
                 refs_left, ref, recency>>

\* Mutant: a sample that was refused is not counted.
CountedIfTaken(t) ==
  LET taken == ref[t][1] \in Tracked(sampler, Owner(sampler, t)) IN
  active_samples' = IF taken THEN active_samples + 1 ELSE active_samples

Counted(t) == active_samples' = active_samples + 1

CountSample(t) ==
  /\ pc[t] = "count"
  /\ Counted(t)
  /\ sampler_lock' = Free
  /\ is_samplechoice' = [is_samplechoice EXCEPT ![t] = FALSE]
  /\ Goto(t, "app")
  /\ ref' = [ref EXCEPT ![t] = NoRef]
  /\ UNCHANGED <<sampler, sampling, samplechoice, refs_left, recency>>

-----------------------------------------------------------------------------
(* EmulateMagicInstruction and the end                                     *)

\* START_TIMER and STOP_TIMER, without the lock.
SetGlobalEnable(t) ==
  /\ pc[t] = "app"
  /\ sampler' = [sampler EXCEPT !.global_enable_ = ~@]
  /\ UNCHANGED <<globalVars, threadVars, recency>>

\* LOCAL_START_PERIOD and LOCAL_END_PERIOD.
SetThreadEnable(t) ==
  /\ pc[t] = "app" /\ sampler_lock = Free
  /\ sampler' = [sampler EXCEPT !.thread_enable_[t] = ~@]
  /\ UNCHANGED <<globalVars, threadVars, recency>>

\* The program ends when no thread is in the tool.
Fini ==
  /\ \A t \in Thread : pc[t] \in {"new", "app"}
  /\ pc' = [t \in Thread |-> "exited"]
  /\ sampler' = RecordLeftovers(sampler)
  /\ recency' = [t \in Thread |-> <<>>]
  /\ UNCHANGED <<globalVars, is_samplechoice, samplechoice, refs_left, ref>>

ThreadStep(t) ==
  \/ ThreadStart(t) \/ EnterBlock(t) \/ SampleTrigger(t)
  \/ \E a \in Block, is_write \in BOOLEAN : MemRef(t, a, is_write)
  \/ CheckActive(t) \/ Access(t) \/ ResetSampling(t) \/ DropActive(t)
  \/ TakeSample(t) \/ Watch(t) \/ CountSample(t)
  \/ SetGlobalEnable(t) \/ SetThreadEnable(t)

Next == (\E t \in Thread : ThreadStep(t)) \/ Fini

Spec == Init /\ [][Next]_vars

-----------------------------------------------------------------------------
(* Properties                                                              *)

Pending(t) == is_samplechoice[t]

Sample == [set : SUBSET Block, hole_count : Nat]
SampleMap == UNION {[tracked -> Sample] : tracked \in SUBSET Block}
Sampler ==
  [ type : StackType, kMaxDistance : Limits,
    global_enable_ : BOOLEAN, thread_enable_ : [Thread -> BOOLEAN],
    sampled_addresses_ : [Thread -> SampleMap],
    sampled_address_count_ : [Thread -> Nat],
    global_tracked_address_count_ : Nat,
    recorded : [Thread -> Nat] ]

\* Of the reference only what is analysed is kept.
TypeOK ==
  /\ sampler \in Sampler
  /\ sampling \in {0, 1} /\ active_samples \in Nat
  /\ sampler_lock \in Thread \cup {Free}
  /\ is_samplechoice \in [Thread -> BOOLEAN]
  /\ samplechoice \in [Thread -> Int]
  /\ refs_left \in [Thread -> 0 .. MaxRefs]
  /\ ref \in [Thread -> {NoRef} \cup (Block \X BOOLEAN)]
  /\ pc \in [Thread -> Control]

\* While a block is tracked its references are looked at: the flag is never taken down
\* by a thread that saw the last sample go while another took a new one, nor does
\* active_samples run out.  Only the thread that takes the sample is yet to say so.
TrackedIsWatched ==
  LET taken(labels) == \E t \in Thread : pc[t] \in labels
      counted == active_samples + (IF taken({"watch", "count"}) THEN 1 ELSE 0)
  IN
  ~NoneTracked(sampler) /\ ~taken({"exited"}) =>
    /\ sampling = 1 \/ taken({"watch"})
    /\ counted >= sampler.global_tracked_address_count_

\* References are looked at for a reason: a sample is counted, or a thread is about to
\* choose one.
SamplingHasACause == sampling = 1 => active_samples > 0 \/ \E t \in Thread : Pending(t)

\* What DumpStats checks before it reports ("global_tracked_address_count", "sampled
\* addr count mismatch"): every sample taken is tracked or was recorded, once.
SamplesAreAccounted ==
  /\ \A o \in Thread :
        sampler.sampled_address_count_[o] =
          sampler.recorded[o] + Cardinality(Tracked(sampler, o))
  /\ sampler.global_tracked_address_count_ = Cardinality(Samples(sampler))

\* The samples of a map, each with a set and a count of holes of its own, are those of
\* one list of what its threads used, in which the newest hole is filled first; so
\* what is recorded for a reuse is the depth of its mark in that list.
SamplesFormOneList ==
  \A o \in Thread :
    /\ Marks(recency[o]) = Tracked(sampler, o)
    /\ \A b \in Tracked(sampler, o) :
         LET above == AboveMark(recency[o], b)
             sample == sampler.sampled_addresses_[o][b]
         IN /\ sample.set = {recency[o][i][2] : i \in {j \in above : recency[o][j] # Hole}}
            /\ sample.hole_count = Cardinality({i \in above : recency[o][i] = Hole})

=============================================================================
