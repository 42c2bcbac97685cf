--------------------------- MODULE ReuseDistance ---------------------------
(***************************************************************************)
(* The Pin tools reusedistance.cc and reusedistance2stacks.cc on top of    *)
(* StackHolder, with what StackHolder keeps besides the stacks: their      *)
(* statistics, the periods of the predictions, and the prefetchers.        *)
(*                                                                         *)
(* A program of one thread runs under the build of reusedistance.cc as it  *)
(* is, with SINGLE_THREAD, one of several threads under the build without. *)
(* There the threads record their accesses under stacks_lock: one step, as *)
(* nothing else is done under it.  The marks of periods are handled        *)
(* without the lock, statement by statement, and so is the end of the      *)
(* timer in reusedistance2stacks.  Only the kinds of stacks of the tools   *)
(* are in use, so that EndParallelRegion does nothing; the second          *)
(* StackHolder of reusedistance2stacks is treated like the first, so that  *)
(* one of them is modelled.                                                *)
(***************************************************************************)
EXTENDS StackHolder, ReuseStackStats, Prefetchers

CONSTANT kInstBytes     \* of a line of instructions, the complement of kInstMask

\* A setup says besides: the tool; of the program, the instructions of each thread, a set
\* of [PC, size, reads, writes] with sequences of accesses, its marks, and bounds on the
\* numbers of both; the sizes to predict, a set of <<kind of stack, size>>; the delay and
\* the prefetchers of arbiters.
ASSUME ReuseDistanceAssumption ==
  /\ kInstBytes \in Nat \ {0}
  /\ \A s \in Setups :
       /\ s.tool \in {"none", "reusedistance", "reusedistance2stacks"}
       /\ s.tool # "none" =>
            s.kinds = {"sim"} \/ (s.kinds = {"shared"} /\ ~s.do_prefetch /\ ~s.do_fetch)
       /\ s.tool = "reusedistance2stacks" => s.kinds = {"sim"} /\ ~s.do_prefetch /\ ~s.do_fetch
       /\ DOMAIN s.program = s.threads
       /\ \A t \in s.threads : \A ins \in s.program[t] :
            /\ ins.PC \in Nat /\ ins.size \in Nat
            /\ {ins.reads, ins.writes} \subseteq Seq([address : Nat, size : Nat])
            /\ s.do_fetch \/ ins.reads # <<>> \/ ins.writes # <<>>
       /\ s.sizes \subseteq {"sim", "pair", "all"} \X Nat
       /\ s.max_calls \in Nat /\ s.max_marks \in Nat /\ s.delay \in Nat
       /\ s.prefetchers \in Seq({NewDCU, NewStride, NewStream})

VARIABLES
  enabled,             \* of the tool, besides the one of StackHolder
  pc,                  \* where a thread is in the tool
  todo,                \* the analysis calls of its instruction that have not returned
  inst_buffers,        \* the number of its last line of instructions
  updating,            \* of a thread in UpdateRatioPredictions: the stacks done, the
                       \* stack at hand and the step in it
  prefetchers_,        \* per thread seen
  stats_,              \* per stack: of its thread, of a pair, or of all
  PC_stats_,           \* per instruction
  prediction_sizes_,   \* per kind of stack
  calls, marks,        \* counted for the bounds
  given,               \* history: the sizes a stack was made with
  overlapped           \* history: whether a step fell between those of an unlocked handler

programVars == <<todo, inst_buffers, calls>>
recordVars == <<prefetchers_, PC_stats_, prediction_sizes_, given>>
toolVars == <<enabled, pc, programVars, updating, stats_, recordVars, marks, overlapped>>
allVars == <<vars, toolVars>>

ByTool == setup.tool # "none"
Locks == setup.tool = "reusedistance"
SINGLE_THREAD == Locks /\ Cardinality(setup.threads) = 1

\* The tools start disabled, the library by itself does not.
ToolInit ==
  /\ InitStacks(TRUE) \/ InitStacks(FALSE)
  /\ global_enable_ = ~ByTool
  /\ enabled = FALSE
  /\ pc = [t \in Thread |-> "program"] /\ todo = [t \in Thread |-> <<>>]
  /\ inst_buffers = [t \in Thread |-> 0]
  /\ updating = [t \in Thread |-> <<>>]
  /\ prefetchers_ = <<>> /\ stats_ = <<>> /\ PC_stats_ = <<>>
  /\ prediction_sizes_ = [kind \in {"sim", "pair", "all"} |-> {}]
  /\ calls = 0 /\ marks = 0 /\ given = <<>> /\ overlapped = FALSE

\* Whether another thread is in a handler that does not hold the lock.
Overlaps(t) == \E u \in Thread \ {t} : pc[u] \in {"update", "disable"}

KeysOf(t) ==
  (IF Uses("sim") THEN {<<"sim", t>>} ELSE {})
    \cup IF Uses("shared") THEN {<<"pair", PairOf(t)>>, <<"all", 0>>} ELSE {}

\* The stacks are made with the sizes known so far.
ThreadStart(t) ==
  LET keys == DOMAIN stats_ \cup KeysOf(t)
      seen == DOMAIN prefetchers_ \cup IF Uses("sim") THEN {t} ELSE {}
  IN
  /\ Allocate(t)
  /\ stats_' = [k \in keys |->
                  IF k \in DOMAIN stats_ THEN stats_[k]
                  ELSE SetRatioPredictionSizes(NewStats, prediction_sizes_[k[1]])]
  /\ given' = [k \in keys |->
                 IF k \in DOMAIN stats_ THEN given[k] ELSE prediction_sizes_[k[1]]]
  /\ prefetchers_' = [u \in seen |-> IF u = t THEN NewArbiter(setup.delay, setup.prefetchers)
                                     ELSE prefetchers_[u]]
  /\ overlapped' = (overlapped \/ Overlaps(t))
  /\ UNCHANGED <<enabled, pc, programVars, updating, PC_stats_, prediction_sizes_, marks>>

\* AddRatioPredictionSize, AddPairPredictionSize and AddSharedPredictionSize; the tools
\* have their calls commented out, the test adds sizes before its threads.
AddPredictionSize(kind, size) ==
  /\ <<kind, size>> \in setup.sizes /\ size \notin prediction_sizes_[kind]
  /\ stats_' = [k \in DOMAIN stats_ |->
                  IF k[1] = kind THEN AddRatioPredictionSize(stats_[k], size) ELSE stats_[k]]
  /\ prediction_sizes_' = [prediction_sizes_ EXCEPT ![kind] = @ \cup {size}]
  /\ overlapped' = (overlapped \/ \E t \in Thread : Overlaps(t))
  /\ UNCHANGED <<vars, enabled, pc, programVars, updating, prefetchers_, PC_stats_, marks, given>>

-----------------------------------------------------------------------------
(* Accesses                                                                *)

\* The analysis calls before an instruction: its fetch, its reads, its write.
CallsOf(ins) ==
  LET call(a, is_write, is_fetch) ==
        [access |-> a, PC |-> ins.PC, is_write |-> is_write, is_fetch |-> is_fetch]
      calls_for(as, is_write) == [i \in DOMAIN as |-> call(as[i], is_write, FALSE)]
      fetch == call([address |-> ins.PC, size |-> ins.size], FALSE, TRUE)
  IN (IF setup.do_fetch THEN <<fetch>> ELSE <<>>)
       \o calls_for(ins.reads, FALSE) \o calls_for(ins.writes, TRUE)

\* The first of these calls, until it has the lock.
Call(t, sequence) ==
  /\ pc[t] = "program" /\ t \in threads_seen_
  /\ IF Locks /\ ~enabled
       THEN todo' = [todo EXCEPT ![t] = Tail(sequence)] /\ UNCHANGED <<pc, calls>>
       ELSE /\ todo' = [todo EXCEPT ![t] = sequence]
            /\ pc' = [pc EXCEPT ![t] = "record"]
            /\ calls' = calls + 1
  /\ UNCHANGED <<vars, enabled, inst_buffers, updating, recordVars, stats_, marks, overlapped>>

Execute(t, ins) == todo[t] = <<>> /\ calls < setup.max_calls /\ Call(t, CallsOf(ins))
CallNext(t) == todo[t] # <<>> /\ Call(t, todo[t])

\* The call returns.
Returned(t) ==
  /\ pc' = [pc EXCEPT ![t] = "program"] /\ todo' = [todo EXCEPT ![t] = Tail(@)]
  /\ overlapped' = (overlapped \/ Overlaps(t))
  /\ UNCHANGED <<enabled, updating, prediction_sizes_, calls, marks, given>>

\* The statistics of the stacks that an access has reached.
Sampled(t) ==
  LET dists(k) == CASE k[1] = "sim" -> sim_stacks_'[t].dists
                    [] k[1] = "pair" -> pair_share_stacks_'[k[2]].dists
                    [] k[1] = "all" -> simulated_shared_stack_'.dists
  IN [k \in DOMAIN stats_ |->
        IF k \in KeysOf(t) THEN FoldLeft(AddSample, stats_[k], dists(k)) ELSE stats_[k]]

PCSampled(PC, dist) ==
  LET old == IF PC \in DOMAIN PC_stats_ THEN PC_stats_[PC] ELSE NewDistanceStats
  IN (PC :> WithSample(old, dist, kPCHistogramDensity)) @@ PC_stats_

\* The arbiter of a thread after its access.
Arbitrated(t, ref) ==
  IF setup.do_prefetch
    THEN ArbiterAccess(prefetchers_[t], ref.access.address \div blockBytes, ref.PC,
                       Distance(t, ref.access), ref.is_write)
    ELSE prefetchers_[t]

\* RecordMemRead and RecordMemWrite under the lock.
RecordMem(t) ==
  LET ref == Head(todo[t]) IN
  /\ pc[t] = "record" /\ ~ref.is_fetch
  /\ Returned(t) /\ UNCHANGED inst_buffers
  /\ IF Recording(t)
       THEN /\ prefetchers_' =
                 IF Uses("sim") THEN [prefetchers_ EXCEPT ![t] = Arbitrated(t, ref)]
                 ELSE prefetchers_
            /\ Access(t, ref.access, ref.is_write,
                      IF setup.do_prefetch THEN Requested(prefetchers_'[t]) ELSE {})
            /\ stats_' = Sampled(t)
            /\ PC_stats_' = PCSampled(ref.PC, distance')
       ELSE UNCHANGED <<vars, prefetchers_, stats_, PC_stats_>>

\* The lines that hold the first byte of the instruction and the one after its last,
\* unless the thread has had them last.
Lines(t, a) ==
  LET first == a.address \div kInstBytes
      second == (a.address + a.size) \div kInstBytes
  IN (IF first = inst_buffers[t] THEN <<>> ELSE <<first>>)
       \o (IF second = first THEN <<>> ELSE <<second>>)

\* RecordFetch under the lock.  A line counts as fetched though it is not recorded.
RecordFetch(t) ==
  LET ref == Head(todo[t])
      lines == Lines(t, ref.access)
  IN
  /\ pc[t] = "record" /\ ref.is_fetch
  /\ Returned(t)
  /\ inst_buffers' = [inst_buffers EXCEPT ![t] = IF lines = <<>> THEN @ ELSE Last(lines)]
  /\ IF Recording(t)
       THEN /\ Fetch(t, [i \in DOMAIN lines |->
                          [address |-> lines[i] * kInstBytes, size |-> kInstBytes]])
            /\ stats_' = Sampled(t)
       ELSE UNCHANGED <<vars, stats_>>
  /\ UNCHANGED <<prefetchers_, PC_stats_>>

-----------------------------------------------------------------------------
(* The magic instructions                                                  *)

Marked(t) ==
  /\ pc[t] = "program" /\ todo[t] = <<>> /\ t \in threads_seen_ /\ marks < setup.max_marks
  /\ marks' = marks + 1

\* CSM_CODE_START_TIMER: two stores without the lock, one in reusedistance2stacks.
StartTimer(t) ==
  /\ Marked(t) /\ set_global_enable(TRUE)
  /\ pc' = [pc EXCEPT ![t] = IF Locks THEN "enable" ELSE "program"]
  /\ UNCHANGED <<enabled, programVars, updating, recordVars, stats_, overlapped>>

Enable(t) ==
  /\ pc[t] = "enable" /\ enabled' = TRUE
  /\ pc' = [pc EXCEPT ![t] = "program"]
  /\ UNCHANGED <<vars, programVars, updating, recordVars, stats_, marks, overlapped>>

\* Into UpdateRatioPredictions, and where to from there.
Updating(t, next) ==
  /\ pc' = [pc EXCEPT ![t] = "update"]
  /\ updating' = [updating EXCEPT ![t] = [done |-> {}, key |-> <<>>, step |-> "hits", next |-> next]]
  /\ overlapped' = (overlapped \/ Overlaps(t))

\* CSM_CODE_STOP_TIMER
StopTimer(t) ==
  /\ Marked(t)
  /\ IF Locks
       THEN /\ enabled' = FALSE
            /\ pc' = [pc EXCEPT ![t] = "stop"]
            /\ UNCHANGED <<updating, overlapped>>
       ELSE Updating(t, "disable") /\ UNCHANGED enabled
  /\ UNCHANGED <<vars, programVars, recordVars, stats_>>

AllUpdated == [k \in DOMAIN stats_ |-> UpdateRatioPredictions(stats_[k])]

\* The rest of it in reusedistance, under the lock.
Stop(t) ==
  /\ pc[t] = "stop"
  /\ pc' = [pc EXCEPT ![t] = "program"]
  /\ stats_' = IF global_enable_ THEN AllUpdated ELSE stats_
  /\ set_global_enable(FALSE)
  /\ overlapped' = (overlapped \/ Overlaps(t))
  /\ UNCHANGED <<enabled, programVars, updating, recordVars, marks>>

\* The last store of it in reusedistance2stacks.
Disable(t) ==
  /\ pc[t] = "disable" /\ set_global_enable(FALSE)
  /\ pc' = [pc EXCEPT ![t] = "program"]
  /\ overlapped' = (overlapped \/ Overlaps(t))
  /\ UNCHANGED <<enabled, programVars, updating, recordVars, stats_, marks>>

\* CSM_CODE_END_PERIOD
EndPeriod(t) ==
  /\ Marked(t) /\ Updating(t, "program")
  /\ UNCHANGED <<vars, enabled, programVars, recordVars, stats_>>

\* CSM_CODE_LOCAL_START_PERIOD and CSM_CODE_LOCAL_END_PERIOD, which SINGLE_THREAD ignores.
LocalPeriod(t, enable) ==
  /\ ~SINGLE_THREAD /\ Marked(t) /\ SetThreadEnabled(t, enable)
  /\ UNCHANGED <<enabled, pc, programVars, updating, recordVars, stats_, overlapped>>

\* One stack of UpdateRatioPredictions: its hits, then in two steps its accesses.
UpdateHits(t, key) ==
  /\ updating[t].step = "hits" /\ key \notin updating[t].done
  /\ stats_' = [stats_ EXCEPT ![key] = PushHits(@)]
  /\ updating' = [updating EXCEPT ![t].key = key, ![t].step = "push"]
  /\ pc' = pc

UpdateAccesses(t) ==
  /\ updating[t].step = "push"
  /\ stats_' = [stats_ EXCEPT ![updating[t].key] = PushAccesses(@)]
  /\ updating' = [updating EXCEPT ![t].step = "clear"]
  /\ pc' = pc

ClearUpdated(t) ==
  /\ updating[t].step = "clear"
  /\ stats_' = [stats_ EXCEPT ![updating[t].key] = ClearAccesses(@)]
  /\ updating' = [updating EXCEPT ![t].done = @ \cup {updating[t].key}, ![t].step = "hits"]
  /\ pc' = pc

UpdateEnds(t) ==
  /\ updating[t].step = "hits" /\ DOMAIN stats_ \subseteq updating[t].done
  /\ pc' = [pc EXCEPT ![t] = updating[t].next]
  /\ updating' = [updating EXCEPT ![t] = <<>>]
  /\ UNCHANGED stats_

Update(t) ==
  /\ pc[t] = "update"
  /\ \/ \E key \in DOMAIN stats_ : UpdateHits(t, key)
     \/ UpdateAccesses(t)
     \/ ClearUpdated(t)
     \/ UpdateEnds(t)
  /\ overlapped' = (overlapped \/ Overlaps(t))
  /\ UNCHANGED <<vars, enabled, programVars, recordVars, marks>>

\* The program has ended.
Fini ==
  /\ threads_seen_ # {} /\ \A t \in Thread : pc[t] = "program" /\ todo[t] = <<>>
  /\ stats_' = AllUpdated
  /\ pc' = [t \in Thread |-> "ended"]
  /\ UNCHANGED <<vars, enabled, programVars, updating, recordVars, marks, overlapped>>

ToolNext ==
  \/ ~ByTool /\ Next /\ UNCHANGED toolVars
  \/ ByTool /\
     \/ \E t \in Thread :
          \/ ThreadStart(t)
          \/ t \in setup.threads /\ \E ins \in setup.program[t] : Execute(t, ins)
          \/ CallNext(t) \/ RecordMem(t) \/ RecordFetch(t)
          \/ "timer" \in setup.marks /\ (StartTimer(t) \/ StopTimer(t))
          \/ Enable(t) \/ Stop(t) \/ Disable(t)
          \/ "period" \in setup.marks /\ EndPeriod(t)
          \/ "local" \in setup.marks /\ \E enable \in BOOLEAN : LocalPeriod(t, enable)
          \/ Update(t)
     \/ \E s \in setup.sizes : AddPredictionSize(s[1], s[2])
     \/ Fini

ToolSpec == ToolInit /\ [][ToolNext]_allVars

-----------------------------------------------------------------------------
(* Properties                                                              *)

Rates == << <<1, 2>>, <<9, 10>>, <<99, 100>> >>
Deepest(s) == Max({0} \cup {n \in 1 .. MaxDistance :
                     BucketOf(n, kHistogramDensity) \in BagToSet(s.distance_histogram_)})

\* Every sample is a miss of its kind or in a bucket, and the stack has counted the
\* same misses.
SamplesAddUp ==
  \A k \in DOMAIN stats_ : LET s == stats_[k] IN
    /\ s.sample_count_ = s.cold_miss_count_ + s.inval_miss_count_
                           + SumFunction(s.distance_histogram_)
    /\ k[1] = "sim" => /\ s.cold_miss_count_ = sim_stacks_[k[2]].coldCount
                       /\ s.inval_miss_count_ = sim_stacks_[k[2]].coherenceMisses

\* A size is found for every rate, a larger one for a larger rate, and none larger
\* than the deepest access needs.  The one in the report is not smaller, if there is one.
TargetsAreFound ==
  \A k \in DOMAIN stats_ :
    LET target(i) == GetTargetSize(stats_[k], Rates[i])
        reported(i) == TargetSize(stats_[k], Rates[i])
    IN
    /\ \A i \in DOMAIN Rates : target(i) # {} /\ Max(target(i)) <= Max({1, Deepest(stats_[k])})
    /\ \A i, j \in DOMAIN Rates : i < j => Max(target(i)) <= Max(target(j))
    /\ \A i \in DOMAIN Rates : reported(i) = 0 \/ reported(i) >= Max(target(i))

NobodyUpdates == \A t \in Thread : pc[t] \notin {"update", "disable"}

\* Between the updates, unless something fell between the steps of an unlocked one: the
\* accesses of the periods are the samples, in no period a cache has more hits than there
\* were accesses, and a size given to the stack at its start has an entry for each
\* period.  A size added later has entries for the last periods.
PeriodsAddUp ==
  NobodyUpdates /\ ~overlapped =>
    \A k \in DOMAIN stats_ :
      LET s == stats_[k]
          periods == s.prediction_accesses_
      IN
      /\ SumFunction(periods) + s.current_prediction_accesses_ = s.sample_count_
      /\ \A size \in DOMAIN s.current_prediction_hits_ :
           LET hits == HitsOf(s, size)
               late == Len(periods) - Len(hits)
           IN
           /\ late >= 0 /\ (size \in given[k] => late = 0)
           /\ \A i \in DOMAIN hits : hits[i] <= periods[i + late]
           /\ s.current_prediction_hits_[size] <= s.current_prediction_accesses_

\* The statistics keep what the stack has counted, in their samples and in the periods these
\* are shared out to by UpdateRatioPredictions.
StatsAddUp == SamplesAddUp /\ PeriodsAddUp

\* The samples up to this depth and the misses counted as hits (see IsHit): what a cache
\* of this size would have to be told.
Expected(s, size) ==
  (IF blockBytes % 2 = 0 THEN s.inval_miss_count_ ELSE 0)
    + SumFunctionOnSet(s.distance_histogram_,
                       {b \in BagToSet(s.distance_histogram_) :
                          \E n \in 0 .. MaxDistance :
                            BucketOf(n, kHistogramDensity) = b /\ n * blockBytes < size})

\* The sizes that are told from the histogram are right, and in the same executions so are
\* the hits of all periods for a size given to the stack at its start.
PredictionsFit ==
  /\ TargetsAreFound
  /\ NobodyUpdates /\ ~overlapped =>
       \A k \in DOMAIN stats_ : \A size \in given[k] :
         SumFunction(HitsOf(stats_[k], size)) + stats_[k].current_prediction_hits_[size]
           = Expected(stats_[k], size)

\* The end of the timer closes the last period: while recording is off, no access is
\* counted for a period to come, whichever threads were about to record one.
StoppedIsFlushed ==
  ByTool /\ ~global_enable_ /\ ~overlapped =>
    \A k \in DOMAIN stats_ : stats_[k].current_prediction_accesses_ = 0

\* "the same block can only be prefetched once in this many references", whatever asks
\* for it, is delayed, cancelled or dropped; the queue and the set of recent requests agree.
PrefetchesAreSpaced ==
  \A t \in DOMAIN prefetchers_ :
    LET p == prefetchers_[t] IN
    /\ \A i, j \in DOMAIN p.issued :
         i < j /\ p.issued[i][1] = p.issued[j][1]
           => p.issued[j][2] - p.issued[i][2] >= kPrefetchRepeatFrequency
    /\ p.recent_prefetch_addrs_ = {r.addr : r \in ToSet(p.recent_prefetches_)}
    /\ Cardinality(p.recent_prefetch_addrs_) = Len(p.recent_prefetches_)

\* A block that the arbiter takes for prefetched and not accessed since is in the stack
\* of its thread, or another thread has invalidated it there.
PrefetchedIsInStack ==
  \A t \in DOMAIN prefetchers_ : \A b \in prefetchers_[t].prefetched_addrs_ :
    b \in InBlocks(sim_stacks_, t) \/ b \in DOMAIN sim_stacks_[t].invalidatedAddrs
=============================================================================
