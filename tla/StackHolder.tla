---------------------------- MODULE StackHolder ----------------------------
(***************************************************************************)
(* stackholder.{h,cc}: the reuse stacks of all threads, of several kinds.  *)
(* Private stacks see their thread's accesses: the single ones only them;  *)
(* the simulated ones also the writes of the other threads, which          *)
(* invalidate the block, at once; lazy and oracular ones at the end of a   *)
(* parallel region, after the thread's own accesses of the region or       *)
(* before them.  A pair stack sees two threads, the shared stack all.      *)
(*                                                                         *)
(* The kinds in use are chosen before the first thread starts, as by the   *)
(* tools and the test.                                                     *)
(***************************************************************************)
EXTENDS ReuseStack, FiniteSets

CONSTANTS
  Thread,         \* numbers
  Setups,         \* the configurations to start from
  MaxBuffered     \* bound on the accesses of a thread in a parallel region

ASSUME StackHolderAssumption ==
  /\ Thread \subseteq 0 .. 8
  /\ \A s \in Setups :
       /\ s.kinds \subseteq {"single", "sim", "lazy", "oracular", "shared"}
       /\ s.threads \subseteq Thread
       /\ \A a \in s.accesses :
            /\ a \in [address : Nat, size : Nat]
            /\ ToSet(BlocksOfAccess(a.address, a.size)) \subseteq Block
       /\ s.requests \subseteq Block /\ (s.requests # {} => s.do_prefetch)
       /\ {s.do_prefetch, s.do_fetch, s.switches} \subseteq BOOLEAN
  /\ MaxBuffered \in Nat

VARIABLES
  setup,            \* kinds, do_prefetch, do_fetch; of the program: threads, accesses, a
                    \* set of [address, size], and the blocks it may
                    \* prefetch and whether it switches recording off and on
  global_enable_,
  threads_seen_,
  threads_enabled_,
  single_stacks_, sim_stacks_, lazy_stacks_, oracular_stacks_,     \* per thread seen
  pair_share_stacks_,       \* per pair seen
  simulated_shared_stack_,  \* <<>> if there is none
  buffered_accesses_,
  distance,         \* what the last Access returned
  written           \* history for lazy stacks: <<thread, block>> written in this region

vars == <<setup, global_enable_, threads_seen_, threads_enabled_, single_stacks_, sim_stacks_,
          lazy_stacks_, oracular_stacks_, pair_share_stacks_, simulated_shared_stack_,
          buffered_accesses_, distance, written>>

Uses(kind) == kind \in setup.kinds
Buffers == Uses("lazy") \/ Uses("oracular")

\* Index 0 of the table is "not used", by the comment on it; the tools number
\* their threads from 0.
share_map_ == <<0, 0, 0, 1, 1, 2, 2, 3, 3>>
PairOf(thread) == share_map_[thread + 1]

InitStacks(enable) ==
  /\ setup \in Setups
  /\ global_enable_ = enable
  /\ threads_seen_ = {}
  /\ threads_enabled_ = [t \in Thread |-> FALSE]
  /\ single_stacks_ = <<>> /\ sim_stacks_ = <<>> /\ lazy_stacks_ = <<>>
  /\ oracular_stacks_ = <<>> /\ pair_share_stacks_ = <<>>
  /\ simulated_shared_stack_ = <<>>
  /\ buffered_accesses_ = [t \in Thread |-> <<>>]
  /\ distance = 0
  /\ written = {}

Init == InitStacks(TRUE)

\* Mutant: the stack of a pair is made anew by its second thread.
WithNewStack(stacks, key) ==
  [k \in DOMAIN stacks \cup {key} |-> IF k = key THEN NewStack ELSE stacks[k]]

\* With a new stack for this key, unless there is one.
WithStack(stacks, key) ==
  [k \in DOMAIN stacks \cup {key} |-> IF k \in DOMAIN stacks THEN stacks[k] ELSE NewStack]

AddIf(used, stacks, key) == IF used THEN WithStack(stacks, key) ELSE stacks

Allocate(thread) ==
  /\ thread \in setup.threads \ threads_seen_
  /\ threads_seen_' = threads_seen_ \cup {thread}
  /\ threads_enabled_' = [threads_enabled_ EXCEPT ![thread] = TRUE]
  /\ single_stacks_' = AddIf(Uses("single"), single_stacks_, thread)
  /\ sim_stacks_' = AddIf(Uses("sim"), sim_stacks_, thread)
  /\ lazy_stacks_' = AddIf(Uses("lazy"), lazy_stacks_, thread)
  /\ oracular_stacks_' = AddIf(Uses("oracular"), oracular_stacks_, thread)
  /\ pair_share_stacks_' = AddIf(Uses("shared"), pair_share_stacks_, PairOf(thread))
  /\ simulated_shared_stack_' =
       IF Uses("shared") /\ simulated_shared_stack_ = <<>> THEN NewStack
                                                           ELSE simulated_shared_stack_
  /\ UNCHANGED <<setup, global_enable_, buffered_accesses_, distance, written>>

-----------------------------------------------------------------------------
(* Accesses                                                                *)

Accessing(stacks, key, a) == [stacks EXCEPT ![key] = AccessStack(@, a.address, a.size)]

\* Mutant: the last thread seen does not notice.
SnoopedButLast(stacks, key, a, is_write) ==
  [k \in DOMAIN stacks |->
     IF is_write /\ k # key /\ k # Max(DOMAIN stacks) THEN Snoop(stacks[k], a.address)
                                                      ELSE stacks[k]]

\* A write invalidates the block in all stacks but the writer's.
Snooped(stacks, key, a, is_write) ==
  [k \in DOMAIN stacks |->
     IF is_write /\ k # key THEN Snoop(stacks[k], a.address) ELSE stacks[k]]

\* Mutant: the number of the block is taken for an address.
PrefetchedUnscaled(stacks, thread, requested) ==
  IF requested = {} THEN stacks
  ELSE [stacks EXCEPT ![thread] = Prefetch(@, CHOOSE b \in requested : TRUE)]

\* The block the prefetcher asks for after the access, if any.
Prefetched(stacks, thread, requested) ==
  IF requested = {} THEN stacks
  ELSE [stacks EXCEPT ![thread] = Prefetch(@, (CHOOSE b \in requested : TRUE) * blockBytes)]

\* What a prefetcher may ask for, if nothing else is said of it.
Requests == {{}} \cup {{b} : b \in setup.requests}

\* Mutant: the threads' own switch decides.
RecordingAnyway(thread) == threads_enabled_[thread]

Recording(thread) == global_enable_ /\ threads_enabled_[thread]

\* The distance in the simulated stack has priority.
Distance(thread, a) ==
  CASE Uses("sim") -> Last(Accessing(sim_stacks_, thread, a)[thread].dists)
    [] Uses("shared") /\ ~Uses("sim") ->
         Last(AccessStack(simulated_shared_stack_, a.address, a.size).dists)
    [] OTHER -> 0

\* BufferedRef keeps the size of an access in a byte.
BufferedSize(size) == size % 256

Access(thread, a, is_write, requested) ==
  /\ Recording(thread)
  /\ Buffers => Len(buffered_accesses_[thread]) < MaxBuffered
  /\ single_stacks_' = IF Uses("single") THEN Accessing(single_stacks_, thread, a)
                                         ELSE single_stacks_
  /\ sim_stacks_' =
       IF Uses("sim")
         THEN Prefetched(Snooped(Accessing(sim_stacks_, thread, a), thread, a, is_write),
                         thread, requested)
         ELSE sim_stacks_
  /\ lazy_stacks_' = IF Uses("lazy") THEN Accessing(lazy_stacks_, thread, a) ELSE lazy_stacks_
  /\ buffered_accesses_' =
       IF Buffers
         THEN [buffered_accesses_ EXCEPT ![thread] =
                 Append(@, [ address |-> a.address, size |-> BufferedSize(a.size),
                             is_write |-> is_write ])]
         ELSE buffered_accesses_
  /\ IF Uses("shared")
       THEN /\ simulated_shared_stack_' = AccessStack(simulated_shared_stack_, a.address, a.size)
            /\ pair_share_stacks_' =
                 Snooped(Accessing(pair_share_stacks_, PairOf(thread), a), PairOf(thread), a,
                         is_write)
       ELSE UNCHANGED <<simulated_shared_stack_, pair_share_stacks_>>
  /\ distance' = Distance(thread, a)
  /\ written' = written \cup IF Uses("lazy") /\ is_write
                               THEN {<<thread, a.address \div blockBytes>>} ELSE {}
  /\ UNCHANGED <<setup, global_enable_, threads_seen_, threads_enabled_, oracular_stacks_>>

\* One fetch after the other.
Fetch(thread, fetches) ==
  LET blocks == FlattenSeq([i \in DOMAIN fetches |->
                              BlocksOfAccess(fetches[i].address, fetches[i].size)])
  IN
  /\ Recording(thread) /\ setup.do_fetch
  /\ sim_stacks_' = [sim_stacks_ EXCEPT ![thread] = AccessBlocks(@, blocks)]
  /\ UNCHANGED <<setup, global_enable_, threads_seen_, threads_enabled_, single_stacks_,
                 lazy_stacks_, oracular_stacks_, pair_share_stacks_, simulated_shared_stack_,
                 buffered_accesses_, distance, written>>

-----------------------------------------------------------------------------
(* The end of a parallel region, and the switches                          *)

\* A buffered access of another thread.
ReplayOther(s, ref) == IF ref.is_write THEN Snoop(s, ref.address) ELSE s

AfterWritesOf(t, s) == FoldLeft(ReplayOther, s, buffered_accesses_[t])

\* A stack after the buffered writes of all threads but this one.
AfterOthersWrites(stack, thread) == FoldSet(AfterWritesOf, stack, threads_seen_ \ {thread})

ReplayOwn(s, ref) == AccessStack(s, ref.address, ref.size)

\* Mutant: an oracular stack sees its own accesses before the writes of the others.
AfterOwnFirst(stack, thread) ==
  AfterOthersWrites(FoldLeft(ReplayOwn, stack, buffered_accesses_[thread]), thread)

\* An oracular stack sees the writes of the others, then its own accesses.
AfterRegion(stack, thread) ==
  FoldLeft(ReplayOwn, AfterOthersWrites(stack, thread), buffered_accesses_[thread])

\* The buffers are only cleared with oracular stacks.
EndParallelRegion ==
  /\ lazy_stacks_' = [t \in DOMAIN lazy_stacks_ |-> AfterOthersWrites(lazy_stacks_[t], t)]
  /\ oracular_stacks_' = [t \in DOMAIN oracular_stacks_ |-> AfterRegion(oracular_stacks_[t], t)]
  /\ buffered_accesses_' =
       [t \in Thread |-> IF Uses("oracular") /\ t \in threads_seen_
                           THEN <<>> ELSE buffered_accesses_[t]]
  /\ written' = {}
  /\ UNCHANGED <<setup, global_enable_, threads_seen_, threads_enabled_, single_stacks_,
                 sim_stacks_, pair_share_stacks_, simulated_shared_stack_, distance>>

set_global_enable(enable) ==
  /\ setup.switches
  /\ global_enable_' = enable
  /\ UNCHANGED <<setup, threads_seen_, threads_enabled_, single_stacks_, sim_stacks_,
                 lazy_stacks_, oracular_stacks_, pair_share_stacks_, simulated_shared_stack_,
                 buffered_accesses_, distance, written>>

SetThreadEnabled(thread, enable) ==
  /\ setup.switches /\ thread \in threads_seen_
  /\ threads_enabled_' = [threads_enabled_ EXCEPT ![thread] = enable]
  /\ UNCHANGED <<setup, global_enable_, threads_seen_, single_stacks_, sim_stacks_,
                 lazy_stacks_, oracular_stacks_, pair_share_stacks_, simulated_shared_stack_,
                 buffered_accesses_, distance, written>>

Next ==
  \/ \E t \in Thread, a \in setup.accesses :
       \/ \E is_write \in BOOLEAN, requested \in Requests : Access(t, a, is_write, requested)
       \/ Fetch(t, <<a>>)
  \/ \E t \in Thread :
       Allocate(t) \/ \E enable \in BOOLEAN : SetThreadEnabled(t, enable)
  \/ EndParallelRegion
  \/ \E enable \in BOOLEAN : set_global_enable(enable)

Spec == Init /\ [][Next]_vars

-----------------------------------------------------------------------------
(* Properties                                                              *)

Ranges(stacks) == {stacks[k] : k \in DOMAIN stacks}

AllStacks ==
  Ranges(single_stacks_) \cup Ranges(sim_stacks_) \cup Ranges(lazy_stacks_)
    \cup Ranges(oracular_stacks_) \cup Ranges(pair_share_stacks_)
    \cup IF simulated_shared_stack_ = <<>> THEN {} ELSE {simulated_shared_stack_}

\* Every miss was a first access or follows an invalidation of its own: in any stack,
\* the invalidations are the coherence misses and the blocks still missing, the cold
\* misses are the blocks ever seen.
MissesAreAccounted ==
  \A s \in AllStacks :
    LET missing == DOMAIN s.invalidatedAddrs IN
    /\ \A b \in missing : s.invalidatedAddrs[b] = 1 /\ b \notin BlocksOf(s.list)
    /\ s.invalCount = s.coherenceMisses + s.prefetchCoherenceMisses + Cardinality(missing)
    /\ s.coldCount + s.prefetchColdCount
         = Cardinality(BlocksOf(s.list)) + Cardinality(missing)

\* Only the thread's own data accesses reach its simulated stack.
OnlyDemand == ~setup.do_prefetch /\ ~setup.do_fetch

InBlocks(stacks, t) == BlocksOf(stacks[t].list)

\* No access of the program loses bytes on its way to the end of the region.
SizesFit == \A a \in setup.accesses : BufferedSize(a.size) = a.size

NothingIsBuffered == \A t \in Thread : buffered_accesses_[t] = <<>>

\* The three times at which invalidations are applied agree in the order they should:
\* between regions a lazy stack has no block that the simulated one has lost, and the
\* simulated one none that the oracular one has lost.  The second half is for programs
\* whose accesses are shorter than 256 bytes: an oracular stack never sees the blocks
\* that are cut off longer ones.
PeriodsAgree ==
  \A t \in threads_seen_ : Uses("sim") /\ OnlyDemand =>
    /\ Uses("lazy") /\ written = {} => InBlocks(lazy_stacks_, t) \subseteq InBlocks(sim_stacks_, t)
    /\ Uses("oracular") /\ SizesFit /\ NothingIsBuffered =>
         InBlocks(sim_stacks_, t) \subseteq InBlocks(oracular_stacks_, t)

\* What a thread has in its simulated stack its pair has, and what a pair or a thread
\* alone has the shared stack has.
SharingIncludes ==
  \A t \in threads_seen_ : Uses("shared") =>
    LET shared == BlocksOf(simulated_shared_stack_.list)
        pair == InBlocks(pair_share_stacks_, PairOf(t))
    IN
    /\ Uses("sim") /\ OnlyDemand => InBlocks(sim_stacks_, t) \subseteq pair
    /\ pair \subseteq shared
    /\ Uses("single") => InBlocks(single_stacks_, t) \subseteq shared

Copies(stacks) == [b \in Block |-> {k \in DOMAIN stacks : b \in InBlocks(stacks, k)}]

Sim == INSTANCE CoherentCopies WITH Cache <- Thread, copies <- Copies(sim_stacks_)
Pairs == INSTANCE CoherentCopies
  WITH Cache <- {PairOf(t) : t \in Thread}, copies <- Copies(pair_share_stacks_)

\* The simulated stacks, and the pair stacks, are coherent caches.
ImplementsCoherentCopies == Sim!Spec /\ Pairs!Spec

\* "doing invalidations for previous interval": the end of a region takes a block from
\* a lazy stack only if another thread has written it in this region.
LazyLosesWhatWasWritten ==
  [][ \A t \in DOMAIN lazy_stacks_ : \A b \in InBlocks(lazy_stacks_, t) :
        b \in InBlocks(lazy_stacks_', t) \/ \E u \in Thread \ {t} : <<u, b>> \in written ]_vars

\* "just as if there were no inval (due to hole)": holes keep the blocks of a simulated
\* stack no deeper than they are without invalidations.
HolesKeepDepths ==
  \A t \in threads_seen_ : Uses("sim") /\ Uses("single") /\ OnlyDemand =>
    \A b \in InBlocks(sim_stacks_, t) :
      DepthIn(sim_stacks_[t].list, b) <= DepthIn(single_stacks_[t].list, b)
=============================================================================
