# Formal models of the reuse distance tools

These modules model ReuseDistancePintool: the barrier and the locks its Pin tools rely on,
the parallel and the sequential reuse distance samplers, the exact and the approximate reuse
stack (splay trees with holes), the holder of the stacks of all threads with its
statistics and prefetchers, and the tools that drive them. TLC checks them on small
instances, TLAPS proves the central theorems for all values of the constants.

- [1. The system](#1-the-system)
- [2. Modules](#2-modules)
- [3. Runs](#3-runs)
- [4. Theorems](#4-theorems)
- [5. Where the code and its documentation disagree](#5-where-the-code-and-its-documentation-disagree)
- [6. Not modelled](#6-not-modelled)

Paths below are relative to `rda_stacks/src` unless they start with `PinReuseDistance`.
`PROJECT.json` maps every definition to the lines it stands for, lists the runs, a mutant
per checked property, the hazards and the theorems.

## 1. The system

A Pin tool instruments the memory references of a multithreaded program and passes them
to a library that measures *reuse distances*: how many different blocks were touched
between two references to the same block. Private caches lose blocks to the writes of
other threads, so the library simulates invalidations too: the place of an invalidated
block stays in the stack as a *hole* so that the blocks below keep their depth.

There are three families of tools.

- *Exact* (`PinReuseDistance/reusedistance.cc`, `reusedistance2stacks.cc`): every block of every
  thread is in a stack (`StackHolder` > `ReuseStack` > `TreeReuseStack` or `approximateReuseStack`).
  Each access is recorded under one lock; periods and timers are not.
- *Sampled, sequential* (`sampledreuse_perref.cc`, `sampledreuse_reinst.cc`): the threads share one
  `SampledReuseStack`, which follows a few randomly chosen blocks, under one lock. Two words
  read without the lock keep the threads out of it while nothing is sampled.
- *Sampled, parallel* (`sampledreuse_parallel.cc`): the samples of `ParallelSampledStack` belong to
  threads that run unlocked and meet in the rounds of a `MultistageBarrier`.

| Component | State | Operations | Talks to | What makes it correct |
|---|---|---|---|---|
| `MultistageBarrier` (`rda-sync`) | counts per stage, current stage, round, who is awake, the circular queue of slots | `AddThread`, `WaitStart`, `WaitStage`, `Sleep`, `Wake`, `GetAdjacentSleepers` | called by the sampler and by Pin's call-backs for futexes and thread exit; spins on shared words | all awake threads are in the same stage; a sleeper is not waited for; every slot is worked for by exactly one awake thread; nobody spins for good |
| `ParallelSampledStack`, driven by `PinReuseDistance/sampledreuse_parallel.cc` | distance sets (samples) per thread, a write set per sample of another thread, flags that call for a round, count of active samples | `Access`, `NewSampledAddress`, `CheckOldestSample`, `MergeAllSamples`, `SynchronizedOperations`, `Sleep`, `Wake`, `GetThreadStack`, `DumpStatsPython` | barrier; marks each other's samples without a lock | distances are right although threads only meet in rounds; marks are not forgotten; write sets match samples; the count of active samples is exact |
| `SampledReuseStack`, `SharedSampledReuseStack` | per thread a map from sampled block to the blocks seen since and a count of holes; counts | `NewSampledAddress`, `SampleAccess`, `RecordLeftovers`, `Allocate`, switches | statistics | the sets and counts of all samples describe one list with holes; every sample is reported once |
| `PinReuseDistance/sampledreuse_perref.cc` | the flag `sampling`, `active_samples`, a lock; per thread its choice of a reference | instrumented blocks and references, `SampleTrigger`, `SampledMemRef`, magic instructions, `Fini` | `SampledReuseStack` under the lock | once a sample is watched no reference is skipped while a block is tracked; references are looked at only for a reason |
| `RdaLock`, `FutexLock`, `ticket_spinlock` | a word | get, try, release | guard the barrier, the exact stacks, the tools | mutual exclusion, no lost wake-up, first come first served for tickets |
| `StackHolder` | per thread a single, simulated, lazy and oracular stack; per pair and overall a shared one; buffered accesses of the region | `Allocate`, `Access`, `Fetch`, `EndParallelRegion`, `UpdateRatioPredictions`, switches | one `ReuseStack` per entry, prefetchers, statistics | a write invalidates every other copy and only those; the kinds differ only by the time of the invalidations |
| `PinReuseDistance/reusedistance.cc`, `reusedistance2stacks.cc` | enabled, line buffers, prediction sizes | analysis calls of an instruction, `RecordFetch`, magic instructions for timers and periods, `ThreadStart` | `StackHolder` under `stacks_lock`, at some places without it | what is recorded is counted in the period and with the sizes it belongs to |
| `ReuseStack` | a stack, the invalidated addresses, counts of misses | `Access`, `Prefetch`, `Snoop` | stack implementation, statistics | every miss is a first access or due to one invalidation |
| `ReuseStackStats`, `PCStats` | a histogram of distances, counts of misses, hits per predicted size and period | `AddSample`, `AddRatioPredictionSize`, `UpdateRatioPredictions`, `GetTargetSize` | - | samples, periods and sizes add up |
| `PrefetchArbiter` with DCU, stride and stream prefetchers | tables with confidences; a queue of requests, recent requests, prefetched blocks | `Access` | gets the distances of a stack, its requests are prefetched into it | no block is requested too soon again; what counts as prefetched is there |
| `TreeReuseStack` | a splay tree of nodes in order of last access, weights, a table from address to inum, the holes | `StackAccess`, `SnoopInvalidate`, `GetDepth` | - | the tree is a list of blocks and holes, and the weights give depths |
| `approximateReuseStack` | a splay tree of nodes that each stand for an interval of times, a table, the holes | `StackAccess`, `SnoopInvalidate`, compression | - | the error of a distance is at most the rate asked for |

What is hard here:

- *Interleaving.* The barrier mixes a lock with unlocked spinning on `stage_`; threads fall
  asleep, wake and join around rounds. The sampler's threads set flags and overwrite each
  other's marks between rounds.
- *Stale state.* Flags are cached before the stage in which they are reset; marks are set
  after a test; write sets point into objects that another thread deletes.
- *Work for others.* Awake threads walk the queue to do the stage work of sleeping ones.
- *Long sequences.* Splaying, swapping nodes and filling holes go wrong, if they do, only
  after a sequence of accesses and invalidations that nobody writes down in a test.
- *Work without the lock.* The exact tools end periods and timers outside of the lock that
  every access takes; the per-reference sampler decides outside of it whether to take it.
- *Sets kept twice.* The arbiter's queue and set, the table and the tree, the samples' own sets
  and counts, the misses of a stack and of its statistics: all must move together.
- *Boundaries.* Ticket bytes wrap; an invalidation leaves a hole at the top or the bottom; nodes
  that stand for several blocks lose one of them; sizes to predict are added late.

Nothing is persisted and there are no messages: crashes and lost messages do not arise.

## 2. Modules

Abstract specifications say what a component promises; the detailed ones follow the code,
one action per handler, and are checked or proved to implement them.

| Module | Models | Notes |
|---|---|---|
| `StagedRendezvous` | abstract: threads pass the stages of a round all at once; sleepers are not waited for | |
| `ThreadQueue` | `GetAdjacentSleepers` and the walk of its callers: which slots an awake thread serves | shared by barrier and sampler |
| `ThreadQueueProofs` | proofs | the division of the slots, used by the proofs about barrier and sampler |
| `MultistageBarrier` | `rda-sync.{h,cc}` | what a method does under the lock is one step, the end of a round three, unlocked reads their own; the waits of `Wake` are separate steps |
| `MultistageBarrierProofs` | proofs | the refinement of `StagedRendezvous` included |
| `ParallelSampledStack` | `parallelsampledstack.{h,cc}` and the calls of `sampledreuse_parallel.cc` | barrier at a coarser grain (one step per method); the stage work of one thread is one step, the accesses between rounds are split where another thread can get in between |
| `ParallelSampledStackProofs`, `ParallelSampledStackTeamProofs` | proofs | what holds whoever joins; what holds for a team that is complete from the start |
| `Mutex`, `FifoMutex` | abstract locks | |
| `RdaLock`, `FutexLock`, `TicketLock` | the three lock headers | each atomic instruction, plain read and system call is a step; futex calls as the kernel executes them, spurious returns included |
| `LocksProofs` | proofs about all three, as `MCLocks` composes them | |
| `HoleList`, `HoleStack` | abstract: a list of blocks and holes, its accesses and invalidations, as operators and as a machine | |
| `TreeReuseStack` | `treereusestack.{h,cc}` | the heap of nodes, `p_stack`, rotations with their weights, reuse and swapping of nodes |
| `ApproximateReuseStack` | `approximatereusestack.{h,cc}` | a heap of nodes; `splay`, `treeInsert`, `treeDelete`, `treeSearch` with their corrections of weights; a compressed tree may have any shape, as its order is random in the code |
| `ReuseDistance2Stacks` | the comparison of an exact and an approximate stack in `reusedistance2stacks.cc` | the exact one is `HoleList`, which `TreeReuseStack` implements |
| `ReuseStack` | `reusestack.{h,cc}` | operators on a record, whose list is what `TreeReuseStack` implements |
| `ReuseStackStats` | `reusestackstats.{h,cc}` | operators on a record: histogram, misses, predictions per period, target sizes |
| `Prefetchers` | `prefetcher.{h,cc}`, `strideprefetcher`, `globalstreamprefetcher` | operators on records for the tables and the arbiter |
| `CoherentCopies` | abstract: a cache gets a copy by accessing a block, and loses it only to another cache's write | |
| `StackHolder` | `stackholder.{h,cc}` | the kinds of stacks in use are chosen in the initial state (`setup`) |
| `StackHolderProofs` | proofs | of the operators of `ReuseStack`, then of the steps of `StackHolder`, whoever makes them |
| `ReuseDistance` | `reusedistance.cc`, and what `reusedistance2stacks.cc` does otherwise; on top of `StackHolder`, `ReuseStackStats` and `Prefetchers` | a recorded access is one step, as the lock is held; updates without the lock are a step per statement |
| `ReuseDistanceProofs` | proofs | of the prefetchers, the arbiter and the statistics, then of the tools on top of `StackHolderProofs` |
| `SampledReuseStack` | `sampledreusestack.{h,cc}`, `sharedsampledreusestack.{h,cc}` | operators on a record; the shared variant keeps one map, that of thread 0 |
| `RecencyList` | abstract: one list of blocks, holes and marks per cache | history in `PerRefSampler` |
| `PerRefSampler` | `sampledreuse_perref.cc` | what happens under the lock is one step but for the writes that others read without it |
| `PerRefSamplerProofs` | proofs | |
| `MC...` | instances for TLC | |

How they compose: `ParallelSampledStack` and `MultistageBarrier` share `ThreadQueue`; `ReuseDistance` extends
`StackHolder`, which extends `ReuseStack`, whose lists `TreeReuseStack` implements through
`HoleStack`; `ReuseDistance2Stacks` extends `ApproximateReuseStack` and instantiates `HoleList`; `PerRefSampler` extends
`SampledReuseStack` and `RecencyList`.

How state and actions correspond to the code:

- Variables have the names of the members they model (`count_`, `stage_`, `distance_sets_`,
  `hole_set_`, `sim_stacks_`, ...). Program counters (`pc`) say where in a method a
  thread is. `tally`, `touched`, `written`, `given`, `overlapped`, `recency` are history variables
  and say so.
- An exception, a failed assertion or an access to a deleted object sets `failure`
  (barrier) or `outcome` (sampler) and ends the behaviour, as the process would.
- `DistanceSet` objects are numbered in order of creation and carry "deleted" from then on.
- Tree nodes live in a heap `node` indexed by pointers, with `NULL`. `kHoleAddress` is -1.
- In `ReuseStack` the sentinels `kColdMiss` and `kInvalidationMiss`, the two largest values
  of a signed 64-bit type, are -1 and -2.
- `BufferedSize` cuts the size of a buffered access to a byte, as `BufferedRef` does. Programs
  that lose nothing by it satisfy `SizesFit`.
- Where `StackHolder` is checked by itself, the prefetcher may answer with any block or none, so
  what is checked holds for every prefetcher; under the tools the real ones answer.
- `kMissDistance`, the sizes of tables and the repeat frequency are constants, set small. A
  bucket of the histogram is computed as in the code, with integers in place of logarithms.
- In `PerRefSampler` the random interval between triggers is a choice: any block entered may
  trigger. The trigger chooses among the references that the block has in its code, of which fewer
  may be executed, as predicated ones can be skipped: the choice is then carried over to a later block.
- A sample is taken under the lock, but `sampling` is set one statement later: another thread that takes
  sampling down in between leaves a short window in which the sample is not looked at.
  `TrackedIsWatched` is about the time after it.

## 3. Runs

All with two TLC workers in at most a few minutes each. Every property of a passing run has a
mutant, the code with a plausible bug, that violates it (`Mutant:` in the modules).

| Run | Instance | What it shows |
|---|---|---|
| `barrier_founders` | 3 threads registered from the start, 3 rounds, asleep or awake at any time | in step in every stage, nothing thrown, team and rounds counted right, each slot served once, nobody changes between awake and asleep within a round, implements `StagedRendezvous`, nobody spins forever |
| `barrier_join` | 2 threads and 2 that register while the others run, room for 3, 2 rounds | a full team is never missed, whenever threads register; the fourth gets the exception |
| `barrier_join_separation` | 2 threads and one that registers, 2 rounds | *violation*, see 5 |
| `sampler_rounds` | 2 threads with 2 samples of 2 blocks, or 1 sample and 3 blocks, private or shared stacks; 3 threads with 1 block; 1 thread and one that joins at any time, of which one switches its sampling | nothing thrown, write sets match samples, marks are announced, merges are complete, distances right, the oldest sample is the last, the count of active samples is exact; with a thread that joins only the last two and the bound on distances with private stacks are claimed (see 5) |
| `sampler_liveness` | 2 threads, 2 blocks, 1 sample | every round completes, every marked sample is finalized |
| `sampler_prune_lost` | 2 threads, 2 blocks, 2 samples | *violation*, see 5 |
| `locks` | 4 threads at each lock, 4 tickets | all implement `Mutex`, the ticket lock `FifoMutex`; no sleeper of the futex lock is forgotten; somebody gets in, and at the ticket lock everybody |
| `reuse_stacks` | 5 blocks, accesses and invalidations in any order, sequences of any length; error rate 1/2, compression from 4 nodes on | both splay trees are sound and agree with tables and holes; the exact one implements `HoleStack`; the approximate one knows the same blocks and its distances are within the error rate |
| `reusedistance` | the library by itself: 2 blocks, four configurations, up to 2 accesses of a thread per region where they are buffered; the tools: 9 blocks, up to 7 recorded calls and 3 marks, one thread or two, all kinds of prefetchers, delays 0 to 2 | misses, statistics, predictions and periods add up; the kinds of stacks include each other as they should; simulated and pair stacks are coherent caches; nothing is recorded into a closed period; the arbiter spaces its requests and knows what is prefetched |
| `perref` | 2 threads, 3 blocks, private and shared maps, limits 1 and 2, blocks of up to 2 references | whatever is tracked is watched, and only for a reason; samples are reported once; sets and holes of all samples are those of one list |
| `stack_holder_lazy`, `stack_holder_depth` | 2 threads, 2 and 3 blocks | *violations*, see 5 |

**Why the bounds are enough.**
*Barrier.* The code distinguishes the first arrival, a later one, the last one and a sleeper;
three threads make all of them coexist. Three rounds are needed for a thread that sleeps in
one round, misses one and wakes in a third. `MaxGeneration` bounds only the start of rounds, so
every round that begins is finished, and the theorems cover any number of threads.
*Sampler.* Two samples in one list make an oldest and a newer one (`OldestIsLast`, unlinking);
two threads make an owner and a remote writer; three are needed only for sleepers that sit
next to each other in the queue; three blocks for a hole that is filled by a block that was
not invalidated. `MaxSamples` bounds the samples ever created, `MaxPending` the triggers
outstanding: with more than one the bound on the active count in the code itself is reached
and the program gives up (see the hazard at line 676). `BlockSymmetry` permutes blocks, which the
code never orders; the run with liveness does without it.
*Locks.* Four threads: an owner, one in the kernel, one about to sleep and one that comes anew.
As many tickets as threads, so the ticket bytes wrap all the time.
*Trees.* Names of nodes and blocks and the gaps between inums or times do not influence what the
code does, so `StacksView` identifies states that differ in them only; what remains is finite and
`MaxReferences` (40) is never reached, as no state is deeper than 16 steps. Five blocks reach
every branch of `splay`, `delete_inum` and `DoHoleAccess` except one: a rotation to the left
at the root. It is not reached because the root, always the last block accessed, never
has a right child. `CompressAt` stands for the code's multiple of a logarithm, which no instance of
this size would reach; at 4 of at most 6 nodes, compressed and uncompressed trees alternate, and with the
rate 1/2 a node may stand for as many times as are newer.
*Stack holder and tools.* `CountedView` keeps the differences of counters that the properties
speak of, so sequences of any length are covered in the library by itself; the only bound left is
`MaxBuffered`, two accesses of each thread in a region, enough for a thread to write and read what the
other writes and reads. Two blocks suffice for a block above and below the other and for an
access across both; three threads make two pairs, one of them with two members. The statistics
grow without a bound, so the tools run programs of few calls: seven make a stride or a stream trusted,
fill the queue of recent requests (`kPrefetchRepeatFrequency` is 3) and drain it again; three marks
start a timer, end a period or stop it while the other thread is at any place.
*Per-reference sampler.* `MaxActive` stops triggers while a sample is counted; one trigger is still
outstanding in each thread when that happens, so two samples compete and
samples are refused. Recorded samples are subtracted in the view, so executions of any length
are covered. The theorems have none of these bounds.

**Deadlock** is checked in `barrier_founders`, `locks`, `reuse_stacks` and the stack holder's violations.
The other runs turn it off, as the system stops there: with an exception, with `DumpStatsPython` or
`Fini`, at the end of the program, or with the last round that `MaxGeneration` allows.

**Fairness** is weak fairness per thread, of what a running thread does by itself.
In the barrier (`Obliged`) a thread that is in the barrier's code, or in the work of a stage,
goes on, and one in application code will at some time reach the barrier or sleep; nothing
makes a sleeper wake. In the sampler the same holds for a thread in an analysis call, and an
awake thread in the program makes memory references or falls asleep: this is the assumption
the code itself makes, since a thread that never makes an instrumented reference holds up
the round (the hazard at parallelsampledstack.cc:136). At the locks a thread that asked keeps
running and critical sections end; nobody is obliged to ask. No fairness between the threads
that compete for a word is assumed, which is why only the ticket lock starves nobody.

## 4. Theorems

All leaves are checked by TLAPS (SMT, Zenon, LS4). The only assumptions are the named ones on
the constants; `TeamIsFixed` is a hypothesis of the theorems that need it.

*MultistageBarrierProofs*, for any number of threads:

- `TypeCorrect`, `BookkeepingHolds`, `NobodyIsMissed`: whoever registers when.
  `Bookkeeping` is inductive: `RegistrationInv` (`next_threads_` counts the awake threads),
  `ClosingInv` (the lock is held exactly by the one thread that ends a round) and `CountingInv`
  (only the current stage has a count, below `threads_`). `NoMissedRelease` alone is not
  inductive: it does not say which stage is current nor who holds the lock.
- `TeamStaysTogether` and its corollaries `StagesStaySeparate`, `NothingIsThrown`,
  `TeamIsCounted`, `RoundsAreCounted`: when all threads are registered from the start
  (`TeamIsFixed`). The strengthening is `TeamInv` (where a thread can be, given `stage_`, and
  that counts are the numbers of waiting threads) with `LedgerInv` (what each thread has counted,
  wherever it is). Without the hypothesis they are false: see 5. The step from one stage to
  the next is the point where a spinning thread is one stage behind although it is free to go.
- `TeamIsFrozen`: nobody falls asleep or wakes during a round.

- `Implementation`: the barrier implements `StagedRendezvous`. A round counts as over when
  `stage_` becomes 3, as that is when spinning threads can leave, and `generation_ + lock_` is
  the number of the round.

*ThreadQueueProofs*, for any number of slots and any set of awake ones: `SlotIsServed` and
`SlotIsServedOnce`, every slot is on the walk of exactly one awake thread; `AloneIsAlone`, only a thread
that is awake alone walks the whole circle. A slot belongs to the nearest awake one before
it, which `LeastNat` picks: a set of numbers that is not empty has a least element. From them follows, in
*MultistageBarrierProofs*, `SlotsAreDivided`: `EverySlotServedOnce` of a team that is complete from the start.

*ParallelSampledStackProofs*, for any number of threads, samples and pending triggers, any finite set of
blocks, both kinds of stack, whoever joins, sleeps or switches sampling: `Invariance`,
`OldestIsAlwaysLast`, `SamplesAreAccounted`. The inductive invariant `IInv` says where a distance set can
be (`Samples`: it exists exactly as long as it is in the list of its owner or carried by it through a
round), what a call carries (`Calls`: a reason for a round stays what it was until the round is left, a
new sample comes with the trigger it was announced by) and that threads are numbered as they appear
(`BornInOrder`). `SampleAccounting` needs all of it: a trigger that is turned into a sample is taken from the
count of its thread only when the sample is linked, many steps after it was created, and a round
can finalize other samples of the same list in between. What unlinking several samples does to a list is
proved of the recursive function `Unlink`, by the least length for which it fails.

*ParallelSampledStackTeamProofs*, for a team that is complete from the start (`TeamIsFixed`): `TeamInvariance`,
and from it

- `MarksAreAlwaysAnnounced`, `WriteSetsAlwaysMatch`, `MergesAreComplete`. `TeamInv` says who can be where in each stage
  (`Team`, `Stages`), that all threads of a stage work from the same flags (`Plans`), that a mark is called
  out in stage 0, cannot be missed in stage 1 and has somebody to take it in stage 2 (`Marks`), when
  exactly write sets are pulled (`Pulled`) and that they are there otherwise (`Matched`). Neither
  `MarksAreAnnounced` nor `WriteSetsMatch` is inductive: both speak of states between rounds and follow from
  what is true in the middle of one. `Merges` adds which write sets are empty already while others still
  walk; that they all are in the end is `SlotIsServed`.
- `OnlyTheCountCanFail`: of all exceptions, assertions and accesses to deleted objects in the model, the only one
  a complete team can meet is the "sample count mismatch" of `ValidateActiveSamples` (line 676), which it does
  meet if triggers queue up (see the hazard at that line). `NothingIsThrown`: not even that one if no
  thread has two triggers waiting, `MaxPending <= 1`. `Lengths` is there for the check after a
  round that the list has become shorter.
- `DistancesAreFaithful`. With private stacks the invariant is `SoundSamples`: the set of a sample is among the
  blocks touched, and with the holes it has no more elements than they are; a thread that joins cannot break
  it. With shared stacks it is `ExactSamples`: there are no holes, and the blocks touched are those in the
  set, on their way to it, or held in the write sets of the other threads. This rests on
  `WriteSetsMatch`: what a thread touches while it has no write set for a sample is lost.

*LocksProofs*, for any number of threads and, of the ticket lock, at least as many tickets:

- `LocksAreKept`, the inductive invariant: what the words of `RdaLock` and `FutexLock` say of the owner, that a sleeper
  is remembered by the word 2 or by a thread on its way to the word or to the wake-up (`NoWaiterIsLost`), and that
  the threads in line hold consecutive tickets from the one served, as many as the distance of the two
  bytes (`LineInv`). The proof works on that distance modulo the number of tickets, so wrapping
  around needs no case of its own beyond joining and leaving.
- `LocksImplementMutex`: each of them implements `Mutex`.
- `TicketsAreFair`: the ticket lock implements `FifoMutex`. The queue is computed from the tickets, and its
  values are defined by `CHOOSE`; that each place from 1 to the number of waiting threads is taken by exactly one
  thread follows from `LineInv` by counting (an injection of a finite set into one of the same size).

*PerRefSamplerProofs*, for any number of threads and blocks, both kinds of sampler, any limits and
lengths of blocks: `TypeCorrect`, `SamplesAccounted`, `TrackedWatched`, `SamplingCaused`, `SamplesOneList`.
First come lemmas per operation of the sampler (`DeleteIsAccounted`, `InvalidateIsAccounted`, ...): its record keeps its
type, the number of samples taken from a set is subtracted from every count, and how the count of
tracked samples changes. The inductive invariant `Inv` then speaks of the threads: who
holds the lock (`Mutex`); that where sampling is taken down nothing is tracked and a sample is left to
drop (`Leaving`); the two halves of `TrackedIsWatched` (`Watched`, `Counts`); and that a thread takes only
what it has chosen (`Choosing`). `Dropping` is what makes `SamplingHasACause` inductive: if sampling is on
again although a thread is about to drop the last sample, another thread has a choice
outstanding. A sample can be given up without a step of its owner, which is why `Counts` is an
inequality.
`SamplesOneList` says that the code's many sets are one list. `Lists` states it so that one step of the list can be
followed: no block or mark is there twice, the marks are those of the tracked samples, and each sample has the
blocks and as many holes as there are above its mark. A lemma per operation of the list shows what it
does above every mark (`TouchedEffect`: the block comes to the top, out of its own place or that of the
newest hole, and its old place may become a hole; `SnoopedEffect`, `MarkedEffect`; `UnmarkedEffect`, by induction
along the list) and that this is what `WithReference`, `WithHole` and a new sample say; a lemma per operation of the
sampler says which samples are left and what they hold (`AccessMaps`).

*StackHolderProofs*, for any number of threads and blocks, any kinds of stacks in use, any answers of the
prefetcher, and accesses of any length but for the oracular half of `PeriodsAreOrdered`:

- `MissesAreExplained`. Per operation of a stack a lemma says which blocks its list has afterwards, that
  each is there once, and how its misses, invalidations and missing blocks are related (`AccessBlockEffect`,
  `PrefetchEffect`, `SnoopEffect`, and for accesses that touch several blocks and buffers that are replayed,
  `AccessBlocksEffect`, `ReplayOthersEffect`, `ReplayOwnsEffect`). `FoldExists` serves the folds: what a
  fold over a finite set or sequence computes is a function on its subsets, about which one can argue by the
  least set of which the claim is false.
- `PeriodsAreOrdered`, `SharedIncludesPrivate`. `PeriodsAgree` speaks only of the moments between regions. The
  inductive invariant, `HolderInv`, says what is true within one: a lazy stack has what the simulated one
  has and what another thread has written since the region began (`LazyInv`); an oracular stack still has to
  lose what the buffers of the others write, and to gain what the buffer of its own thread touches
  (`OracularInv`). That the simulated stacks are included in the oracular ones is claimed and
  proved for programs whose accesses are shorter than 256 bytes (`SizesFit`): the rest of a longer
  access never gets into the buffer, and with it the claim is false of the code (see 5). The buffers must hold at least what has been written, which is why they are in it, too.
- `StacksAreCoherent`: the private stacks and those of pairs implement `CoherentCopies`.

*ReuseDistanceProofs*, for any programs, threads, sizes to predict, delays and lists of prefetchers:

- `ToolStacksAreCoherent`, `ToolMissesAreExplained`, `ToolSharedIncludesPrivate`: whatever the tools do is a step of
  `StackHolder` (`StackStep`) or leaves the stacks alone. What an arbiter requests is a block and never more
  than one (`ArbiterAccessEffect`); that needs the types of all three prefetchers' tables.
- `RepeatsAreSpaced`. That what has been issued is spaced is not inductive, nor is it with the queue of requests added:
  a request is refused because a *recent* one is remembered, and the memory expires after
  kPrefetchRepeatFrequency references, while requests wait in the queue for the delay. The invariant (`Spaced`)
  says that every request issued or waiting is either remembered, or so old that one made now comes late
  enough; that requests in the queue follow each other and those issued at that distance; and that set and queue
  of recent requests agree, without repetition. Requests that are dropped or cancelled leave it true.
- `PrefetchedStaysInStack`. A request is issued and its block put into the stack in the same access; what a stack knows, its
  blocks and those invalidated and not missed since (`Known`), never loses a block afterwards, whoever writes.
- `StoppedStacksAreFlushed`. The inductive invariant, `FlushedInv`, follows an update through its steps: flushed are
  the stacks that a thread is done with, all of them when it is about to switch recording off, and all as
  long as recording is off, unless `overlapped`. It rests on the lock: a thread that has passed the test of
  `enabled` tests again under the lock.
- `StatisticsAddUp`, in two parts. *Samples* (`SamplesInv`): the misses of a thread are counted twice, by its stack
  block by block and by its statistics distance by distance. A lemma per operation of the stack says that
  the distances an access or fetch leaves are as many misses of each kind as its counters grow by
  (`AccessCounts`, `FetchCounts` in *StackHolderProofs*); one of the statistics says that a list of samples
  adds as many (`SamplesEffect`). The lemmas on sums (`SumWith`, `SumAppended`) come from the definition of the fold.
  *Periods* (`PeriodsInv`): a stack is settled, or its hits have been pushed and its accesses not (`AtPush`), or
  both have but the accesses are not cleared yet (`AtClear`); in between it has hits of
  a period that has no accesses yet, or accesses counted twice. A stack is there exactly while a thread in `UpdateRatioPredictions` has it at hand. If
  nothing has overlapped there is one such thread, and neither an access nor the stop of the timer finds a
  stack that is not settled. A size may be added at every stage.

*Only model-checked*:

- Everything about liveness and fairness (`NobodySpinsForever`, `SomebodyGetsIn`, `NobodyStarves`,
  `EveryRoundCompletes`, `MarkedIsFinalized`), which is out of TLAPS' reach.
- `TreesAreSound`, `ErrorIsBounded` and that `TreeReuseStack` implements `HoleStack`: what splaying and rotating do to
  a tree is an argument by induction over trees and over the paths that splaying follows, which
  are recursive functions on the heap; it is too large for the provers as it stands.
- `PredictionsFit`: what is told from the histogram depends on its buckets, which are logarithms. The model
  has them for distances up to `MaxDistance` only, at most 7, as their powers must fit TLC's integers, so there is
  nothing to prove for every number of blocks.

The theorems of induction in the library take an operator as a parameter, which the provers cannot
instantiate; where an argument by a least counterexample does (`LeastNat`: walks, lists; `Members`: folds) it is
used.

## 5. Where the code and its documentation disagree

Checked by the runs that end in a violation:

- `StageSeparation` with joining threads (rda-sync.cc:19): `AddThread` waits while `stage_ > 0 && count_[0] > 0`,
  which is never true, so a thread joins in the middle of a round. The comment at
  parallelsampledstack.cc:110 relies on the opposite. `Wake` has `||`.
- `PrunedIsCold` (parallelsampledstack.cc:543): a sample is counted as pruned before the round that finalizes it, and a
  write of another thread in between turns it into an invalidated one; the report then
  prints an error about the counts.
- `LazyLosesWhatWasWritten` (stackholder.cc:286): without oracular stacks the buffered accesses are never cleared, and
  every end of a region invalidates for all earlier regions, not for the "previous interval".
- `HolesKeepDepths` (treereusestack.cc:291): the hole that a reloaded block fills is the oldest one, below the others, so
  blocks between the holes can end deeper than they would be without invalidations. The test that says
  depths are "just as if there were no inval (due to hole)" (reusestack_test.cc:88) looks at them right
  after a single invalidation, where that is so; the property asks it of every later state too, which is
  our reading of what a hole is for. `hole_top` and the heap that is commented out
  (treereusestack.h:74-78) suggest that the newest hole was meant.

Observed while modelling, without a run of its own:

- An access that straddles a block boundary but is not longer than a block reaches only the first
  block (reusestack.cc:81); `Snoop` ignores the size, as its FIXME says. The models do as the code does.
- The size of a buffered access is stored in a `uint8_t` (stackholder.cc:136, reusestack.h:130), so
  `EndParallelRegion` replays an access of 256 bytes or more into the oracular stacks shorter than it was, one of 512
  for its first block only. The oracular half of `PeriodsAgree` therefore sets programs with such accesses aside
  (`SizesFit`); for one access of 512 bytes to blocks of 64, TLC refutes it without that. The tools do not use oracular
  stacks.
- "index 0 not used" (stackholder.cc:18) disagrees with the tools, which number threads from 0; thread 9 and
  above is out of the table's bounds.
- A new thread's first round can lose the flags it set, create its write sets twice or find a
  sample finalized before it has any (parallelsampledstack.cc:119, 174, 472), and the slot of a thread that
  sleeps can fall to one that joins and is not in the round. With a joining thread TLC refutes `NoFailure`,
  `WriteSetsMatch`, `MarksAreAnnounced`, `MergeIsComplete` and the exactness of distances on shared
  stacks; these are therefore stated for a complete team only. The order of the lists, the count of
  active samples and the bound on distances with private stacks survive.
- The end of a period updates the predictions without the lock (PinReuseDistance/reusedistance.cc:271-273,
  reusedistance2stacks.cc:174-183): an access that falls between its steps is counted in a closed
  period or erased. `StatsAddUp`, `PredictionsFit` and `StoppedIsFlushed` therefore set such executions aside
  (`overlapped`); without that they are violated.
- The distance of an invalidation miss wraps when it is multiplied by the block size
  (reusestackstats.cc:149) and, for an even block size, becomes negative and counts as a hit of
  every predicted cache. `IsHit` does the same.
- `GetRatioPredictionSizes` makes a vector of as many zeros as there are sizes and appends the sizes to
  it (reusestackstats.cc:164-171). Sizes added late have shorter lists of periods than the others; `GetTargetSize` gives the lower end of a bucket, and the target sizes in
  the report are rates of all samples, so there may be none.
- The buffers of instruction lines have 8 entries indexed by thread, and are updated for fetches that
  are not recorded; an instruction that ends at the end of a line fetches the next one too.
- The stride prefetcher remembers what it asked for even if the arbiter filtered it, and the arbiter is
  given the first block of an access with the distance of its last one.
- `ReuseStack::fetchCount`, the arbiter's count of hits and the counters of streams are never initialised;
  they are only printed.
- `SampledReuseStack::Allocate` resizes to the number of the thread and indexes with it
  (sampledreusestack.cc:38); the shared variant does not resize (sharedsampledreusestack.cc:28).
- The exact stack fills the oldest hole, the sampled one counts as if the newest were filled.
- Every sample that is taken raises `active_samples`, a refused one too
  (PinReuseDistance/sampledreuse_perref.cc:155), but it is lowered by one only, at a reference after which nothing is
  tracked (line 142). What is left over lets the first reference after the next trigger take
  sampling down before the reference that was chosen is reached. And a choice can be lost: sampling may be off while its block is executed, and the next trigger
  overwrites it ("determines which ref in the BBL is the sample", line 74).
- The worst error of `reusedistance2stacks.cc` starts at 0 and errors are never positive, as the approximate
  distance is never the larger one (`ErrorIsBounded`).

## 6. Not modelled

- Of the modelled components: destructors, dumps and printing; the per-instruction addresses and
  lifetimes of the samplers and their trace; the averages of buckets, which are floating point;
  the sequential build of the parallel sampler, `CleanUp` and `SetGlobalEnable(false)`; the capacity call-back
  and `ReplaceTree` of the tree, which nothing calls; accesses that reach the end of the address
  space (reusestack.cc:79); strides of the prefetchers that do not fit an `int` (strideprefetcher.cc:32); the `do_` switches of `StackHolder` while it runs; failed
  allocations.
- `sampledreuse_reinst.cc`: the sampler is that of `sampledreuse_perref.cc`, but code is instrumented anew
  when sampling starts and ends. When the new code takes effect in which thread is decided by
  Pin's code cache, which the source does not show.
- `librarymap`, the markers for the simulated program, the performance counter programs, the
  scripts and the build files: instrumentation glue, I/O, or no state.
- Nothing is persisted and no messages are sent, so there is no crash or loss to model.
