------------------------- MODULE SampledReuseStack -------------------------
(***************************************************************************)
(* The sequential samplers, sampledreusestack.{h,cc} and its variant for   *)
(* caches that all threads share, sharedsampledreusestack.{h,cc}, as       *)
(* operators on a record.  For every sampled block they keep the set of    *)
(* the blocks referenced since, and the number of those that another       *)
(* thread has written away since.                                          *)
(*                                                                         *)
(* The shared sampler is the private one with a single map, that of thread *)
(* 0, and without invalidations.  Left out: program counters, lifetimes,   *)
(* the trace and the text of the report.                                   *)
(***************************************************************************)
EXTENDS Integers, FiniteSets, Functions

CONSTANTS
  Thread,         \* Pin's numbers of the threads
  Block,          \* blocks (addresses after GetBlock)
  Limits          \* what kMaxDistance may be: a sample with more blocks is given up

ASSUME SampledAssumption ==
  /\ Thread \subseteq Nat /\ 0 \in Thread /\ IsFiniteSet(Thread)
  /\ IsFiniteSet(Block)
  /\ Limits \subseteq Nat

StackType == {"private", "shared"}

NewSampler(type, limit) ==
  [ type |-> type,
    kMaxDistance |-> limit,
    global_enable_ |-> FALSE,
    thread_enable_ |-> [t \in Thread |-> TRUE],
    sampled_addresses_ |-> [t \in Thread |-> <<>>],
    sampled_address_count_ |-> [t \in Thread |-> 0],
    global_tracked_address_count_ |-> 0,
    recorded |-> [t \in Thread |-> 0] ]     \* samples in stats_

\* Whose map the samples of a thread are in, and which samples there are.
Owner(s, t) == IF s.type = "shared" THEN 0 ELSE t
Tracked(s, o) == DOMAIN s.sampled_addresses_[o]
Samples(s) == {sample \in Thread \X Block : sample[2] \in Tracked(s, sample[1])}

Enabled(s, t) == s.global_enable_ /\ s.thread_enable_[t]

Distance(sample) == Cardinality(sample.set) + sample.hole_count

\* The thread is not known yet, so nothing of it is sampled.
Allocate(s, t) == [s EXCEPT !.thread_enable_[t] = TRUE]

NewSampledAddress(s, t, a) ==
  LET o == Owner(s, t) IN
  IF ~Enabled(s, t) \/ a \in Tracked(s, o) THEN s
  ELSE [s EXCEPT !.sampled_address_count_[o] = @ + 1,
                 !.sampled_addresses_[o] =
                   [b \in Tracked(s, o) \cup {a} |->
                      IF b = a THEN [set |-> {}, hole_count |-> 0] ELSE @[b]],
                 !.global_tracked_address_count_ = @ + 1]

\* Some samples of a map are recorded, as reuses or as cold misses.
DeleteAddresses(s, o, addrs) ==
  [s EXCEPT !.recorded[o] = @ + Cardinality(addrs),
            !.sampled_addresses_[o] = Restrict(@, Tracked(s, o) \ addrs),
            !.global_tracked_address_count_ = @ - Cardinality(addrs)]

\* What a write of another thread does to a sample that is not itself written.
WithHole(sample, a) ==
  IF a \in sample.set
    THEN [set |-> sample.set \ {a}, hole_count |-> sample.hole_count + 1]
    ELSE sample

\* Mutant: samples that are written away are still counted as tracked.
InvalidateUncounted(s, others, a) ==
  LET hit == {i \in others : a \in Tracked(s, i)} IN
  [s EXCEPT
     !.recorded = [i \in Thread |-> IF i \in hit THEN @[i] + 1 ELSE @[i]],
     !.sampled_addresses_ =
       [i \in Thread |-> IF i \in others
                           THEN [b \in Tracked(s, i) \ {a} |-> WithHole(@[i][b], a)]
                           ELSE @[i]]]

\* Invalidate, for all threads but the writer.
Invalidate(s, others, a) ==
  LET hit == {i \in others : a \in Tracked(s, i)} IN
  [s EXCEPT
     !.recorded = [i \in Thread |-> IF i \in hit THEN @[i] + 1 ELSE @[i]],
     !.sampled_addresses_ =
       [i \in Thread |-> IF i \in others
                           THEN [b \in Tracked(s, i) \ {a} |-> WithHole(@[i][b], a)]
                           ELSE @[i]],
     !.global_tracked_address_count_ = @ - Cardinality(hit)]

\* Mutant: every reference fills a hole.
WithAnyReference(sample, a) ==
  [ set |-> sample.set \cup {a},
    hole_count |-> IF sample.hole_count > 0 THEN sample.hole_count - 1 ELSE 0 ]

\* A reference of the owner fills a hole if it is new to the sample.
WithReference(sample, a) ==
  [ set |-> sample.set \cup {a},
    hole_count |-> IF a \notin sample.set /\ sample.hole_count > 0
                     THEN sample.hole_count - 1 ELSE sample.hole_count ]

Extend(s, o, a) ==
  [s EXCEPT !.sampled_addresses_[o] = [b \in Tracked(s, o) |-> WithReference(@[b], a)]]

FullSets(s, o) == {b \in Tracked(s, o) : Distance(s.sampled_addresses_[o][b]) > s.kMaxDistance}

\* An enabled thread's reference: a reuse of its own sample, a write that takes the
\* block from the other threads, and a block more for the thread's other samples.
SampleAccess(s, t, a, is_write) ==
  LET o == Owner(s, t)
      others == IF is_write /\ s.type = "private" THEN Thread \ {t} ELSE {}
      reused == DeleteAddresses(s, o, Tracked(s, o) \cap {a})
      extended == Extend(Invalidate(reused, others, a), o, a)
  IN DeleteAddresses(extended, o, FullSets(extended, o))

\* What SampleAccess returns.
NoneTracked(s) == s.global_tracked_address_count_ = 0

RecordLeftovers(s) ==
  [s EXCEPT
     !.recorded = [o \in Thread |-> @[o] + Cardinality(Tracked(s, o))],
     !.sampled_addresses_ = [o \in Thread |-> <<>>],
     !.global_tracked_address_count_ = @ - Cardinality(Samples(s))]
=============================================================================
