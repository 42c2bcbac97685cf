----------------------- MODULE MCParallelSampledStack -----------------------
(***************************************************************************)
(* The setups that the runs of ParallelSampledStack start from.            *)
(***************************************************************************)
EXTENDS ParallelSampledStack, TLC

CONSTANTS a1, a2, a3

StackType == {"kPrivateStacks", "kSharedStacks"}

Setting(type, threads, founders, blocks, samples, switchers) ==
  [ stack_type |-> type, threads |-> threads, founders |-> founders,
    blocks |-> blocks, samples |-> samples, switchers |-> switchers ]

\* The second thread joins at any time.
JoinSetups == {Setting("kPrivateStacks", 2, 1, {a1}, 2, {1})}

\* All threads are there from the start: two that take two samples of two blocks;
\* two with a sample and two other blocks, so that holes can be filled by a block
\* that was not invalidated; three, of which any two can sleep next to each other.
RoundSetups ==
  {Setting(type, 2, 2, {a1, a2}, 2, {}) : type \in StackType} \cup
  {Setting(type, 2, 2, {a1, a2, a3}, 1, {}) : type \in StackType} \cup
  {Setting("kPrivateStacks", 3, 3, {a1}, 1, {})} \cup JoinSetups

LivenessSetups == {Setting(type, 2, 2, {a1, a2}, 1, {}) : type \in StackType}

PruneSetups == {Setting("kPrivateStacks", 2, 2, {a1, a2}, 2, {})}

BlockSymmetry == Permutations(Address)
=============================================================================
