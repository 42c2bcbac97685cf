--------------------------- MODULE MCStackHolder ---------------------------
(***************************************************************************)
(* Configurations of StackHolder for TLC.                                  *)
(***************************************************************************)
EXTENDS StackHolder

\* The blocks are of two bytes.
Aligned == {[address |-> 0, size |-> 2], [address |-> 2, size |-> 2]}
\* The first block, both blocks, and the end of the second one.
AcrossBlocks ==
  {[address |-> 0, size |-> 2], [address |-> 0, size |-> 4], [address |-> 3, size |-> 1]}
ThreeBlocks == Aligned \cup {[address |-> 4, size |-> 2]}

Setup(kinds, threads, accesses, prefetch) ==
  [ kinds |-> kinds, threads |-> threads, accesses |-> accesses, do_prefetch |-> prefetch,
    requests |-> IF prefetch THEN {0, 1} ELSE {}, do_fetch |-> prefetch, switches |-> prefetch ]

AllSetups ==
  { Setup({"sim", "lazy"}, {1, 2}, Aligned, FALSE),
    Setup({"sim", "oracular"}, {1, 2}, Aligned, FALSE),
    Setup({"single", "sim", "shared"}, {1, 2, 3}, AcrossBlocks, FALSE),
    Setup({"sim"}, {1, 2}, AcrossBlocks, TRUE) }

LazySetups == { Setup({"lazy"}, {1, 2}, Aligned, FALSE) }
DepthSetups == { Setup({"single", "sim"}, {1, 2}, ThreeBlocks, FALSE) }

\* The counters of a stack matter only by what MissesAreAccounted says of them.
Counted(s) ==
  << s.list, s.invalidatedAddrs,
     s.invalCount - s.coherenceMisses - s.prefetchCoherenceMisses,
     s.coldCount + s.prefetchColdCount >>
AllCounted(stacks) == [k \in DOMAIN stacks |-> Counted(stacks[k])]

CountedView ==
  << setup, global_enable_, threads_seen_, threads_enabled_, buffered_accesses_, written,
     AllCounted(single_stacks_), AllCounted(sim_stacks_), AllCounted(lazy_stacks_),
     AllCounted(oracular_stacks_), AllCounted(pair_share_stacks_),
     IF simulated_shared_stack_ = <<>> THEN <<>> ELSE Counted(simulated_shared_stack_) >>
=============================================================================
