----------------------------- MODULE ReuseStack -----------------------------
(***************************************************************************)
(* The operations of reusestack.{h,cc} on a reuse stack: an access is      *)
(* split into blocks, and a miss told to be cold or due to an invalidation *)
(* by another thread.  A stack is a record; the list of blocks in it is    *)
(* what TreeReuseStack is shown to implement.                              *)
(*                                                                         *)
(* Left out: what is only counted and printed; the histograms and the      *)
(* predictions are in ReuseStackStats.                                     *)
(***************************************************************************)
EXTENDS HoleList, Bags

CONSTANTS
  Block,
  blockBytes      \* bytes per block

ASSUME BlockAssumption == blockBytes \in Nat \ {0} /\ Block \subseteq Nat

kColdMiss == NotFound
kInvalidationMiss == -2

NewStack ==
  [ list |-> <<>>,
    invalidatedAddrs |-> EmptyBag,
    coldCount |-> 0, coherenceMisses |-> 0,
    prefetchColdCount |-> 0, prefetchCoherenceMisses |-> 0,
    invalCount |-> 0,
    dists |-> <<>> ]        \* of the blocks of the last Access, which returns the last one,
                            \* or of the fetches of an instruction

\* The blocks of an access, one for each blockBytes of its size that are begun,
\* from its address on.  Addresses are numbers without a largest one: the test that ends
\* the loop at the last block of the address space (addr > maxAddr) is left out.
BlocksOfAccess(address, size) ==
  [k \in 1 .. Max({1, (size + blockBytes - 1) \div blockBytes}) |->
     (address + (k - 1) * blockBytes) \div blockBytes]

Forgotten(map, block) == Restrict(map, DOMAIN map \ {block})

\* The depth of a block, or the kind of its miss.
DistanceOf(s, block) ==
  IF block \in BlocksOf(s.list) THEN DepthIn(s.list, block)
  ELSE IF block \in DOMAIN s.invalidatedAddrs THEN kInvalidationMiss ELSE kColdMiss

\* Mutant: the block is forgotten by the invalidated ones only if it was found.
AccessBlockStale(s, block) ==
  LET depth == DepthIn(s.list, block)
      accessed == [s EXCEPT !.list = Accessed(@, block), !.dists = Append(@, DistanceOf(s, block))]
  IN
  IF depth # NotFound THEN [accessed EXCEPT !.invalidatedAddrs = Forgotten(@, block)]
  ELSE IF block \in DOMAIN s.invalidatedAddrs
    THEN [accessed EXCEPT !.coherenceMisses = @ + 1]
    ELSE [accessed EXCEPT !.coldCount = @ + 1]

\* One turn of the loop in Access.
AccessBlock(s, block) ==
  LET depth == DepthIn(s.list, block)
      accessed == [s EXCEPT !.list = Accessed(@, block), !.dists = Append(@, DistanceOf(s, block))]
  IN
  IF depth # NotFound THEN accessed
  ELSE IF block \in DOMAIN s.invalidatedAddrs
    THEN [accessed EXCEPT !.coherenceMisses = @ + 1, !.invalidatedAddrs = Forgotten(@, block)]
    ELSE [accessed EXCEPT !.coldCount = @ + 1]

AccessBlocks(s, blocks) == FoldLeft(AccessBlock, [s EXCEPT !.dists = <<>>], blocks)

AccessStack(s, address, size) == AccessBlocks(s, BlocksOfAccess(address, size))

Prefetch(s, address) ==
  LET block == address \div blockBytes
      depth == DepthIn(s.list, block)
      accessed == [s EXCEPT !.list = Accessed(@, block)]
  IN
  IF depth # NotFound THEN accessed
  ELSE IF block \in DOMAIN s.invalidatedAddrs
    THEN [accessed EXCEPT !.prefetchCoherenceMisses = @ + 1, !.invalidatedAddrs = Forgotten(@, block)]
    ELSE [accessed EXCEPT !.prefetchColdCount = @ + 1]

\* The size is ignored: only the first block is invalidated.
Snoop(s, address) ==
  LET block == address \div blockBytes IN
  IF block \in BlocksOf(s.list)
    THEN [s EXCEPT !.list = Invalidated(@, block), !.invalCount = @ + 1,
                   !.invalidatedAddrs = @ (+) SetToBag({block})]
    ELSE s
=============================================================================
