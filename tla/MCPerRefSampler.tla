-------------------------- MODULE MCPerRefSampler --------------------------
(***************************************************************************)
(* PerRefSampler up to the number of samples recorded so far.              *)
(***************************************************************************)
EXTENDS PerRefSampler, TLC

CONSTANTS b1, b2, b3

BlockSymmetry == Permutations(Block)

SamplerView ==
  [ sampler EXCEPT !.sampled_address_count_ =
                       [o \in Thread |-> @[o] - sampler.recorded[o]],
                   !.recorded = <<>> ]

View == <<SamplerView, globalVars, threadVars, recency>>
=============================================================================
