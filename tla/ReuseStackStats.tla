-------------------------- MODULE ReuseStackStats --------------------------
(***************************************************************************)
(* reusestackstats.{h,cc}: what is counted of the distances of a stack, as *)
(* operators on a record, and what is told from the counts: the size a     *)
(* cache must have for a rate of hits, and the hits of caches of given     *)
(* sizes in every period.                                                  *)
(*                                                                         *)
(* Left out: the tests for 2^63 samples, and printing.                     *)
(***************************************************************************)
EXTENDS ReuseStack

CONSTANT MaxDistance     \* the largest distance that is told from a bucket

ASSUME MaxDistanceAssumption == MaxDistance \in 1 .. 7     \* 7^10 < 2^31

\* Buckets per power of two, in ReuseStackStats and in PCStats.
kHistogramDensity == 10
kPCHistogramDensity == 2

\* Bucket i > 0 is for the distances from 2^((i - 1) / density) on.
Buckets ==
  [density \in {kHistogramDensity, kPCHistogramDensity} |->
     [dist \in 1 .. MaxDistance |-> 1 + Max({k \in 0 .. 30 : 2 ^ k <= dist ^ density})]]

BucketOf(dist, density) == IF dist = 0 THEN 0 ELSE Buckets[density][dist]

\* Truncated to a whole number of blocks.
SizeOf(bucket) ==
  IF bucket = 0 THEN 1
  ELSE Max({n \in 1 .. MaxDistance : n ^ kHistogramDensity <= 2 ^ (bucket - 1)})

NewDistanceStats ==
  [ sample_count_ |-> 0, cold_miss_count_ |-> 0, inval_miss_count_ |-> 0,
    total_distance_ |-> 0, distance_histogram_ |-> EmptyBag ]

NewStats ==
  [ sample_count_ |-> 0, cold_miss_count_ |-> 0, inval_miss_count_ |-> 0,
    total_distance_ |-> 0, distance_histogram_ |-> EmptyBag,
    current_prediction_accesses_ |-> 0,
    current_prediction_hits_ |-> <<>>,      \* per size in bytes
    ratio_predictions_ |-> <<>>,            \* per size: the hits of each period
    prediction_accesses_ |-> <<>> ]         \* of each period

\* Mutant: an invalidation miss is counted as a cold one.
WithSampleCold(stats, dist, density) ==
  LET sampled == [stats EXCEPT !.sample_count_ = @ + 1] IN
  IF dist < 0 THEN [sampled EXCEPT !.cold_miss_count_ = @ + 1]
  ELSE [sampled EXCEPT !.total_distance_ = @ + dist,
                       !.distance_histogram_ = @ (+) SetToBag({BucketOf(dist, density)})]

\* What the statistics of a stack and of an instruction have in common.
WithSample(stats, dist, density) ==
  LET sampled == [stats EXCEPT !.sample_count_ = @ + 1] IN
  IF dist = kColdMiss THEN [sampled EXCEPT !.cold_miss_count_ = @ + 1]
  ELSE IF dist = kInvalidationMiss THEN [sampled EXCEPT !.inval_miss_count_ = @ + 1]
  ELSE [sampled EXCEPT !.total_distance_ = @ + dist,
                       !.distance_histogram_ = @ (+) SetToBag({BucketOf(dist, density)})]

\* Only cold misses are left out by name.  kInvalidationMiss is 2^63 - 2: if blockBytes is
\* even, their product wraps to -2 * blockBytes, less than any size, and that is the
\* product with the -2 that stands for it here; if it is odd, to 2^63 - 2 * blockBytes,
\* more than any size.
IsHit(dist, size) ==
  /\ dist # kColdMiss
  /\ dist = kInvalidationMiss => blockBytes % 2 = 0
  /\ dist * blockBytes < size

AddSample(stats, dist) ==
  [ WithSample(stats, dist, kHistogramDensity) EXCEPT
      !.current_prediction_accesses_ = @ + 1,
      !.current_prediction_hits_ =
        [size \in DOMAIN @ |-> @[size] + IF IsHit(dist, size) THEN 1 ELSE 0] ]

SetRatioPredictionSizes(stats, sizes) ==
  [stats EXCEPT !.current_prediction_hits_ = [size \in sizes |-> 0]]

AddRatioPredictionSize(stats, size) ==
  IF size \in DOMAIN stats.current_prediction_hits_ THEN stats
  ELSE LET with(f, new) == [s \in DOMAIN f \cup {size} |-> IF s = size THEN new ELSE f[s]]
       IN [stats EXCEPT !.current_prediction_hits_ = with(@, 0),
                        !.ratio_predictions_ = with(@, <<>>)]

HitsOf(stats, size) ==
  IF size \in DOMAIN stats.ratio_predictions_ THEN stats.ratio_predictions_[size] ELSE <<>>

\* The lists of hits, with those since the last period.
WithHits(stats) ==
  LET hits == stats.current_prediction_hits_ IN
  [stats EXCEPT !.ratio_predictions_ =
     [size \in DOMAIN hits |-> Append(HitsOf(stats, size), hits[size])]]

\* Mutant: the hits are not set to 0.
PushHitsKept(stats) == WithHits(stats)

\* UpdateRatioPredictions in the order of its statements: the hits of each size are
\* added to its list and set to 0, then the accesses are, which takes two.
PushHits(stats) ==
  [WithHits(stats) EXCEPT !.current_prediction_hits_ = [size \in DOMAIN @ |-> 0]]

PushAccesses(stats) ==
  [stats EXCEPT !.prediction_accesses_ = Append(@, stats.current_prediction_accesses_)]

ClearAccesses(stats) == [stats EXCEPT !.current_prediction_accesses_ = 0]

UpdateRatioPredictions(stats) == ClearAccesses(PushAccesses(PushHits(stats)))

\* The samples with distances in the buckets up to this one.
UpTo(stats, bucket) ==
  SumFunctionOnSet(stats.distance_histogram_,
                   {b \in BagToSet(stats.distance_histogram_) : b <= bucket})

\* The first bucket at which this many hits are reached; {} if none is.
BucketAt(stats, hits) ==
  LET buckets == {b \in {0} \cup BagToSet(stats.distance_histogram_) : UpTo(stats, b) >= hits}
  IN IF buckets = {} THEN {} ELSE {Min(buckets)}

\* A rate of hits is a fraction.  The rate is one of the samples that are not misses;
\* {} stands for the exception that no size was found.
GetTargetSize(stats, rate) ==
  LET found == stats.sample_count_ - stats.cold_miss_count_ - stats.inval_miss_count_
  IN {SizeOf(b) : b \in BucketAt(stats, (found * rate[1]) \div rate[2])}

\* Here it is one of all samples, and a size that is not found is 0.
TargetSize(stats, rate) ==
  LET b == BucketAt(stats, (stats.sample_count_ * rate[1]) \div rate[2])
  IN IF b = {} THEN 0 ELSE SizeOf(Min(b))
=============================================================================
