------------------------ MODULE PerRefSamplerProofs ------------------------
(***************************************************************************)
(* Theorems about PerRefSampler, for all finite sets of threads and of     *)
(* blocks: what the sampler counts is what it tracks, while it tracks      *)
(* anything references are looked at, and the samples of a map agree.      *)
(***************************************************************************)
EXTENDS PerRefSampler, TLAPS, FiniteSetTheorems

-----------------------------------------------------------------------------
(* The operations of the sampler                                           *)

\* SamplesAreAccounted of one thread, and of all.
OwnAccount(s, o) ==
  s.sampled_address_count_[o] = s.recorded[o] + Cardinality(Tracked(s, o))
Accounted(s) ==
  /\ \A o \in Thread : OwnAccount(s, o)
  /\ s.global_tracked_address_count_ = Cardinality(Samples(s))

LEMMA MapDomain == ASSUME NEW m \in SampleMap
                   PROVE  /\ DOMAIN m \subseteq Block
                          /\ m = [b \in DOMAIN m |-> m[b]]
                          /\ \A b \in DOMAIN m : m[b] \in Sample
BY DEF SampleMap

LEMMA MapType == ASSUME NEW S \in SUBSET Block, NEW m \in [S -> Sample]
                 PROVE  m \in SampleMap
BY DEF SampleMap

\* Everything counted is finite.
LEMMA AllFinite ==
  ASSUME NEW s \in Sampler
  PROVE  /\ \A o \in Thread : /\ Tracked(s, o) \subseteq Block
                              /\ IsFiniteSet(Tracked(s, o))
                              /\ Cardinality(Tracked(s, o)) \in Nat
         /\ IsFiniteSet(Samples(s))
         /\ Cardinality(Samples(s)) \in Nat
<1>1. ASSUME NEW o \in Thread PROVE Tracked(s, o) \subseteq Block
  BY MapDomain DEF Sampler, Tracked
<1>2. ASSUME NEW o \in Thread
      PROVE  IsFiniteSet(Tracked(s, o)) /\ Cardinality(Tracked(s, o)) \in Nat
  BY <1>1, SampledAssumption, FS_Subset, FS_CardinalityType
<1>3. IsFiniteSet(Thread \X Block)
  BY SampledAssumption, FS_Product
<1>4. Samples(s) \subseteq Thread \X Block
  BY DEF Samples
<1>5. IsFiniteSet(Samples(s)) /\ Cardinality(Samples(s)) \in Nat
  BY <1>3, <1>4, FS_Subset, FS_CardinalityType
<1> QED
  BY <1>1, <1>2, <1>5

\* Samples of one thread leave: as many leave the whole.
LEMMA SamplesLeave ==
  ASSUME NEW s \in Sampler, NEW o \in Thread, NEW addrs, addrs \subseteq Tracked(s, o)
  PROVE  /\ IsFiniteSet(addrs) /\ Cardinality(addrs) \in Nat
         /\ Cardinality(Tracked(s, o) \ addrs) = Cardinality(Tracked(s, o)) - Cardinality(addrs)
         /\ Cardinality(Samples(s) \ ({o} \X addrs)) = Cardinality(Samples(s)) - Cardinality(addrs)
         /\ Cardinality(addrs) <= Cardinality(Samples(s))
<1> DEFINE leaving == {o} \X addrs
<1>1. IsFiniteSet(addrs) /\ Cardinality(addrs) \in Nat
  BY AllFinite, FS_Subset, FS_CardinalityType
<1>2. Tracked(s, o) \cap addrs = addrs
  OBVIOUS
<1>3. Cardinality(Tracked(s, o) \ addrs) = Cardinality(Tracked(s, o)) - Cardinality(addrs)
  <2>1. IsFiniteSet(Tracked(s, o))
    BY AllFinite
  <2> QED
    BY <1>1, <1>2, <2>1, FS_Difference
<1>4. IsFiniteSet(leaving) /\ Cardinality(leaving) = Cardinality(addrs)
  <2>1. IsFiniteSet({o}) /\ Cardinality({o}) = 1
    BY FS_Singleton
  <2>2. Cardinality({o} \X addrs) = 1 * Cardinality(addrs)
    BY <1>1, <2>1, FS_Product
  <2> QED
    BY <1>1, <2>1, <2>2, FS_Product
<1>5. leaving \subseteq Samples(s)
  BY AllFinite DEF Samples
<1>6. IsFiniteSet(Samples(s))
  BY AllFinite
<1> HIDE DEF leaving
<1>7. Samples(s) \cap leaving = leaving
  BY <1>5
<1>8. Cardinality(Samples(s) \ leaving) = Cardinality(Samples(s)) - Cardinality(leaving)
  BY <1>6, <1>7, FS_Difference
<1>9. Cardinality(leaving) <= Cardinality(Samples(s))
  BY <1>5, <1>6, FS_Subset
<1> QED
  BY <1>1, <1>3, <1>4, <1>8, <1>9 DEF leaving

LEMMA DeleteIsAccounted ==
  ASSUME NEW s \in Sampler, Accounted(s), NEW o \in Thread, NEW addrs, addrs \subseteq Tracked(s, o)
  PROVE  /\ DeleteAddresses(s, o, addrs) \in Sampler
         /\ Accounted(DeleteAddresses(s, o, addrs))
         /\ DeleteAddresses(s, o, addrs).global_tracked_address_count_
              <= s.global_tracked_address_count_
         /\ DeleteAddresses(s, o, addrs).type = s.type
<1> DEFINE r == DeleteAddresses(s, o, addrs)
           n == Cardinality(addrs)
           left == Restrict(s.sampled_addresses_[o], Tracked(s, o) \ addrs)
<1>1. left \in SampleMap /\ DOMAIN left = Tracked(s, o) \ addrs
  <2>1. s.sampled_addresses_[o] \in SampleMap
    BY DEF Sampler
  <2>2. left \in [Tracked(s, o) \ addrs -> Sample]
    BY <2>1, MapDomain DEF Restrict, Tracked
  <2> QED
    BY <2>2, AllFinite, MapType
<1>2. /\ n \in Nat /\ n <= Cardinality(Samples(s))
      /\ Cardinality(Tracked(s, o) \ addrs) = Cardinality(Tracked(s, o)) - n
      /\ Cardinality(Samples(s) \ ({o} \X addrs)) = Cardinality(Samples(s)) - n
  BY SamplesLeave
<1>3. Cardinality(Samples(s)) \in Nat
  BY AllFinite
<1> HIDE DEF left, n
<1>4. /\ r.sampled_addresses_ = [s.sampled_addresses_ EXCEPT ![o] = left]
      /\ r.recorded = [s.recorded EXCEPT ![o] = @ + n]
      /\ r.global_tracked_address_count_ = s.global_tracked_address_count_ - n
      /\ r.sampled_address_count_ = s.sampled_address_count_
      /\ r.type = s.type /\ r.kMaxDistance = s.kMaxDistance
      /\ r.global_enable_ = s.global_enable_ /\ r.thread_enable_ = s.thread_enable_
  BY DEF DeleteAddresses, Sampler, left, n
<1>5. r = [s EXCEPT !.recorded = r.recorded, !.sampled_addresses_ = r.sampled_addresses_,
                    !.global_tracked_address_count_ = r.global_tracked_address_count_]
  BY DEF DeleteAddresses, Sampler
<1> HIDE DEF r
<1>6. /\ Tracked(r, o) = Tracked(s, o) \ addrs
      /\ \A i \in Thread \ {o} : Tracked(r, i) = Tracked(s, i)
  BY <1>1, <1>4 DEF Tracked, Sampler
<1>7. Samples(r) = Samples(s) \ ({o} \X addrs)
  BY <1>6 DEF Samples
<1>8. r.sampled_addresses_ \in [Thread -> SampleMap]
  BY <1>1, <1>4 DEF Sampler
<1>9. r.recorded \in [Thread -> Nat]
  BY <1>2, <1>4 DEF Sampler
<1>10. r.global_tracked_address_count_ \in Nat
  BY <1>2, <1>3, <1>4 DEF Accounted
<1>11. r \in Sampler
  BY <1>5, <1>8, <1>9, <1>10 DEF Sampler
<1>12. ASSUME NEW i \in Thread PROVE OwnAccount(r, i)
  <2>1. OwnAccount(s, i)
    BY DEF Accounted
  <2>2. CASE i = o
    <3>1. s.recorded[o] \in Nat /\ Cardinality(Tracked(s, o)) \in Nat
      BY AllFinite DEF Sampler
    <3>2. r.recorded[o] = s.recorded[o] + n
      BY <1>4 DEF Sampler
    <3>3. Cardinality(Tracked(r, o)) = Cardinality(Tracked(s, o)) - n
      BY <1>2, <1>6
    <3>4. r.sampled_address_count_[o] = s.recorded[o] + Cardinality(Tracked(s, o))
      BY <1>4, <2>1, <2>2 DEF OwnAccount
    <3>5. r.sampled_address_count_[o] = r.recorded[o] + Cardinality(Tracked(r, o))
      BY <1>2, <3>1, <3>2, <3>3, <3>4
    <3> QED
      BY <2>2, <3>5 DEF OwnAccount
  <2>3. CASE i # o
    BY <1>4, <1>6, <2>1, <2>3 DEF OwnAccount, Sampler
  <2> QED
    BY <2>2, <2>3
<1>13. Accounted(r)
  BY <1>2, <1>4, <1>7, <1>12 DEF Accounted
<1>14. r.global_tracked_address_count_ <= s.global_tracked_address_count_
  BY <1>2, <1>3, <1>4 DEF Accounted
<1> QED
  BY <1>4, <1>11, <1>13, <1>14 DEF r

\* The samples of one block leave, one of each thread that is hit.
LEMMA BlockLeaves ==
  ASSUME NEW s \in Sampler, NEW a \in Block, NEW hit \in SUBSET Thread,
         \A i \in hit : a \in Tracked(s, i)
  PROVE  /\ Cardinality(hit) \in Nat
         /\ Cardinality(Samples(s) \ (hit \X {a})) = Cardinality(Samples(s)) - Cardinality(hit)
         /\ Cardinality(hit) <= Cardinality(Samples(s))
<1> DEFINE leaving == hit \X {a}
<1>1. IsFiniteSet(hit) /\ Cardinality(hit) \in Nat
  BY SampledAssumption, FS_Subset, FS_CardinalityType
<1>2. IsFiniteSet(leaving) /\ Cardinality(leaving) = Cardinality(hit)
  <2>1. IsFiniteSet({a}) /\ Cardinality({a}) = 1
    BY FS_Singleton
  <2>2. Cardinality(hit \X {a}) = Cardinality(hit) * 1
    BY <1>1, <2>1, FS_Product
  <2> QED
    BY <1>1, <2>1, <2>2, FS_Product
<1>3. leaving \subseteq Samples(s)
  BY DEF Samples
<1>4. IsFiniteSet(Samples(s))
  BY AllFinite
<1> HIDE DEF leaving
<1>5. Samples(s) \cap leaving = leaving
  BY <1>3
<1>6. Cardinality(Samples(s) \ leaving) = Cardinality(Samples(s)) - Cardinality(leaving)
  BY <1>4, <1>5, FS_Difference
<1>7. Cardinality(leaving) <= Cardinality(Samples(s))
  BY <1>3, <1>4, FS_Subset
<1> QED
  BY <1>1, <1>2, <1>6, <1>7 DEF leaving

LEMMA HoleType ==
  ASSUME NEW sample \in Sample, NEW a \in Block
  PROVE  WithHole(sample, a) \in Sample /\ WithReference(sample, a) \in Sample
<1>1. WithHole(sample, a) \in Sample
  BY DEF WithHole, Sample
<1>2. CASE a \notin sample.set /\ sample.hole_count > 0
  BY <1>1, <1>2 DEF WithReference, Sample
<1>3. CASE ~(a \notin sample.set /\ sample.hole_count > 0)
  BY <1>1, <1>3 DEF WithReference, Sample
<1> QED
  BY <1>1, <1>2, <1>3

LEMMA InvalidateIsAccounted ==
  ASSUME NEW s \in Sampler, Accounted(s), NEW others \in SUBSET Thread, NEW a \in Block
  PROVE  /\ Invalidate(s, others, a) \in Sampler
         /\ Accounted(Invalidate(s, others, a))
         /\ Invalidate(s, others, a).global_tracked_address_count_
              <= s.global_tracked_address_count_
         /\ Invalidate(s, others, a).type = s.type
<1> DEFINE r == Invalidate(s, others, a)
           hit == {i \in others : a \in Tracked(s, i)}
           left(i) == [b \in Tracked(s, i) \ {a} |-> WithHole(s.sampled_addresses_[i][b], a)]
<1>1. /\ Cardinality(hit) \in Nat /\ Cardinality(hit) <= Cardinality(Samples(s))
      /\ Cardinality(Samples(s) \ (hit \X {a})) = Cardinality(Samples(s)) - Cardinality(hit)
  BY BlockLeaves
<1>2. ASSUME NEW i \in Thread
      PROVE  left(i) \in SampleMap /\ DOMAIN left(i) = Tracked(s, i) \ {a}
  <2>1. s.sampled_addresses_[i] \in SampleMap
    BY DEF Sampler
  <2>2. left(i) \in [Tracked(s, i) \ {a} -> Sample]
    BY <2>1, MapDomain, HoleType DEF Tracked
  <2> QED
    BY <2>2, AllFinite, MapType
<1>3. Cardinality(Samples(s)) \in Nat
  BY AllFinite
<1>4. /\ r.sampled_addresses_ =
           [i \in Thread |-> IF i \in others THEN left(i) ELSE s.sampled_addresses_[i]]
      /\ r.recorded = [i \in Thread |-> IF i \in hit THEN s.recorded[i] + 1 ELSE s.recorded[i]]
      /\ r.global_tracked_address_count_ = s.global_tracked_address_count_ - Cardinality(hit)
      /\ r.sampled_address_count_ = s.sampled_address_count_
      /\ r.type = s.type
  BY DEF Invalidate, Sampler
<1>5. r = [s EXCEPT !.recorded = r.recorded, !.sampled_addresses_ = r.sampled_addresses_,
                    !.global_tracked_address_count_ = r.global_tracked_address_count_]
  BY DEF Invalidate, Sampler
<1> HIDE DEF r, left
<1>6. ASSUME NEW i \in Thread
      PROVE  Tracked(r, i) = IF i \in hit THEN Tracked(s, i) \ {a} ELSE Tracked(s, i)
  BY <1>2, <1>4 DEF Tracked
<1>7. Samples(r) = Samples(s) \ (hit \X {a})
  BY <1>6 DEF Samples
<1>8. r.sampled_addresses_ \in [Thread -> SampleMap]
  <2>1. ASSUME NEW i \in Thread
        PROVE  (IF i \in others THEN left(i) ELSE s.sampled_addresses_[i]) \in SampleMap
    BY <1>2 DEF Sampler
  <2> QED
    BY <1>4, <2>1
<1>9. r.recorded \in [Thread -> Nat]
  BY <1>4 DEF Sampler
<1>10. r.global_tracked_address_count_ \in Nat
  BY <1>1, <1>3, <1>4 DEF Accounted
<1>11. r \in Sampler
  BY <1>5, <1>8, <1>9, <1>10 DEF Sampler
<1>12. ASSUME NEW i \in Thread PROVE OwnAccount(r, i)
  <2>1. /\ s.sampled_address_count_[i] = s.recorded[i] + Cardinality(Tracked(s, i))
        /\ s.recorded[i] \in Nat
        /\ IsFiniteSet(Tracked(s, i)) /\ Cardinality(Tracked(s, i)) \in Nat
    BY AllFinite DEF Accounted, OwnAccount, Sampler
  <2>2. CASE i \in hit
    <3>1. Cardinality(Tracked(s, i) \ {a}) = Cardinality(Tracked(s, i)) - 1
      BY <2>1, <2>2, FS_RemoveElement
    <3>2. Cardinality(Tracked(r, i)) = Cardinality(Tracked(s, i)) - 1
      BY <1>6, <2>2, <3>1
    <3>3. r.recorded[i] = s.recorded[i] + 1
      BY <1>4, <2>2
    <3> QED
      BY <1>4, <2>1, <3>2, <3>3 DEF OwnAccount
  <2>3. CASE i \notin hit
    BY <1>4, <1>6, <2>1, <2>3 DEF OwnAccount
  <2> QED
    BY <2>2, <2>3
<1>13. Accounted(r)
  BY <1>1, <1>4, <1>7, <1>12 DEF Accounted
<1>14. r.global_tracked_address_count_ <= s.global_tracked_address_count_
  BY <1>1, <1>3, <1>4 DEF Accounted
<1> QED
  BY <1>4, <1>11, <1>13, <1>14 DEF r

\* Only the map of one thread changes, and only what its samples hold.
LEMMA ExtendIsAccounted ==
  ASSUME NEW s \in Sampler, Accounted(s), NEW o \in Thread, NEW a \in Block
  PROVE  /\ Extend(s, o, a) \in Sampler
         /\ Accounted(Extend(s, o, a))
         /\ Extend(s, o, a).global_tracked_address_count_ = s.global_tracked_address_count_
         /\ Extend(s, o, a).type = s.type
<1> DEFINE r == Extend(s, o, a)
           map == [b \in Tracked(s, o) |-> WithReference(s.sampled_addresses_[o][b], a)]
<1>1. map \in SampleMap /\ DOMAIN map = Tracked(s, o)
  <2>1. s.sampled_addresses_[o] \in SampleMap
    BY DEF Sampler
  <2>2. map \in [Tracked(s, o) -> Sample]
    BY <2>1, MapDomain, HoleType DEF Tracked
  <2> QED
    BY <2>2, AllFinite, MapType
<1>2. /\ r.sampled_addresses_ = [s.sampled_addresses_ EXCEPT ![o] = map]
      /\ r = [s EXCEPT !.sampled_addresses_ = r.sampled_addresses_]
  BY DEF Extend, Sampler
<1> HIDE DEF r, map
<1>3. /\ r.recorded = s.recorded /\ r.sampled_address_count_ = s.sampled_address_count_
      /\ r.global_tracked_address_count_ = s.global_tracked_address_count_
      /\ r.type = s.type
  BY <1>2 DEF Sampler
<1>4. \A i \in Thread : Tracked(r, i) = Tracked(s, i)
  BY <1>1, <1>2 DEF Tracked, Sampler
<1>5. Samples(r) = Samples(s)
  BY <1>4 DEF Samples
<1>6. r \in Sampler
  BY <1>1, <1>2 DEF Sampler
<1>7. Accounted(r)
  BY <1>3, <1>4, <1>5 DEF Accounted, OwnAccount
<1> QED
  BY <1>3, <1>6, <1>7 DEF r

LEMMA OwnerIsThread == ASSUME NEW s \in Sampler, NEW t \in Thread PROVE Owner(s, t) \in Thread
BY SampledAssumption DEF Owner

\* A reference keeps the accounts and never makes a sample.
LEMMA AccessIsAccounted ==
  ASSUME NEW s \in Sampler, Accounted(s), NEW t \in Thread, NEW a \in Block, NEW is_write
  PROVE  /\ SampleAccess(s, t, a, is_write) \in Sampler
         /\ Accounted(SampleAccess(s, t, a, is_write))
         /\ SampleAccess(s, t, a, is_write).global_tracked_address_count_
              <= s.global_tracked_address_count_
<1> DEFINE o == Owner(s, t)
           others == IF is_write /\ s.type = "private" THEN Thread \ {t} ELSE {}
           reused == DeleteAddresses(s, o, Tracked(s, o) \cap {a})
           invalidated == Invalidate(reused, others, a)
           extended == Extend(invalidated, o, a)
           full == FullSets(extended, o)
<1> HIDE DEF others
<1>1. others \in SUBSET Thread
  BY DEF others
<1>2. o \in Thread
  BY OwnerIsThread
<1> HIDE DEF o
<1>3. /\ reused \in Sampler /\ Accounted(reused)
      /\ reused.global_tracked_address_count_ <= s.global_tracked_address_count_
  BY <1>2, DeleteIsAccounted
<1> HIDE DEF reused
<1>4. /\ invalidated \in Sampler /\ Accounted(invalidated)
      /\ invalidated.global_tracked_address_count_ <= reused.global_tracked_address_count_
  BY <1>1, <1>3, InvalidateIsAccounted
<1> HIDE DEF invalidated
<1>5. /\ extended \in Sampler /\ Accounted(extended)
      /\ extended.global_tracked_address_count_ = invalidated.global_tracked_address_count_
  BY <1>2, <1>4, ExtendIsAccounted
<1>6. full \subseteq Tracked(extended, o)
  BY DEF FullSets
<1> HIDE DEF extended, full
<1>7. /\ DeleteAddresses(extended, o, full) \in Sampler
      /\ Accounted(DeleteAddresses(extended, o, full))
      /\ DeleteAddresses(extended, o, full).global_tracked_address_count_
           <= extended.global_tracked_address_count_
  BY <1>2, <1>5, <1>6, DeleteIsAccounted
<1>8. SampleAccess(s, t, a, is_write) = DeleteAddresses(extended, o, full)
  BY DEF SampleAccess, others, o, reused, invalidated, extended, full
<1>9. /\ s.global_tracked_address_count_ \in Nat
      /\ reused.global_tracked_address_count_ \in Nat
      /\ invalidated.global_tracked_address_count_ \in Nat
      /\ extended.global_tracked_address_count_ \in Nat
      /\ DeleteAddresses(extended, o, full).global_tracked_address_count_ \in Nat
  BY <1>3, <1>4, <1>5, <1>7 DEF Sampler
<1> QED
  BY <1>3, <1>4, <1>5, <1>7, <1>8, <1>9

\* A sample is taken or refused: at most one more is tracked.
LEMMA NewIsAccounted ==
  ASSUME NEW s \in Sampler, Accounted(s), NEW t \in Thread, NEW a \in Block
  PROVE  /\ NewSampledAddress(s, t, a) \in Sampler
         /\ Accounted(NewSampledAddress(s, t, a))
         /\ NewSampledAddress(s, t, a).global_tracked_address_count_
              <= s.global_tracked_address_count_ + 1
<1> DEFINE o == Owner(s, t)
           r == NewSampledAddress(s, t, a)
           map == [b \in Tracked(s, o) \cup {a} |->
                     IF b = a THEN [set |-> {}, hole_count |-> 0] ELSE s.sampled_addresses_[o][b]]
<1>1. o \in Thread
  BY OwnerIsThread
<1>2. CASE ~Enabled(s, t) \/ a \in Tracked(s, o)
  <2>1. NewSampledAddress(s, t, a) = s
    BY <1>2 DEF NewSampledAddress
  <2>2. s.global_tracked_address_count_ \in Nat
    BY DEF Sampler
  <2> QED
    BY <2>1, <2>2
<1>3. CASE Enabled(s, t) /\ a \notin Tracked(s, o)
  <2>1. map \in SampleMap /\ DOMAIN map = Tracked(s, o) \cup {a}
    <3>1. s.sampled_addresses_[o] \in SampleMap
      BY <1>1 DEF Sampler
    <3>2. Tracked(s, o) \cup {a} \in SUBSET Block
      BY <1>1, AllFinite
    <3>3. [set |-> {}, hole_count |-> 0] \in Sample
      BY DEF Sample
    <3>4. map \in [Tracked(s, o) \cup {a} -> Sample]
      BY <3>1, <3>3, MapDomain DEF Tracked
    <3> QED
      BY <3>2, <3>4, MapType
  <2>2. /\ r.sampled_addresses_ = [s.sampled_addresses_ EXCEPT ![o] = map]
        /\ r.sampled_address_count_ = [s.sampled_address_count_ EXCEPT ![o] = @ + 1]
        /\ r.global_tracked_address_count_ = s.global_tracked_address_count_ + 1
        /\ r.recorded = s.recorded
    BY <1>3 DEF NewSampledAddress, Sampler
  <2>3. r = [s EXCEPT !.sampled_addresses_ = r.sampled_addresses_,
                      !.sampled_address_count_ = r.sampled_address_count_,
                      !.global_tracked_address_count_ = r.global_tracked_address_count_]
    BY <1>3 DEF NewSampledAddress, Sampler
  <2> HIDE DEF r, map, o
  <2>4. \A i \in Thread : Tracked(r, i) = IF i = o THEN Tracked(s, o) \cup {a} ELSE Tracked(s, i)
    BY <1>1, <2>1, <2>2 DEF Tracked, Sampler
  <2>5. Samples(r) = Samples(s) \cup {<<o, a>>} /\ <<o, a>> \notin Samples(s)
    BY <1>1, <1>3, <2>4 DEF Samples
  <2>6. Cardinality(Samples(r)) = Cardinality(Samples(s)) + 1
    BY <2>5, AllFinite, FS_AddElement
  <2>7. s.global_tracked_address_count_ \in Nat
    BY DEF Sampler
  <2>8. r \in Sampler
    <3>1. r.sampled_addresses_ \in [Thread -> SampleMap]
      BY <1>1, <2>1, <2>2 DEF Sampler
    <3>2. r.sampled_address_count_ \in [Thread -> Nat]
      BY <1>1, <2>2 DEF Sampler
    <3>3. r.global_tracked_address_count_ \in Nat
      BY <2>2, <2>7
    <3> QED
      BY <2>3, <3>1, <3>2, <3>3 DEF Sampler
  <2>9. ASSUME NEW i \in Thread PROVE OwnAccount(r, i)
    <3>1. /\ s.sampled_address_count_[i] = s.recorded[i] + Cardinality(Tracked(s, i))
          /\ s.recorded[i] \in Nat
          /\ IsFiniteSet(Tracked(s, i)) /\ Cardinality(Tracked(s, i)) \in Nat
      BY AllFinite DEF Accounted, OwnAccount, Sampler
    <3>2. CASE i = o
      <4>1. Cardinality(Tracked(s, o) \cup {a}) = Cardinality(Tracked(s, o)) + 1
        BY <1>3, <3>1, <3>2, FS_AddElement
      <4>2. Cardinality(Tracked(r, o)) = Cardinality(Tracked(s, o)) + 1
        BY <1>1, <2>4, <4>1
      <4>3. r.sampled_address_count_[o] = s.sampled_address_count_[o] + 1
        BY <1>1, <2>2 DEF Sampler
      <4> QED
        BY <2>2, <3>1, <3>2, <4>2, <4>3 DEF OwnAccount
    <3>3. CASE i # o
      BY <2>2, <2>4, <3>1, <3>3 DEF OwnAccount, Sampler
    <3> QED
      BY <3>2, <3>3
  <2>10. Accounted(r)
    BY <2>2, <2>6, <2>9 DEF Accounted
  <2> QED
    BY <2>2, <2>7, <2>8, <2>10 DEF r
<1> QED
  BY <1>2, <1>3 DEF o

\* At the end everything still tracked is recorded, and nothing remains.
LEMMA LeftoversAreAccounted ==
  ASSUME NEW s \in Sampler, Accounted(s)
  PROVE  /\ RecordLeftovers(s) \in Sampler
         /\ Accounted(RecordLeftovers(s))
         /\ RecordLeftovers(s).global_tracked_address_count_ = 0
<1> DEFINE r == RecordLeftovers(s)
<1>1. <<>> \in SampleMap /\ DOMAIN <<>> = {}
  <2>1. <<>> \in [{} -> Sample]
    OBVIOUS
  <2> QED
    BY <2>1, MapType
<1>2. /\ r.sampled_addresses_ = [o \in Thread |-> <<>>]
      /\ r.recorded = [o \in Thread |-> s.recorded[o] + Cardinality(Tracked(s, o))]
      /\ r.sampled_address_count_ = s.sampled_address_count_
      /\ r.global_tracked_address_count_ =
           s.global_tracked_address_count_ - Cardinality(Samples(s))
  BY DEF RecordLeftovers, Sampler
<1>3. r = [s EXCEPT !.recorded = r.recorded, !.sampled_addresses_ = r.sampled_addresses_,
                    !.global_tracked_address_count_ = r.global_tracked_address_count_]
  BY DEF RecordLeftovers, Sampler
<1> HIDE DEF r
<1>4. r.global_tracked_address_count_ = 0
  BY <1>2, AllFinite DEF Accounted
<1>5. \A o \in Thread : Tracked(r, o) = {}
  BY <1>1, <1>2 DEF Tracked
<1>6. Samples(r) = {}
  BY <1>5 DEF Samples
<1>7. r.recorded \in [Thread -> Nat]
  <2>1. ASSUME NEW o \in Thread PROVE s.recorded[o] + Cardinality(Tracked(s, o)) \in Nat
    <3>1. s.recorded[o] \in Nat /\ Cardinality(Tracked(s, o)) \in Nat
      BY AllFinite DEF Sampler
    <3> QED
      BY <3>1
  <2> QED
    BY <1>2, <2>1
<1>8. r \in Sampler
  <2>1. r.sampled_addresses_ \in [Thread -> SampleMap]
    BY <1>1, <1>2
  <2>2. r.global_tracked_address_count_ \in Nat
    BY <1>4
  <2> QED
    BY <1>3, <1>7, <2>1, <2>2 DEF Sampler
<1>9. ASSUME NEW o \in Thread PROVE OwnAccount(r, o)
  <2>1. /\ s.sampled_address_count_[o] = s.recorded[o] + Cardinality(Tracked(s, o))
        /\ s.recorded[o] + Cardinality(Tracked(s, o)) \in Nat
    BY AllFinite DEF Accounted, OwnAccount, Sampler
  <2>2. Cardinality(Tracked(r, o)) = 0
    BY <1>5, FS_EmptySet
  <2> QED
    BY <1>2, <2>1, <2>2 DEF OwnAccount
<1>10. Accounted(r)
  BY <1>4, <1>6, <1>9, FS_EmptySet DEF Accounted
<1> QED
  BY <1>4, <1>8, <1>10 DEF r

LEMMA NewIsTyped ==
  ASSUME NEW type \in StackType, NEW limit \in Limits
  PROVE  /\ NewSampler(type, limit) \in Sampler
         /\ Accounted(NewSampler(type, limit))
         /\ NewSampler(type, limit).global_tracked_address_count_ = 0
<1> DEFINE s == NewSampler(type, limit)
<1>1. <<>> \in SampleMap /\ DOMAIN <<>> = {}
  <2>1. <<>> \in [{} -> Sample]
    OBVIOUS
  <2> QED
    BY <2>1, MapType
<1>2. s \in Sampler
  BY <1>1 DEF NewSampler, Sampler
<1>3. \A o \in Thread : Tracked(s, o) = {}
  BY <1>1 DEF NewSampler, Tracked
<1>4. Samples(s) = {}
  BY <1>3 DEF Samples
<1>5. ASSUME NEW o \in Thread PROVE OwnAccount(s, o)
  <2>1. s.sampled_address_count_[o] = 0 /\ s.recorded[o] = 0
    BY DEF NewSampler
  <2>2. Cardinality(Tracked(s, o)) = 0
    BY <1>3, FS_EmptySet
  <2> QED
    BY <2>1, <2>2 DEF OwnAccount
<1>6. s.global_tracked_address_count_ = 0
  BY DEF NewSampler
<1>7. Accounted(s)
  BY <1>4, <1>5, <1>6, FS_EmptySet DEF Accounted
<1> QED
  BY <1>2, <1>6, <1>7

\* What is switched on or off does not matter to the accounts.
LEMMA SwitchIsAccounted ==
  ASSUME NEW s \in Sampler, Accounted(s), NEW r, r \in Sampler,
         r.sampled_addresses_ = s.sampled_addresses_,
         r.sampled_address_count_ = s.sampled_address_count_, r.recorded = s.recorded,
         r.global_tracked_address_count_ = s.global_tracked_address_count_
  PROVE  Accounted(r)
<1>1. \A o \in Thread : Tracked(r, o) = Tracked(s, o)
  BY DEF Tracked
<1>2. Samples(r) = Samples(s)
  BY <1>1 DEF Samples
<1> QED
  BY <1>1, <1>2 DEF Accounted, OwnAccount

LEMMA EnableIsAccounted ==
  ASSUME NEW s \in Sampler, Accounted(s), NEW t \in Thread, NEW on \in BOOLEAN
  PROVE  /\ [s EXCEPT !.global_enable_ = on] \in Sampler
         /\ Accounted([s EXCEPT !.global_enable_ = on])
         /\ [s EXCEPT !.global_enable_ = on].global_tracked_address_count_
              = s.global_tracked_address_count_
         /\ [s EXCEPT !.thread_enable_[t] = on] \in Sampler
         /\ Accounted([s EXCEPT !.thread_enable_[t] = on])
         /\ [s EXCEPT !.thread_enable_[t] = on].global_tracked_address_count_
              = s.global_tracked_address_count_
<1>1. [s EXCEPT !.global_enable_ = on] \in Sampler
  BY DEF Sampler
<1>2. [s EXCEPT !.thread_enable_[t] = on] \in Sampler
  BY DEF Sampler
<1>3. Accounted([s EXCEPT !.global_enable_ = on])
  BY <1>1, SwitchIsAccounted DEF Sampler
<1>4. Accounted([s EXCEPT !.thread_enable_[t] = on])
  BY <1>2, SwitchIsAccounted DEF Sampler
<1> QED
  BY <1>1, <1>2, <1>3, <1>4 DEF Sampler

-----------------------------------------------------------------------------
(* The inductive invariant                                                 *)

Count == sampler.global_tracked_address_count_
At(labels) == \E t \in Thread : pc[t] \in labels

Typed ==
  /\ TypeOK
  /\ \A t \in Thread : pc[t] \notin {"new", "app", "exited"} => ref[t] \in Block \X BOOLEAN

\* Only the thread that holds sampler_lock is where it is held.
Mutex == \A t \in Thread : pc[t] \in Locked <=> sampler_lock = t

\* A thread stops the sampling because nothing is tracked; there is a sample to drop.
Leaving == \A t \in Thread : pc[t] \in {"reset", "drop"} => Count = 0 /\ active_samples > 0

\* The two parts of TrackedIsWatched.
Watched == Count # 0 => sampling = 1 \/ At({"watch"})
Counts == active_samples + (IF At({"watch", "count"}) THEN 1 ELSE 0) >= Count

\* A thread takes the sample it has chosen.
Choosing == \A t \in Thread : pc[t] \in {"sample", "watch", "count"} => is_samplechoice[t]

\* Where sampling is on after all when the last sample is dropped, a thread has set it
\* that is going to choose one.
Dropping == \A t \in Thread : pc[t] = "drop" /\ sampling = 1 => \E u \in Thread : Pending(u)

ControlInv == Mutex /\ Leaving /\ Watched /\ Counts /\ Choosing /\ Dropping /\ SamplingHasACause
Inv == Typed /\ Accounted(sampler) /\ ControlInv

\* How the count of tracked samples changes, and that the accounts are kept.
LEMMA SamplerStep ==
  ASSUME Typed, Accounted(sampler), NEW t \in Thread, ThreadStep(t)
  PROVE  /\ sampler' \in Sampler /\ Accounted(sampler') /\ Count' \in Nat
         /\ IF pc[t] = "access" THEN Count' <= Count
            ELSE IF pc[t] = "sample" THEN Count' <= Count + 1 ELSE Count' = Count
<1> USE DEF Count
<1>1. sampler \in Sampler /\ Count \in Nat
  BY DEF Typed, TypeOK, Sampler
<1>2. CASE UNCHANGED sampler
  BY <1>1, <1>2
<1>3. CASE ThreadStart(t)
  <2>1. sampler' = [sampler EXCEPT !.thread_enable_[t] = TRUE] /\ pc[t] = "new"
    BY <1>3 DEF ThreadStart, Allocate
  <2> QED
    BY <1>1, <2>1, EnableIsAccounted DEF Sampler
<1>4. CASE Access(t)
  <2>1. pc[t] = "access" /\ ref[t] \in Block \X BOOLEAN
    BY <1>4 DEF Access, Typed
  <2>2. ref[t][1] \in Block
    BY <2>1
  <2>3. \/ sampler' = SampleAccess(sampler, t, ref[t][1], ref[t][2])
        \/ sampler' = sampler
    BY <1>4 DEF Access
  <2>4. CASE sampler' = SampleAccess(sampler, t, ref[t][1], ref[t][2])
    <3>1. /\ sampler' \in Sampler /\ Accounted(sampler')
          /\ sampler'.global_tracked_address_count_ <= sampler.global_tracked_address_count_
      BY <1>1, <2>2, <2>4, AccessIsAccounted
    <3> QED
      BY <2>1, <3>1 DEF Sampler
  <2> QED
    BY <1>1, <2>1, <2>3, <2>4
<1>5. CASE TakeSample(t)
  <2>1. pc[t] = "sample" /\ ref[t] \in Block \X BOOLEAN
    BY <1>5 DEF TakeSample, Typed
  <2>2. ref[t][1] \in Block
    BY <2>1
  <2>3. sampler' = NewSampledAddress(sampler, t, ref[t][1])
    BY <1>5 DEF TakeSample
  <2>4. /\ sampler' \in Sampler /\ Accounted(sampler')
        /\ sampler'.global_tracked_address_count_ <= sampler.global_tracked_address_count_ + 1
    BY <1>1, <2>2, <2>3, NewIsAccounted
  <2> QED
    BY <2>1, <2>4 DEF Sampler
<1>6. CASE SetGlobalEnable(t)
  <2>1. sampler' = [sampler EXCEPT !.global_enable_ = ~sampler.global_enable_] /\ pc[t] = "app"
    BY <1>6 DEF SetGlobalEnable
  <2>2. (~sampler.global_enable_) \in BOOLEAN
    OBVIOUS
  <2> QED
    BY <1>1, <2>1, <2>2, EnableIsAccounted DEF Sampler
<1>7. CASE SetThreadEnable(t)
  <2>1. sampler' = [sampler EXCEPT !.thread_enable_[t] = ~sampler.thread_enable_[t]] /\ pc[t] = "app"
    BY <1>7 DEF SetThreadEnable
  <2>2. (~sampler.thread_enable_[t]) \in BOOLEAN
    OBVIOUS
  <2> QED
    BY <1>1, <2>1, <2>2, EnableIsAccounted DEF Sampler
<1>8. CASE \/ EnterBlock(t) \/ SampleTrigger(t)
           \/ \E a \in Block, is_write \in BOOLEAN : MemRef(t, a, is_write)
           \/ CheckActive(t) \/ ResetSampling(t) \/ DropActive(t) \/ Watch(t) \/ CountSample(t)
  <2>1. UNCHANGED sampler
    BY <1>8 DEF EnterBlock, SampleTrigger, MemRef, CheckActive, ResetSampling, DropActive, Watch,
                CountSample
  <2> QED
    BY <1>2, <2>1
<1> QED
  BY <1>3, <1>4, <1>5, <1>6, <1>7, <1>8 DEF ThreadStep

LEMMA CountDownIsTyped ==
  ASSUME Typed, NEW t \in Thread, pc[t] \in {"check", "access", "drop"}, CountDown(t)
  PROVE  /\ pc' = [pc EXCEPT ![t] = pc'[t]] /\ pc'[t] \in {"app", "sample"}
         /\ pc'[t] = "sample" => is_samplechoice[t]
         /\ ref' \in [Thread -> {NoRef} \cup (Block \X BOOLEAN)]
         /\ ref' = [ref EXCEPT ![t] = ref'[t]]
         /\ pc'[t] = "sample" => ref' = ref
         /\ samplechoice' \in [Thread -> Int]
         /\ UNCHANGED <<is_samplechoice, refs_left>>
<1>1. /\ pc \in [Thread -> Control] /\ ref \in [Thread -> {NoRef} \cup (Block \X BOOLEAN)]
      /\ samplechoice \in [Thread -> Int]
  BY DEF Typed, TypeOK
<1>2. samplechoice' \in [Thread -> Int] /\ UNCHANGED <<is_samplechoice, refs_left>>
  BY <1>1 DEF CountDown
<1>3. CASE is_samplechoice[t] /\ samplechoice[t] = 0
  BY <1>1, <1>2, <1>3 DEF CountDown, Goto
<1>4. CASE ~(is_samplechoice[t] /\ samplechoice[t] = 0)
  <2>1. pc' = [pc EXCEPT ![t] = "app"] /\ ref' = [ref EXCEPT ![t] = NoRef]
    BY <1>4 DEF CountDown, Goto
  <2> QED
    BY <1>1, <1>2, <2>1
<1> QED
  BY <1>3, <1>4

\* A step of a thread moves only that thread.
LEMMA Moves ==
  ASSUME Typed, NEW t \in Thread, ThreadStep(t)
  PROVE  /\ pc' = [pc EXCEPT ![t] = pc'[t]] /\ pc'[t] \in Control
         /\ ref' = [ref EXCEPT ![t] = ref'[t]]
         /\ ref'[t] \in {NoRef} \cup (Block \X BOOLEAN)
         /\ pc'[t] \notin {"new", "app", "exited"} => ref'[t] \in Block \X BOOLEAN
<1>1. /\ pc \in [Thread -> Control] /\ ref \in [Thread -> {NoRef} \cup (Block \X BOOLEAN)]
      /\ pc[t] \notin {"new", "app", "exited"} => ref[t] \in Block \X BOOLEAN
  BY DEF Typed, TypeOK
<1>2. CASE UNCHANGED <<pc, ref>>
  BY <1>1, <1>2
<1>3. CASE ThreadStart(t)
  BY <1>1, <1>3 DEF ThreadStart, Goto, Control
<1>4. CASE \E a \in Block, is_write \in BOOLEAN : MemRef(t, a, is_write)
  <2>1. PICK a \in Block, is_write \in BOOLEAN : MemRef(t, a, is_write)
    BY <1>4
  <2>2. CASE sampling = 1
    <3>1. pc' = [pc EXCEPT ![t] = "check"] /\ ref' = [ref EXCEPT ![t] = <<a, is_write>>]
      BY <2>1, <2>2 DEF MemRef, Goto
    <3>2. ref'[t] = <<a, is_write>> /\ pc'[t] = "check"
      BY <1>1, <3>1
    <3>3. <<a, is_write>> \in Block \X BOOLEAN
      OBVIOUS
    <3> QED
      BY <3>1, <3>2, <3>3 DEF Control
  <2>3. CASE sampling # 1
    BY <1>2, <2>1, <2>3 DEF MemRef
  <2> QED
    BY <2>2, <2>3
<1>5. CASE CheckActive(t)
  <2>1. CASE active_samples # 0
    BY <1>1, <1>5, <2>1 DEF CheckActive, Goto, Control
  <2>2. CASE active_samples = 0
    <3>1. CountDown(t) /\ pc[t] = "check"
      BY <1>5, <2>2 DEF CheckActive
    <3> QED
      BY <1>1, <3>1, CountDownIsTyped DEF Control
  <2> QED
    BY <2>1, <2>2
<1>6. CASE Access(t)
  <2>1. pc[t] = "access"
    BY <1>6 DEF Access
  <2>2. \/ CountDown(t)
        \/ pc' = [pc EXCEPT ![t] = "reset"] /\ UNCHANGED ref
    BY <1>6 DEF Access, Goto
  <2>3. CASE CountDown(t)
    BY <1>1, <2>1, <2>3, CountDownIsTyped DEF Control
  <2>4. CASE pc' = [pc EXCEPT ![t] = "reset"] /\ UNCHANGED ref
    BY <1>1, <2>1, <2>4 DEF Control
  <2> QED
    BY <2>2, <2>3, <2>4
<1>7. CASE DropActive(t)
  <2>1. CountDown(t) /\ pc[t] = "drop"
    BY <1>7 DEF DropActive
  <2> QED
    BY <1>1, <2>1, CountDownIsTyped DEF Control
<1>8. CASE ResetSampling(t) \/ TakeSample(t) \/ Watch(t)
  BY <1>1, <1>8 DEF ResetSampling, TakeSample, Watch, Goto, Control
<1>9. CASE CountSample(t)
  BY <1>1, <1>9 DEF CountSample, Goto, Control
<1>10. CASE EnterBlock(t) \/ SampleTrigger(t) \/ SetGlobalEnable(t) \/ SetThreadEnable(t)
  BY <1>2, <1>10 DEF EnterBlock, SampleTrigger, SetGlobalEnable, SetThreadEnable, threadVars
<1> QED
  BY <1>3, <1>4, <1>5, <1>6, <1>7, <1>8, <1>9, <1>10 DEF ThreadStep

LEMMA TypedStep ==
  ASSUME Inv, NEW t \in Thread, ThreadStep(t)
  PROVE  Typed' /\ Accounted(sampler)'
<1>1. /\ TypeOK /\ Typed /\ Accounted(sampler) /\ Leaving
      /\ \A u \in Thread : pc[u] \notin {"new", "app", "exited"} => ref[u] \in Block \X BOOLEAN
  BY DEF Inv, Typed, ControlInv
<1>2. sampler' \in Sampler /\ Accounted(sampler')
  BY <1>1, SamplerStep
<1>3. /\ pc' = [pc EXCEPT ![t] = pc'[t]] /\ pc'[t] \in Control
      /\ ref' = [ref EXCEPT ![t] = ref'[t]] /\ ref'[t] \in {NoRef} \cup (Block \X BOOLEAN)
      /\ pc'[t] \notin {"new", "app", "exited"} => ref'[t] \in Block \X BOOLEAN
  BY <1>1, Moves
<1>4. pc' \in [Thread -> Control] /\ ref' \in [Thread -> {NoRef} \cup (Block \X BOOLEAN)]
  BY <1>1, <1>3 DEF TypeOK
<1>5. \A u \in Thread : pc'[u] \notin {"new", "app", "exited"} => ref'[u] \in Block \X BOOLEAN
  BY <1>1, <1>3 DEF TypeOK
<1>6. sampling' \in {0, 1} /\ active_samples' \in Nat /\ sampler_lock' \in Thread \cup {Free}
  <2>1. /\ sampling \in {0, 1} /\ active_samples \in Nat /\ sampler_lock \in Thread \cup {Free}
        /\ pc[t] = "drop" => active_samples > 0
    BY <1>1 DEF TypeOK, Leaving
  <2>2. CASE ThreadStart(t) \/ EnterBlock(t) \/ CheckActive(t) \/ SetGlobalEnable(t) \/ SetThreadEnable(t)
             \/ \E a \in Block, is_write \in BOOLEAN : MemRef(t, a, is_write)
    BY <2>1, <2>2 DEF ThreadStart, EnterBlock, CheckActive, SetGlobalEnable, SetThreadEnable,
                      MemRef, globalVars
  <2>3. CASE SampleTrigger(t)
    BY <2>1, <2>3 DEF SampleTrigger
  <2>4. CASE Access(t)
    BY <2>1, <2>4 DEF Access, KeepLock
  <2>5. CASE ResetSampling(t)
    BY <2>1, <2>5 DEF ResetSampling
  <2>6. CASE DropActive(t)
    BY <2>1, <2>6 DEF DropActive
  <2>7. CASE TakeSample(t)
    BY <2>1, <2>7 DEF TakeSample
  <2>8. CASE Watch(t)
    BY <2>1, <2>8 DEF Watch
  <2>9. CASE CountSample(t)
    BY <2>1, <2>9 DEF CountSample, Counted
  <2> QED
    BY <2>2, <2>3, <2>4, <2>5, <2>6, <2>7, <2>8, <2>9 DEF ThreadStep
<1>7. /\ is_samplechoice' \in [Thread -> BOOLEAN] /\ samplechoice' \in [Thread -> Int]
      /\ refs_left' \in [Thread -> 0 .. MaxRefs]
  <2>1. /\ is_samplechoice \in [Thread -> BOOLEAN] /\ samplechoice \in [Thread -> Int]
        /\ refs_left \in [Thread -> 0 .. MaxRefs] /\ MaxRefs \in Nat
    BY <1>1, PerRefAssumption DEF TypeOK
  <2>2. CASE EnterBlock(t)
    BY <2>1, <2>2 DEF EnterBlock
  <2>3. CASE SampleTrigger(t)
    <3>1. PICK count \in 0 .. MaxRefs, choice \in 0 .. MaxRefs - 1 :
             /\ refs_left' = [refs_left EXCEPT ![t] = count]
             /\ samplechoice' = [samplechoice EXCEPT ![t] = choice]
      BY <2>3 DEF SampleTrigger
    <3>2. is_samplechoice' = [is_samplechoice EXCEPT ![t] = TRUE]
      BY <2>3 DEF SampleTrigger
    <3>3. is_samplechoice' \in [Thread -> BOOLEAN]
      BY <2>1, <3>2
    <3>4. samplechoice' \in [Thread -> Int] /\ refs_left' \in [Thread -> 0 .. MaxRefs]
      <4>1. choice \in Int
        BY <2>1
      <4> QED
        BY <2>1, <3>1, <4>1
    <3> QED
      BY <3>3, <3>4
  <2>4. CASE \E a \in Block, is_write \in BOOLEAN : MemRef(t, a, is_write)
    BY <2>1, <2>4 DEF MemRef
  <2>5. CASE CheckActive(t)
    <3>1. \/ CountDown(t) /\ pc[t] = "check"
          \/ UNCHANGED <<is_samplechoice, samplechoice, refs_left>>
      BY <2>5 DEF CheckActive
    <3> QED
      BY <1>1, <2>1, <3>1, CountDownIsTyped
  <2>6. CASE Access(t)
    <3>1. \/ CountDown(t) /\ pc[t] = "access"
          \/ UNCHANGED <<is_samplechoice, samplechoice, refs_left>>
      BY <2>6 DEF Access
    <3> QED
      BY <1>1, <2>1, <3>1, CountDownIsTyped
  <2>7. CASE DropActive(t)
    <3>1. CountDown(t) /\ pc[t] = "drop"
      BY <2>7 DEF DropActive
    <3> QED
      BY <1>1, <2>1, <3>1, CountDownIsTyped
  <2>8. CASE CountSample(t)
    <3>1. /\ is_samplechoice' = [is_samplechoice EXCEPT ![t] = FALSE]
          /\ UNCHANGED <<samplechoice, refs_left>>
      BY <2>8 DEF CountSample
    <3> QED
      BY <2>1, <3>1
  <2>9. CASE \/ ThreadStart(t) \/ ResetSampling(t) \/ TakeSample(t) \/ Watch(t)
             \/ SetGlobalEnable(t) \/ SetThreadEnable(t)
    BY <2>1, <2>9 DEF ThreadStart, ResetSampling, TakeSample, Watch, SetGlobalEnable,
                      SetThreadEnable, threadVars
  <2> QED
    BY <2>2, <2>3, <2>4, <2>5, <2>6, <2>7, <2>8, <2>9 DEF ThreadStep
<1> QED
  BY <1>2, <1>4, <1>5, <1>6, <1>7 DEF Typed, TypeOK, Accounted, OwnAccount, Tracked, Samples

\* What a step of the thread t does to the lock and to where t is.
LEMMA LockMoves ==
  ASSUME Typed, Mutex, NEW t \in Thread, ThreadStep(t)
  PROVE  /\ \/ pc[t] \in Locked \/ pc'[t] \notin Locked \/ sampler_lock = Free
         /\ IF pc'[t] \in Locked THEN sampler_lock' = t
            ELSE IF pc[t] \in Locked THEN sampler_lock' = Free
            ELSE UNCHANGED sampler_lock
         /\ pc[t] \in {"access", "sample"} => sampler_lock = Free
<1> USE DEF Locked
<1>1. pc \in [Thread -> Control] /\ (pc[t] \in Locked <=> sampler_lock = t)
  BY DEF Typed, TypeOK, Mutex
<1>2. CASE UNCHANGED <<pc, sampler_lock>> /\ pc[t] = "app"
  BY <1>1, <1>2
<1>3. CASE ThreadStart(t)
  BY <1>1, <1>3 DEF ThreadStart, Goto, globalVars
<1>4. CASE \E a \in Block, is_write \in BOOLEAN : MemRef(t, a, is_write)
  BY <1>1, <1>4 DEF MemRef, Goto, globalVars
<1>5. CASE CheckActive(t)
  <2>1. pc[t] = "check" /\ UNCHANGED sampler_lock
        /\ (CountDown(t) \/ pc' = [pc EXCEPT ![t] = "access"])
    BY <1>5 DEF CheckActive, Goto, globalVars
  <2> QED
    BY <1>1, <2>1, CountDownIsTyped
<1>6. CASE Access(t)
  <2>1. /\ pc[t] = "access" /\ sampler_lock = Free
        /\ \/ CountDown(t) /\ UNCHANGED sampler_lock
           \/ pc' = [pc EXCEPT ![t] = "reset"] /\ sampler_lock' = t
    BY <1>6 DEF Access, Goto, KeepLock
  <2> QED
    BY <1>1, <2>1, CountDownIsTyped
<1>7. CASE DropActive(t)
  <2>1. CountDown(t) /\ pc[t] = "drop" /\ sampler_lock' = Free
    BY <1>7 DEF DropActive
  <2> QED
    BY <1>1, <2>1, CountDownIsTyped
<1>8. CASE ResetSampling(t) \/ Watch(t)
  BY <1>1, <1>8 DEF ResetSampling, Watch, Goto
<1>9. CASE TakeSample(t)
  BY <1>1, <1>9 DEF TakeSample, Goto
<1>10. CASE CountSample(t)
  BY <1>1, <1>10 DEF CountSample, Goto
<1>11. CASE EnterBlock(t) \/ SampleTrigger(t) \/ SetGlobalEnable(t) \/ SetThreadEnable(t)
  BY <1>2, <1>11 DEF EnterBlock, SampleTrigger, SetGlobalEnable, SetThreadEnable, threadVars, globalVars
<1> QED
  BY <1>3, <1>4, <1>5, <1>6, <1>7, <1>8, <1>9, <1>10, <1>11 DEF ThreadStep

LEMMA MutexStep ==
  ASSUME Typed, Mutex, NEW t \in Thread, ThreadStep(t)
  PROVE  Mutex'
<1>1. pc \in [Thread -> Control] /\ pc' = [pc EXCEPT ![t] = pc'[t]] /\ Free \notin Thread
  BY Moves, SampledAssumption DEF Typed, TypeOK, Free
<1>2. \A u \in Thread : pc[u] \in Locked <=> sampler_lock = u
  BY DEF Mutex
<1>3. ASSUME NEW u \in Thread PROVE pc'[u] \in Locked <=> sampler_lock' = u
  <2>1. CASE u = t
    BY <1>1, <1>2, <2>1, LockMoves
  <2>2. CASE u # t
    <3>1. pc'[u] = pc[u]
      BY <1>1, <2>2
    <3> QED
      BY <1>1, <1>2, <2>2, <3>1, LockMoves
  <2> QED
    BY <2>1, <2>2
<1> QED
  BY <1>3 DEF Mutex

\* What a step does to the flag and to the count of samples.
LEMMA FlagMoves ==
  ASSUME Typed, NEW t \in Thread, ThreadStep(t)
  PROVE  /\ IF pc[t] = "reset" THEN sampling' = 0 /\ pc'[t] = "drop"
            ELSE sampling' = sampling \/ (sampling' = 1 /\ (\/ pc[t] = "watch"
                                                             \/ is_samplechoice'[t]))
         /\ active_samples' = IF pc[t] = "drop" THEN active_samples - 1
                              ELSE IF pc[t] = "count" THEN active_samples + 1
                              ELSE active_samples
         /\ pc[t] = "watch" => sampling' = 1 /\ pc'[t] = "count"
         /\ pc'[t] = "drop" => pc[t] = "reset"
         /\ pc'[t] = "reset" => pc[t] = "access" /\ active_samples > 0 /\ Count' = 0
         /\ pc'[t] = "watch" <=> pc[t] = "sample"
         /\ pc'[t] = "count" <=> pc[t] = "watch"
<1> USE DEF Count
<1>1. /\ pc \in [Thread -> Control] /\ active_samples \in Nat
      /\ is_samplechoice \in [Thread -> BOOLEAN]
  BY DEF Typed, TypeOK
<1>2. CASE UNCHANGED <<pc, sampling, active_samples>> /\ pc[t] = "app"
  BY <1>1, <1>2
<1>3. CASE ThreadStart(t)
  BY <1>1, <1>3 DEF ThreadStart, Goto, globalVars
<1>4. CASE SampleTrigger(t)
  <2>1. /\ UNCHANGED <<pc, active_samples>> /\ pc[t] = "app" /\ sampling' = 1
        /\ is_samplechoice' = [is_samplechoice EXCEPT ![t] = TRUE]
    BY <1>4 DEF SampleTrigger
  <2>2. is_samplechoice'[t]
    BY <1>1, <2>1
  <2> QED
    BY <1>1, <2>1, <2>2
<1>5. CASE \E a \in Block, is_write \in BOOLEAN : MemRef(t, a, is_write)
  <2>1. /\ UNCHANGED <<sampling, active_samples>> /\ pc[t] = "app"
        /\ (UNCHANGED pc \/ pc' = [pc EXCEPT ![t] = "check"])
    BY <1>5 DEF MemRef, Goto, globalVars
  <2> QED
    BY <1>1, <2>1
<1>6. CASE CheckActive(t)
  <2>1. /\ pc[t] = "check" /\ UNCHANGED <<sampling, active_samples>>
        /\ (CountDown(t) \/ pc' = [pc EXCEPT ![t] = "access"])
    BY <1>6 DEF CheckActive, Goto, globalVars
  <2> QED
    BY <1>1, <2>1, CountDownIsTyped
<1>7. CASE Access(t)
  <2>1. pc[t] = "access" /\ UNCHANGED <<sampling, active_samples>>
    BY <1>7 DEF Access
  <2>2. CASE CountDown(t)
    BY <1>1, <2>1, <2>2, CountDownIsTyped
  <2>3. CASE ~CountDown(t)
    <3>1. /\ pc' = [pc EXCEPT ![t] = "reset"] /\ active_samples # 0
          /\ sampler'.global_tracked_address_count_ = 0
      BY <1>7, <2>3 DEF Access, Goto, Analysed, NoneTracked
    <3> QED
      BY <1>1, <2>1, <3>1
  <2> QED
    BY <2>2, <2>3
<1>8. CASE DropActive(t)
  <2>1. /\ CountDown(t) /\ pc[t] = "drop" /\ UNCHANGED sampling
        /\ active_samples' = active_samples - 1
    BY <1>8 DEF DropActive
  <2> QED
    BY <1>1, <2>1, CountDownIsTyped
<1>9. CASE ResetSampling(t)
  BY <1>1, <1>9 DEF ResetSampling, Goto
<1>10. CASE TakeSample(t)
  BY <1>1, <1>10 DEF TakeSample, Goto
<1>11. CASE Watch(t)
  BY <1>1, <1>11 DEF Watch, Goto
<1>12. CASE CountSample(t)
  BY <1>1, <1>12 DEF CountSample, Counted, Goto
<1>13. CASE EnterBlock(t) \/ SetGlobalEnable(t) \/ SetThreadEnable(t)
  BY <1>2, <1>13 DEF EnterBlock, SetGlobalEnable, SetThreadEnable, threadVars, globalVars
<1> QED
  BY <1>3, <1>4, <1>5, <1>6, <1>7, <1>8, <1>9, <1>10, <1>11, <1>12, <1>13 DEF ThreadStep

\* What a step does to the choice of a sample.
LEMMA ChoiceMoves ==
  ASSUME Typed, Choosing, NEW t \in Thread, ThreadStep(t)
  PROVE  /\ \A u \in Thread \ {t} : is_samplechoice'[u] = is_samplechoice[u]
         /\ is_samplechoice[t] => is_samplechoice'[t] \/ pc[t] = "count"
         /\ pc'[t] \in {"sample", "watch", "count"} => is_samplechoice'[t]
<1>1. /\ pc \in [Thread -> Control] /\ is_samplechoice \in [Thread -> BOOLEAN]
      /\ pc[t] \in {"sample", "watch", "count"} => is_samplechoice[t]
  BY DEF Typed, TypeOK, Choosing
<1>2. CASE UNCHANGED is_samplechoice /\ (pc'[t] \in {"sample", "watch", "count"} => is_samplechoice[t])
  BY <1>2
<1>3. CASE ThreadStart(t) \/ EnterBlock(t) \/ ResetSampling(t) \/ SetGlobalEnable(t) \/ SetThreadEnable(t)
  <2>1. UNCHANGED is_samplechoice
    BY <1>3 DEF ThreadStart, EnterBlock, ResetSampling, SetGlobalEnable, SetThreadEnable, threadVars
  <2>2. pc'[t] \in {"app", "drop"}
    BY <1>1, <1>3 DEF ThreadStart, EnterBlock, ResetSampling, SetGlobalEnable, SetThreadEnable,
                      threadVars, Goto
  <2> QED
    BY <1>2, <2>1, <2>2
<1>4. CASE SampleTrigger(t)
  <2>1. is_samplechoice' = [is_samplechoice EXCEPT ![t] = TRUE]
    BY <1>4 DEF SampleTrigger
  <2> QED
    BY <1>1, <2>1
<1>5. CASE \E a \in Block, is_write \in BOOLEAN : MemRef(t, a, is_write)
  <2>1. UNCHANGED is_samplechoice
    BY <1>5 DEF MemRef
  <2>2. pc'[t] \in {"app", "check"}
    BY <1>1, <1>5 DEF MemRef, Goto
  <2> QED
    BY <1>2, <2>1, <2>2
<1>6. CASE CheckActive(t)
  <2>1. /\ pc[t] = "check"
        /\ CountDown(t) \/ (pc' = [pc EXCEPT ![t] = "access"] /\ UNCHANGED is_samplechoice)
    BY <1>6 DEF CheckActive, Goto
  <2>2. UNCHANGED is_samplechoice /\ (pc'[t] \in {"sample", "watch", "count"} => is_samplechoice[t])
    BY <1>1, <2>1, CountDownIsTyped
  <2> QED
    BY <1>2, <2>2
<1>7. CASE Access(t)
  <2>1. /\ pc[t] = "access"
        /\ CountDown(t) \/ (pc' = [pc EXCEPT ![t] = "reset"] /\ UNCHANGED is_samplechoice)
    BY <1>7 DEF Access, Goto
  <2>2. UNCHANGED is_samplechoice /\ (pc'[t] \in {"sample", "watch", "count"} => is_samplechoice[t])
    BY <1>1, <2>1, CountDownIsTyped
  <2> QED
    BY <1>2, <2>2
<1>8. CASE DropActive(t)
  <2>1. CountDown(t) /\ pc[t] = "drop"
    BY <1>8 DEF DropActive
  <2>2. UNCHANGED is_samplechoice /\ (pc'[t] \in {"sample", "watch", "count"} => is_samplechoice[t])
    BY <1>1, <2>1, CountDownIsTyped
  <2> QED
    BY <1>2, <2>2
<1>9. CASE TakeSample(t) \/ Watch(t)
  <2>1. UNCHANGED is_samplechoice /\ pc[t] \in {"sample", "watch"}
    BY <1>9 DEF TakeSample, Watch
  <2> QED
    BY <1>1, <1>2, <2>1
<1>10. CASE CountSample(t)
  <2>1. /\ is_samplechoice' = [is_samplechoice EXCEPT ![t] = FALSE] /\ pc[t] = "count"
        /\ pc' = [pc EXCEPT ![t] = "app"]
    BY <1>10 DEF CountSample, Goto
  <2> QED
    BY <1>1, <2>1
<1> QED
  BY <1>3, <1>4, <1>5, <1>6, <1>7, <1>8, <1>9, <1>10 DEF ThreadStep

LEMMA NotNegative == \A n \in Nat, d \in {0, 1} : n + d >= 0
OBVIOUS

LEMMA ControlStep ==
  ASSUME Inv, NEW t \in Thread, ThreadStep(t)
  PROVE  ControlInv'
<1>1. /\ Typed /\ Accounted(sampler) /\ Mutex /\ Leaving /\ Watched /\ Counts /\ Choosing
      /\ Dropping /\ SamplingHasACause
  BY DEF Inv, ControlInv
<1>2. /\ Count \in Nat /\ Count' \in Nat
      /\ IF pc[t] = "access" THEN Count' <= Count
         ELSE IF pc[t] = "sample" THEN Count' <= Count + 1 ELSE Count' = Count
  BY <1>1, SamplerStep DEF Count, Typed, TypeOK, Sampler
<1>3. \A u \in Thread \ {t} : pc'[u] = pc[u]
  BY <1>1, Moves DEF Typed, TypeOK
<1>4. active_samples \in Nat /\ active_samples' \in Nat /\ sampling \in {0, 1}
  BY <1>1, TypedStep DEF Typed, TypeOK
<1>5. /\ pc[t] \in {"access", "sample"} => sampler_lock = Free
      /\ Free \notin Thread
      /\ \A u \in Thread : pc[u] \in Locked <=> sampler_lock = u
  BY <1>1, LockMoves, SampledAssumption DEF Free, Mutex
<1>6. /\ IF pc[t] = "reset" THEN sampling' = 0 /\ pc'[t] = "drop"
         ELSE sampling' = sampling \/ (sampling' = 1 /\ (pc[t] = "watch" \/ is_samplechoice'[t]))
      /\ active_samples' = IF pc[t] = "drop" THEN active_samples - 1
                           ELSE IF pc[t] = "count" THEN active_samples + 1 ELSE active_samples
      /\ pc[t] = "watch" => sampling' = 1 /\ pc'[t] = "count"
      /\ pc'[t] = "drop" => pc[t] = "reset"
      /\ pc'[t] = "reset" => pc[t] = "access" /\ active_samples > 0 /\ Count' = 0
      /\ pc'[t] = "watch" <=> pc[t] = "sample"
      /\ pc'[t] = "count" <=> pc[t] = "watch"
  BY <1>1, FlagMoves
<1>7. /\ \A u \in Thread \ {t} : is_samplechoice'[u] = is_samplechoice[u]
      /\ is_samplechoice[t] => is_samplechoice'[t] \/ pc[t] = "count"
      /\ pc'[t] \in {"sample", "watch", "count"} => is_samplechoice'[t]
  BY <1>1, ChoiceMoves
\* Where another thread holds the lock, t changes neither counts nor the choices made.
<1>8. ASSUME NEW u \in Thread \ {t}, pc'[u] \in {"reset", "drop"}
      PROVE  /\ Count' = Count /\ active_samples' = active_samples
             /\ pc[t] \notin {"reset", "watch", "count"} /\ pc[u] = pc'[u]
  BY <1>2, <1>3, <1>5, <1>6, <1>8 DEF Locked
<1>9. Mutex'
  BY <1>1, MutexStep
<1>10. Leaving'
  <2>1. ASSUME NEW u \in Thread, pc'[u] \in {"reset", "drop"}
        PROVE  Count' = 0 /\ active_samples' > 0
    <3>1. CASE u = t /\ pc'[t] = "reset"
      BY <1>4, <1>6, <3>1
    <3>2. CASE u = t /\ pc'[t] = "drop"
      BY <1>1, <1>2, <1>4, <1>6, <3>2 DEF Leaving
    <3>3. CASE u # t
      BY <1>1, <1>8, <2>1, <3>3 DEF Leaving
    <3> QED
      BY <2>1, <3>1, <3>2, <3>3
  <2> QED
    BY <2>1 DEF Leaving, Count
<1>11. Watched'
  <2>1. ASSUME Count' # 0 PROVE sampling' = 1 \/ \E u \in Thread : pc'[u] = "watch"
    <3>1. CASE pc[t] = "sample"
      BY <1>6, <3>1
    <3>2. CASE pc[t] # "sample"
      <4>1. Count # 0 /\ pc[t] # "reset"
        BY <1>1, <1>2, <2>1, <3>2 DEF Leaving
      <4>2. sampling = 1 \/ \E u \in Thread : pc[u] = "watch"
        BY <1>1, <4>1 DEF Watched, At
      <4> QED
        BY <1>3, <1>6, <4>1, <4>2
    <3> QED
      BY <3>1, <3>2
  <2> QED
    BY <2>1 DEF Watched, At, Count
<1>12. Counts'
  <2> DEFINE busy == \E u \in Thread : pc[u] \in {"watch", "count"}
             busyNext == \E u \in Thread : pc'[u] \in {"watch", "count"}
  <2>1. active_samples + (IF busy THEN 1 ELSE 0) >= Count
    BY <1>1 DEF Counts, At
  <2>2. pc[t] = "sample" => ~busy /\ busyNext
    BY <1>5, <1>6 DEF Locked
  <2>3. pc[t] = "watch" => busyNext
    BY <1>6
  <2>4. busy /\ pc[t] \notin {"watch", "count"} => busyNext
    BY <1>3
  <2>5. pc[t] = "drop" => Count = 0
    BY <1>1 DEF Leaving
  <2> HIDE DEF busy, busyNext
  <2>6. active_samples' + (IF busyNext THEN 1 ELSE 0) >= Count'
    <3>1. CASE pc[t] = "sample"
      BY <1>2, <1>4, <1>6, <2>1, <2>2, <3>1
    <3>2. CASE pc[t] = "watch"
      BY <1>2, <1>4, <1>6, <2>1, <2>3, <3>2
    <3>3. CASE pc[t] = "count"
      BY <1>2, <1>4, <1>6, <2>1, <3>3
    <3>4. CASE pc[t] = "drop"
      <4>1. Count' = 0
        BY <1>2, <2>5, <3>4
      <4>2. active_samples' + 1 >= 0 /\ active_samples' + 0 >= 0
        BY <1>4, NotNegative
      <4>3. CASE busyNext
        BY <4>1, <4>2, <4>3
      <4>4. CASE ~busyNext
        BY <4>1, <4>2, <4>4
      <4> QED
        BY <4>3, <4>4
    <3>5. CASE pc[t] \notin {"sample", "watch", "count", "drop"}
      BY <1>2, <1>4, <1>6, <2>1, <2>4, <3>5
    <3> QED
      BY <3>1, <3>2, <3>3, <3>4, <3>5
  <2> QED
    BY <2>6 DEF Counts, At, Count, busyNext
<1>13. Choosing'
  BY <1>1, <1>3, <1>7 DEF Choosing
<1>14. Dropping'
  <2>1. ASSUME NEW u \in Thread, pc'[u] = "drop", sampling' = 1
        PROVE  \E v \in Thread : is_samplechoice'[v]
    <3>1. u # t
      BY <1>6, <2>1
    <3>2. pc[u] = "drop" /\ pc[t] \notin {"reset", "watch", "count"}
      BY <1>8, <2>1, <3>1
    <3>3. CASE sampling = 1
      <4>1. \E v \in Thread : is_samplechoice[v]
        BY <1>1, <3>2, <3>3 DEF Dropping, Pending
      <4> QED
        BY <1>7, <3>2, <4>1
    <3>4. CASE sampling # 1
      BY <1>6, <2>1, <3>2, <3>4
    <3> QED
      BY <3>3, <3>4
  <2> QED
    BY <2>1 DEF Dropping, Pending
<1>15. SamplingHasACause'
  <2>1. ASSUME sampling' = 1
        PROVE  active_samples' > 0 \/ \E v \in Thread : is_samplechoice'[v]
    <3>1. CASE pc[t] = "watch"
      BY <1>1, <1>7, <3>1 DEF Choosing
    <3>2. CASE pc[t] = "count"
      BY <1>4, <1>6, <3>2
    <3>3. CASE pc[t] = "drop" /\ sampling = 1
      <4>1. \E v \in Thread : is_samplechoice[v]
        BY <1>1, <3>3 DEF Dropping, Pending
      <4> QED
        BY <1>7, <3>3, <4>1
    <3>4. CASE pc[t] \notin {"watch", "count", "drop"} /\ sampling = 1
      <4>1. active_samples > 0 \/ \E v \in Thread : is_samplechoice[v]
        BY <1>1, <3>4 DEF SamplingHasACause, Pending
      <4> QED
        BY <1>6, <1>7, <3>4, <4>1
    <3>5. CASE pc[t] # "watch" /\ sampling # 1
      BY <1>6, <2>1, <3>5
    <3> QED
      BY <3>1, <3>2, <3>3, <3>4, <3>5
  <2> QED
    BY <2>1 DEF SamplingHasACause, Pending
<1> QED
  BY <1>9, <1>10, <1>11, <1>12, <1>13, <1>14, <1>15 DEF ControlInv

LEMMA InvInit == Init => Inv
<1> SUFFICES ASSUME Init PROVE Inv
  OBVIOUS
<1>1. PICK type \in StackType, limit \in Limits : sampler = NewSampler(type, limit)
  BY DEF Init
<1>2. sampler \in Sampler /\ Accounted(sampler) /\ Count = 0
  BY <1>1, NewIsTyped DEF Count
<1>3. /\ sampling = 0 /\ active_samples = 0 /\ sampler_lock = Free
      /\ is_samplechoice = [t \in Thread |-> FALSE] /\ samplechoice = [t \in Thread |-> 0]
      /\ refs_left = [t \in Thread |-> 0] /\ ref = [t \in Thread |-> NoRef]
      /\ pc = [t \in Thread |-> "new"]
  BY DEF Init
<1>4. is_samplechoice \in [Thread -> BOOLEAN]
  BY <1>3
<1>5. Typed
  BY <1>2, <1>3, <1>4, PerRefAssumption DEF Typed, TypeOK, Control
<1>6. Mutex
  BY <1>3, SampledAssumption DEF Mutex, Locked, Free
<1>7. Leaving /\ Watched /\ Choosing /\ Dropping /\ SamplingHasACause
  BY <1>2, <1>3 DEF Leaving, Watched, Choosing, Dropping, SamplingHasACause
<1>8. Counts
  <2>1. ~At({"watch", "count"})
    BY <1>3 DEF At
  <2> QED
    BY <1>2, <1>3, <2>1 DEF Counts
<1> QED
  BY <1>2, <1>5, <1>6, <1>7, <1>8 DEF Inv, ControlInv

LEMMA FiniStep == Inv /\ Fini => Inv'
<1> SUFFICES ASSUME Inv, Fini PROVE Inv'
  OBVIOUS
<1>1. /\ TypeOK /\ Typed /\ Mutex /\ SamplingHasACause
      /\ sampler \in Sampler /\ Accounted(sampler)
  BY DEF Inv, ControlInv, Typed, TypeOK
<1>2. sampler' = RecordLeftovers(sampler)
  BY DEF Fini
<1>3. sampler' \in Sampler /\ Accounted(sampler)' /\ Count' = 0
  <2>1. /\ sampler' \in Sampler /\ Accounted(sampler')
        /\ sampler'.global_tracked_address_count_ = 0
    BY <1>1, <1>2, LeftoversAreAccounted
  <2> QED
    BY <2>1 DEF Accounted, OwnAccount, Tracked, Samples, Count
<1>4. /\ pc' = [t \in Thread |-> "exited"] /\ \A t \in Thread : pc[t] \in {"new", "app"}
      /\ UNCHANGED <<sampling, active_samples, sampler_lock>>
      /\ UNCHANGED <<is_samplechoice, samplechoice, refs_left, ref>>
  BY DEF Fini, globalVars
<1>5. Typed'
  BY <1>1, <1>3, <1>4 DEF Typed, TypeOK, Control
<1>6. Mutex'
  BY <1>1, <1>4 DEF Mutex, Locked
<1>7. Leaving' /\ Watched' /\ Choosing' /\ Dropping'
  BY <1>3, <1>4 DEF Leaving, Watched, Choosing, Dropping, Count
<1>8. SamplingHasACause'
  BY <1>1, <1>4 DEF SamplingHasACause, Pending
<1>9. Counts'
  <2>1. ~At({"watch", "count"})' /\ active_samples' \in Nat
    BY <1>1, <1>4 DEF At, TypeOK
  <2>2. active_samples' + 0 >= 0
    BY <2>1, NotNegative
  <2> QED
    BY <1>3, <2>1, <2>2 DEF Counts
<1> QED
  BY <1>3, <1>5, <1>6, <1>7, <1>8, <1>9 DEF Inv, ControlInv

LEMMA StutterStep == Inv /\ UNCHANGED vars => Inv'
BY DEF Inv, ControlInv, Typed, TypeOK, Accounted, OwnAccount, Tracked, Samples, Mutex, Leaving,
       Watched, Counts, Choosing, Dropping, SamplingHasACause, Pending, At, Count, vars,
       globalVars, threadVars

THEOREM Invariance == Spec => []Inv
<1>1. Inv /\ [Next]_vars => Inv'
  <2>1. ASSUME Inv, NEW t \in Thread, ThreadStep(t) PROVE Inv'
    BY <2>1, TypedStep, ControlStep DEF Inv
  <2> QED
    BY <2>1, FiniStep, StutterStep DEF Next
<1> QED
  BY <1>1, InvInit, PTL DEF Spec

-----------------------------------------------------------------------------
(* The list of what the threads of a map used                              *)

\* Blocks, marks and holes, of which only holes are there more than once.
Entries == {Hole} \cup {Entry(kind, b) : kind \in {"block", "mark"}, b \in Block}
IsList(list) ==
  /\ list \in Seq(Entries)
  /\ \A i, j \in 1 .. Len(list) : list[i] = list[j] /\ list[i] # Hole => i = j

HasMark(list, b) == \E i \in 1 .. Len(list) : list[i] = Entry("mark", b)

\* What is among the first n entries is what this sample is to have.
BlocksTo(list, n) == {b \in Block : \E i \in 1 .. n : list[i] = Entry("block", b)}
HolesTo(list, n) == {i \in 1 .. n : list[i] = Hole}
Agree(list, n, sample) ==
  sample.set = BlocksTo(list, n) /\ sample.hole_count = Cardinality(HolesTo(list, n))
Shows(list, b, sample) ==
  \E n \in 1 .. Len(list) : list[n] = Entry("mark", b) /\ Agree(list, n, sample)

LEMMA LeastOf ==
  ASSUME NEW T, T \subseteq Nat, T # {}
  PROVE  \E m \in T : \A k \in T : m <= k
<1> DEFINE Less == OpToRel(<, Nat)
<1>1. \A x, y \in Nat : x < y => <<x, y>> \in Less
  BY DEF OpToRel
<1>2. IsWellFoundedOn(Less, Nat)
  BY NatLessThanWellFounded
<1> HIDE DEF Less
<1>3. PICK m \in T : \A k \in T : ~ (<<k, m>> \in Less)
  BY <1>2, WFMin
<1>4. \A k \in T : ~ (k < m)
  BY <1>1, <1>3
<1>5. m \in Nat /\ \A k \in T : k \in Nat
  OBVIOUS
<1> QED
  BY <1>4, <1>5

\* A set of numbers with 0 and the successor of each of its members has them all.
LEMMA Successors ==
  ASSUME NEW Good, 0 \in Good, \A n \in Nat : n \in Good => n + 1 \in Good
  PROVE  Nat \subseteq Good
<1> SUFFICES ASSUME Nat \ Good # {} PROVE FALSE
  OBVIOUS
<1>1. PICK m \in Nat \ Good : \A k \in Nat \ Good : m <= k
  BY LeastOf
<1>2. m # 0
  OBVIOUS
<1>3. m - 1 \in Nat /\ (m - 1) + 1 = m /\ ~ (m <= m - 1)
  BY <1>2
<1> QED
  BY <1>1, <1>3

LEMMA EntryKinds ==
  /\ \A b, c \in Block : /\ Entry("block", b) # Entry("mark", c)
                         /\ Entry("block", b) # Hole /\ Entry("mark", b) # Hole
                         /\ Entry("block", b) = Entry("block", c) => b = c
                         /\ Entry("mark", b) = Entry("mark", c) => b = c
  /\ \A b \in Block : /\ IsMark(Entry("mark", b)) /\ ~IsMark(Entry("block", b))
                      /\ Entry("mark", b)[2] = b /\ Entry("block", b)[2] = b
                      /\ Entry("block", b) \in Entries /\ Entry("mark", b) \in Entries
  /\ ~IsMark(Hole) /\ Hole \in Entries
<1>1. \A b, c \in Block : /\ Entry("block", b) # Entry("mark", c)
                          /\ Entry("block", b) # Hole /\ Entry("mark", b) # Hole
                          /\ Entry("block", b) = Entry("block", c) => b = c
                          /\ Entry("mark", b) = Entry("mark", c) => b = c
  BY DEF Entry, Hole
<1>2. \A b \in Block : /\ IsMark(Entry("mark", b)) /\ ~IsMark(Entry("block", b))
                       /\ Entry("mark", b)[2] = b /\ Entry("block", b)[2] = b
  BY DEF Entry, IsMark
<1>3. \A b \in Block : Entry("block", b) \in Entries /\ Entry("mark", b) \in Entries
  BY DEF Entries
<1>4. ~IsMark(Hole) /\ Hole \in Entries
  BY DEF Hole, Entry, IsMark, Entries
<1> QED
  BY <1>1, <1>2, <1>3, <1>4

LEMMA EntryCases ==
  \A e \in Entries : \/ e = Hole
                     \/ \E b \in Block : e = Entry("block", b)
                     \/ \E b \in Block : e = Entry("mark", b)
BY DEF Entries

LEMMA ListFacts ==
  ASSUME NEW list, IsList(list)
  PROVE  /\ Len(list) \in Nat /\ DOMAIN list = 1 .. Len(list)
         /\ \A i \in 1 .. Len(list) : list[i] \in Entries
         /\ \A i, j \in 1 .. Len(list) : list[i] = list[j] /\ list[i] # Hole => i = j
BY DEF IsList

LEMMA HolesAreFinite ==
  ASSUME NEW list, NEW n \in Nat
  PROVE  /\ IsFiniteSet(HolesTo(list, n)) /\ Cardinality(HolesTo(list, n)) \in Nat
         /\ HolesTo(list, n) \subseteq 1 .. n
<1>1. HolesTo(list, n) \subseteq 1 .. n
  BY DEF HolesTo
<1>2. IsFiniteSet(1 .. n)
  BY FS_Interval
<1>3. IsFiniteSet(HolesTo(list, n))
  BY <1>1, <1>2, FS_Subset
<1> QED
  BY <1>1, <1>3, FS_CardinalityType

\* Marks are not counted.
LEMMA MarksDoNotCount ==
  ASSUME NEW list, IsList(list), NEW n \in 1 .. Len(list), NEW b \in Block,
         list[n] = Entry("mark", b)
  PROVE  BlocksTo(list, n) = BlocksTo(list, n - 1) /\ HolesTo(list, n) = HolesTo(list, n - 1)
<1>1. \A i \in 1 .. n : i = n \/ i \in 1 .. n - 1
  BY ListFacts
<1>2. 1 .. n - 1 \subseteq 1 .. n
  BY ListFacts
<1>3. list[n] # Hole /\ \A c \in Block : list[n] # Entry("block", c)
  BY EntryKinds
<1> QED
  BY <1>1, <1>2, <1>3 DEF BlocksTo, HolesTo

\* As many places, numbered otherwise.
LEMMA Renumbered ==
  ASSUME NEW S, IsFiniteSet(S), NEW T, NEW f \in [S -> T],
         \A x, y \in S : f[x] = f[y] => x = y,
         \A z \in T : \E x \in S : f[x] = z
  PROVE  Cardinality(T) = Cardinality(S)
<1>1. f \in Injection(S, T)
  BY DEF Injection, IsInjective
<1>2. f \in Surjection(S, T)
  BY DEF Surjection
<1>3. ExistsBijection(S, T)
  BY <1>1, <1>2 DEF ExistsBijection, Bijection
<1> QED
  BY <1>3, FS_Bijection

\* An entry on top.
LEMMA OnTop ==
  ASSUME NEW list, IsList(list), NEW e \in Entries, e # Hole,
         \A i \in 1 .. Len(list) : list[i] # e
  PROVE  /\ IsList(Cons(e, list)) /\ Len(Cons(e, list)) = Len(list) + 1
         /\ Cons(e, list)[1] = e
         /\ \A n \in 1 .. Len(list) :
              /\ Cons(e, list)[n + 1] = list[n]
              /\ BlocksTo(Cons(e, list), n + 1)
                   = BlocksTo(list, n) \cup {b \in Block : e = Entry("block", b)}
              /\ Cardinality(HolesTo(Cons(e, list), n + 1)) = Cardinality(HolesTo(list, n))
<1> DEFINE new == Cons(e, list)
<1>1. list \in Seq(Entries) /\ Len(list) \in Nat
  BY DEF IsList
<1>2. /\ new \in Seq(Entries) /\ Len(new) = Len(list) + 1 /\ new[1] = e
      /\ \A i \in 1 .. Len(list) : new[i + 1] = list[i]
  BY <1>1 DEF Cons
<1> HIDE DEF new
<1>3. \A i \in 1 .. Len(new) : i = 1 \/ (i - 1 \in 1 .. Len(list) /\ new[i] = list[i - 1])
  <2> SUFFICES ASSUME NEW i \in 1 .. Len(new), i # 1
               PROVE  i - 1 \in 1 .. Len(list) /\ new[i] = list[i - 1]
    OBVIOUS
  <2>1. i - 1 \in 1 .. Len(list) /\ (i - 1) + 1 = i
    BY <1>1, <1>2
  <2> QED
    BY <1>2, <2>1
<1>4. \A i, j \in 1 .. Len(new) : new[i] = new[j] /\ new[i] # Hole => i = j
  <2> SUFFICES ASSUME NEW i \in 1 .. Len(new), NEW j \in 1 .. Len(new), new[i] = new[j],
                      new[i] # Hole
               PROVE  i = j
    OBVIOUS
  <2>1. CASE i = 1 \/ j = 1
    BY <1>2, <1>3, <2>1
  <2>2. CASE i # 1 /\ j # 1
    <3>1. i - 1 = j - 1
      BY <1>3, <2>2, ListFacts
    <3> QED
      BY <1>1, <1>2, <3>1
  <2> QED
    BY <2>1, <2>2
<1>5. IsList(new)
  BY <1>2, <1>4 DEF IsList
<1>6. ASSUME NEW n \in 1 .. Len(list)
      PROVE  /\ BlocksTo(new, n + 1) = BlocksTo(list, n) \cup {b \in Block : e = Entry("block", b)}
             /\ Cardinality(HolesTo(new, n + 1)) = Cardinality(HolesTo(list, n))
  <2>1. n \in Nat /\ 1 .. n \subseteq 1 .. Len(list) /\ 1 .. n + 1 \subseteq 1 .. Len(new)
        /\ 1 \in 1 .. n + 1
    BY <1>1, <1>2
  <2>2. \A i \in 1 .. n + 1 : i # 1 => i - 1 \in 1 .. n
    BY <2>1
  <2>3. \A i \in 1 .. n : i + 1 \in 1 .. n + 1
    BY <2>1
  <2>4. BlocksTo(new, n + 1) \subseteq BlocksTo(list, n) \cup {b \in Block : e = Entry("block", b)}
    BY <1>2, <1>3, <2>1, <2>2 DEF BlocksTo
  <2>5. BlocksTo(list, n) \cup {b \in Block : e = Entry("block", b)} \subseteq BlocksTo(new, n + 1)
    BY <1>2, <2>1, <2>3 DEF BlocksTo
  <2> DEFINE f == [i \in HolesTo(list, n) |-> i + 1]
  <2>6. f \in [HolesTo(list, n) -> HolesTo(new, n + 1)]
    BY <1>2, <2>1, <2>3 DEF HolesTo
  <2>7. \A x, y \in HolesTo(list, n) : f[x] = f[y] => x = y
    BY DEF HolesTo
  <2>8. \A z \in HolesTo(new, n + 1) : \E x \in HolesTo(list, n) : f[x] = z
    <3> SUFFICES ASSUME NEW z \in HolesTo(new, n + 1)
                 PROVE  \E x \in HolesTo(list, n) : f[x] = z
      OBVIOUS
    <3>1. z \in 1 .. n + 1 /\ new[z] = Hole
      BY DEF HolesTo
    <3>2. z # 1
      BY <1>2, <3>1
    <3>3. z - 1 \in 1 .. n /\ list[z - 1] = Hole
      BY <1>3, <2>1, <2>2, <3>1, <3>2
    <3>4. z - 1 \in HolesTo(list, n) /\ (z - 1) + 1 = z
      BY <3>1, <3>3 DEF HolesTo
    <3> QED
      BY <3>4
  <2> HIDE DEF f
  <2>9. Cardinality(HolesTo(new, n + 1)) = Cardinality(HolesTo(list, n))
    BY <2>1, <2>6, <2>7, <2>8, Renumbered, HolesAreFinite
  <2> QED
    BY <2>4, <2>5, <2>9
<1> QED
  BY <1>2, <1>5, <1>6 DEF new

LEMMA Joined ==
  ASSUME NEW S, NEW s \in Seq(S), NEW t \in Seq(S)
  PROVE  /\ s \o t \in Seq(S) /\ Len(s \o t) = Len(s) + Len(t)
         /\ \A i \in 1 .. Len(s) + Len(t) :
              (s \o t)[i] = IF i <= Len(s) THEN s[i] ELSE t[i - Len(s)]
OBVIOUS

\* An entry that is not a mark is taken out.
LEMMA TakenOut ==
  ASSUME NEW list, IsList(list), NEW p \in 1 .. Len(list), ~IsMark(list[p])
  PROVE  /\ IsList(RemoveAt(list, p)) /\ Len(RemoveAt(list, p)) = Len(list) - 1
         /\ \A n \in 1 .. p - 1 :
              /\ RemoveAt(list, p)[n] = list[n]
              /\ BlocksTo(RemoveAt(list, p), n) = BlocksTo(list, n)
              /\ HolesTo(RemoveAt(list, p), n) = HolesTo(list, n)
         /\ \A n \in p + 1 .. Len(list) :
              /\ RemoveAt(list, p)[n - 1] = list[n]
              /\ BlocksTo(RemoveAt(list, p), n - 1)
                   = BlocksTo(list, n) \ {b \in Block : list[p] = Entry("block", b)}
              /\ Cardinality(HolesTo(RemoveAt(list, p), n - 1))
                   = Cardinality(HolesTo(list, n) \ {p})
<1> DEFINE new == RemoveAt(list, p)
           N == Len(list)
           old(i) == IF i < p THEN i ELSE i + 1
<1>1. list \in Seq(Entries) /\ N \in Nat
  BY DEF IsList
<1>2. new \in Seq(Entries) /\ Len(new) = N - 1
      /\ \A i \in 1 .. N - 1 : new[i] = list[old(i)]
  <2> DEFINE above == SubSeq(list, 1, p - 1)
             below == SubSeq(list, p + 1, N)
  <2>1. above \in Seq(Entries) /\ Len(above) = p - 1 /\ \A i \in 1 .. p - 1 : above[i] = list[i]
    BY <1>1
  <2>2. below \in Seq(Entries) /\ Len(below) = N - p
        /\ \A i \in 1 .. N - p : below[i] = list[p + i]
    BY <1>1
  <2>3. new = above \o below
    BY DEF RemoveAt
  <2> HIDE DEF above, below, new
  <2>4. /\ above \o below \in Seq(Entries)
        /\ Len(above \o below) = Len(above) + Len(below)
        /\ \A i \in 1 .. Len(above) + Len(below) :
             (above \o below)[i] = IF i <= Len(above) THEN above[i] ELSE below[i - Len(above)]
    BY <2>1, <2>2, Joined
  <2>5. new \in Seq(Entries) /\ Len(new) = N - 1
    BY <1>1, <2>1, <2>2, <2>3, <2>4
  <2>6. ASSUME NEW i \in 1 .. N - 1 PROVE new[i] = list[old(i)]
    <3>1. CASE i < p
      <4>1. i \in 1 .. p - 1 /\ i <= Len(above) /\ i \in 1 .. Len(above) + Len(below)
        BY <1>1, <2>1, <2>2, <3>1
      <4> QED
        BY <2>1, <2>3, <2>4, <3>1, <4>1
    <3>2. CASE ~(i < p)
      <4>1. /\ ~(i <= Len(above)) /\ i \in 1 .. Len(above) + Len(below)
            /\ i - Len(above) \in 1 .. N - p /\ p + (i - Len(above)) = i + 1
        BY <1>1, <2>1, <2>2, <3>2
      <4> QED
        BY <2>2, <2>3, <2>4, <3>2, <4>1
    <3> QED
      BY <3>1, <3>2
  <2> QED
    BY <2>5, <2>6
<1> HIDE DEF new
<1>3. \A i \in 1 .. N - 1 : old(i) \in 1 .. N /\ old(i) # p
  BY <1>1
<1>4. \A i, j \in 1 .. N - 1 : old(i) = old(j) => i = j
  BY <1>1
<1>5. \A i, j \in 1 .. Len(new) : new[i] = new[j] /\ new[i] # Hole => i = j
  <2> SUFFICES ASSUME NEW i \in 1 .. N - 1, NEW j \in 1 .. N - 1, new[i] = new[j], new[i] # Hole
               PROVE  i = j
    BY <1>2
  <2>1. old(i) \in 1 .. N /\ old(j) \in 1 .. N
    BY <1>3
  <2>2. new[i] = list[old(i)] /\ new[j] = list[old(j)]
    BY <1>2
  <2> HIDE DEF old
  <2>3. old(i) = old(j)
    BY <2>1, <2>2, ListFacts
  <2> QED
    BY <1>4, <2>3
<1>6. IsList(new)
  BY <1>2, <1>5 DEF IsList
<1>7. ASSUME NEW n \in 1 .. p - 1
      PROVE  /\ new[n] = list[n]
             /\ BlocksTo(new, n) = BlocksTo(list, n) /\ HolesTo(new, n) = HolesTo(list, n)
  <2>1. \A i \in 1 .. n : i \in 1 .. N - 1 /\ old(i) = i
    BY <1>1
  <2>2. \A i \in 1 .. n : new[i] = list[i]
    BY <1>2, <2>1
  <2>3. n \in 1 .. n
    BY <1>1
  <2> QED
    BY <2>2, <2>3 DEF BlocksTo, HolesTo
<1>8. ASSUME NEW n \in p + 1 .. N
      PROVE  /\ new[n - 1] = list[n]
             /\ BlocksTo(new, n - 1)
                  = BlocksTo(list, n) \ {b \in Block : list[p] = Entry("block", b)}
             /\ Cardinality(HolesTo(new, n - 1)) = Cardinality(HolesTo(list, n) \ {p})
  <2>1. /\ n - 1 \in 1 .. N - 1 /\ n \in Nat /\ n - 1 \in Nat /\ 1 .. n - 1 \subseteq 1 .. N - 1
        /\ old(n - 1) = n /\ 1 .. n \subseteq 1 .. N /\ p \in 1 .. N
    BY <1>1
  <2>2. \A i \in 1 .. n - 1 : new[i] = list[old(i)] /\ old(i) \in 1 .. n /\ old(i) # p
    <3>1. \A i \in 1 .. n - 1 : old(i) \in 1 .. n /\ old(i) # p
      BY <1>1
    <3> QED
      BY <1>2, <2>1, <3>1
  <2>3. \A j \in 1 .. n : j # p => \E i \in 1 .. n - 1 : old(i) = j
    <3> SUFFICES ASSUME NEW j \in 1 .. n, j # p PROVE \E i \in 1 .. n - 1 : old(i) = j
      OBVIOUS
    <3>1. CASE j < p
      <4>1. j \in 1 .. n - 1 /\ old(j) = j
        BY <1>1, <3>1
      <4> QED
        BY <4>1
    <3>2. CASE ~(j < p)
      <4>1. j - 1 \in 1 .. n - 1 /\ old(j - 1) = j
        BY <1>1, <3>2
      <4> QED
        BY <4>1
    <3> QED
      BY <3>1, <3>2
  <2>4. new[n - 1] = list[n]
    BY <1>2, <2>1
  <2> DEFINE f == [i \in HolesTo(new, n - 1) |-> old(i)]
  <2>5. f \in [HolesTo(new, n - 1) -> HolesTo(list, n) \ {p}]
    BY <2>2 DEF HolesTo
  <2>6. \A x, y \in HolesTo(new, n - 1) : f[x] = f[y] => x = y
    <3>1. HolesTo(new, n - 1) \subseteq 1 .. N - 1
      BY <2>1 DEF HolesTo
    <3> QED
      BY <1>4, <3>1
  <2> HIDE DEF old
  <2>7. \A z \in HolesTo(list, n) \ {p} : \E x \in HolesTo(new, n - 1) : f[x] = z
    BY <2>2, <2>3 DEF HolesTo
  <2> HIDE DEF f
  <2>8. Cardinality(HolesTo(new, n - 1)) = Cardinality(HolesTo(list, n) \ {p})
    <3>1. IsFiniteSet(HolesTo(new, n - 1))
      BY <2>1, HolesAreFinite
    <3> QED
      BY <2>5, <2>6, <2>7, <3>1, Renumbered
  <2>9. BlocksTo(new, n - 1) \subseteq BlocksTo(list, n)
    BY <2>2 DEF BlocksTo
  <2>10. \A b \in BlocksTo(new, n - 1) : list[p] # Entry("block", b)
    <3> SUFFICES ASSUME NEW b \in Block, NEW i \in 1 .. n - 1, new[i] = Entry("block", b),
                        list[p] = Entry("block", b)
                 PROVE  FALSE
      BY DEF BlocksTo
    <3>1. list[old(i)] = list[p] /\ list[p] # Hole /\ old(i) \in 1 .. N /\ old(i) # p
      BY <2>1, <2>2, EntryKinds
    <3> QED
      BY <3>1, ListFacts
  <2>11. BlocksTo(list, n) \ {b \in Block : list[p] = Entry("block", b)} \subseteq BlocksTo(new, n - 1)
    BY <2>2, <2>3 DEF BlocksTo
  <2> QED
    BY <2>4, <2>8, <2>9, <2>10, <2>11 DEF BlocksTo
<1> HIDE DEF old
<1> QED
  BY <1>2, <1>6, <1>7, <1>8 DEF new

\* A block leaves a hole.
LEMMA LeftHole ==
  ASSUME NEW list, IsList(list), NEW a \in Block, NEW p \in 1 .. Len(list),
         list[p] = Entry("block", a), NEW new,
         new = [i \in DOMAIN list |-> IF i = p THEN Hole ELSE list[i]]
  PROVE  /\ IsList(new) /\ Len(new) = Len(list)
         /\ new[p] = Hole /\ \A n \in 1 .. Len(list) : n # p => new[n] = list[n]
         /\ \A n \in 1 .. Len(list) :
              /\ n < p => /\ BlocksTo(new, n) = BlocksTo(list, n)
                          /\ HolesTo(new, n) = HolesTo(list, n)
              /\ n >= p => /\ BlocksTo(new, n) = BlocksTo(list, n) \ {a}
                           /\ HolesTo(new, n) = HolesTo(list, n) \cup {p}
                           /\ Cardinality(HolesTo(new, n)) = Cardinality(HolesTo(list, n)) + 1
<1>1. list \in Seq(Entries) /\ Len(list) \in Nat /\ DOMAIN list = 1 .. Len(list)
      /\ \A i \in 1 .. Len(list) : list[i] \in Entries
  BY DEF IsList
<1>2. \A i \in 1 .. Len(list) : new[i] = IF i = p THEN Hole ELSE list[i]
  BY <1>1
<1>3. new \in Seq(Entries) /\ Len(new) = Len(list)
  <2>1. new \in [1 .. Len(list) -> Entries]
    BY <1>1, EntryKinds
  <2> QED
    BY <1>1, <2>1
<1>4. IsList(new)
  <2>1. \A i, j \in 1 .. Len(list) : new[i] = new[j] /\ new[i] # Hole => i = j
    BY <1>2, ListFacts
  <2> QED
    BY <1>3, <2>1 DEF IsList
<1>5. ASSUME NEW n \in 1 .. Len(list)
      PROVE  /\ n < p => /\ BlocksTo(new, n) = BlocksTo(list, n)
                         /\ HolesTo(new, n) = HolesTo(list, n)
             /\ n >= p => /\ BlocksTo(new, n) = BlocksTo(list, n) \ {a}
                          /\ HolesTo(new, n) = HolesTo(list, n) \cup {p}
                          /\ Cardinality(HolesTo(new, n)) = Cardinality(HolesTo(list, n)) + 1
  <2>1. n \in Nat /\ 1 .. n \subseteq 1 .. Len(list)
    BY <1>1
  <2>2. CASE n < p
    <3>1. \A i \in 1 .. n : new[i] = list[i]
      BY <1>2, <2>1, <2>2
    <3> QED
      BY <1>1, <2>2, <3>1 DEF BlocksTo, HolesTo
  <2>3. CASE n >= p
    <3>1. p \in 1 .. n
      BY <1>1, <2>3
    <3>2. \A b \in Block : Entry("block", b) # Hole /\ (list[p] = Entry("block", b) <=> b = a)
      BY EntryKinds
    <3>3. BlocksTo(new, n) \subseteq BlocksTo(list, n) \ {a}
      <4> SUFFICES ASSUME NEW b \in Block, NEW i \in 1 .. n, new[i] = Entry("block", b)
                   PROVE  list[i] = Entry("block", b) /\ b # a
        BY DEF BlocksTo
      <4>1. i # p /\ i \in 1 .. Len(list) /\ p \in 1 .. Len(list)
        BY <1>2, <2>1, <3>2
      <4>2. list[i] = Entry("block", b) /\ list[i] # Hole
        BY <1>2, <3>2, <4>1
      <4> QED
        BY <4>1, <4>2, ListFacts
    <3>4. BlocksTo(list, n) \ {a} \subseteq BlocksTo(new, n)
      BY <1>2, <2>1, <3>2 DEF BlocksTo
    <3>5. HolesTo(new, n) = HolesTo(list, n) \cup {p} /\ p \notin HolesTo(list, n)
      BY <1>2, <2>1, <3>1, EntryKinds DEF HolesTo
    <3>6. Cardinality(HolesTo(new, n)) = Cardinality(HolesTo(list, n)) + 1
      <4>1. IsFiniteSet(HolesTo(list, n))
        BY <2>1, HolesAreFinite
      <4> QED
        BY <3>5, <4>1, FS_AddElement
    <3> QED
      BY <1>1, <2>3, <3>3, <3>4, <3>5, <3>6
  <2> QED
    BY <1>1, <2>2, <2>3
<1> QED
  BY <1>2, <1>3, <1>4, <1>5

\* Another cache's write does to every sample what WithHole says.
LEMMA SnoopedEffect ==
  ASSUME NEW list, IsList(list), NEW a \in Block
  PROVE  /\ IsList(Snooped(list, a))
         /\ \A b \in Block : HasMark(Snooped(list, a), b) <=> HasMark(list, b)
         /\ \A b \in Block, sample \in Sample :
              Shows(list, b, sample) => Shows(Snooped(list, a), b, WithHole(sample, a))
<1> DEFINE new == Snooped(list, a)
<1>1. DOMAIN list = 1 .. Len(list) /\ Len(list) \in Nat
  BY ListFacts
<1>2. CASE \A i \in 1 .. Len(list) : list[i] # Entry("block", a)
  <2>1. new = list
    <3>1. new = [i \in DOMAIN list |-> list[i]]
      BY <1>1, <1>2 DEF Snooped
    <3> QED
      BY <3>1 DEF IsList
  <2>2. ASSUME NEW sample \in Sample, NEW b \in Block, Shows(list, b, sample)
        PROVE  WithHole(sample, a) = sample
    <3>1. PICK n \in 1 .. Len(list) : Agree(list, n, sample)
      BY <2>2 DEF Shows
    <3>2. a \notin sample.set
      BY <1>1, <1>2, <3>1 DEF Agree, BlocksTo
    <3> QED
      BY <3>2 DEF WithHole
  <2> QED
    BY <2>1, <2>2
<1>3. CASE \E i \in 1 .. Len(list) : list[i] = Entry("block", a)
  <2>1. PICK p \in 1 .. Len(list) : list[p] = Entry("block", a)
    BY <1>3
  <2>2. \A i \in 1 .. Len(list) : list[i] = Entry("block", a) <=> i = p
    BY <2>1, ListFacts, EntryKinds
  <2>3. new = [i \in DOMAIN list |-> IF i = p THEN Hole ELSE list[i]]
    BY <1>1, <2>2 DEF Snooped
  <2> HIDE DEF new
  <2>4. /\ IsList(new) /\ Len(new) = Len(list)
        /\ new[p] = Hole /\ \A n \in 1 .. Len(list) : n # p => new[n] = list[n]
        /\ \A n \in 1 .. Len(list) :
              /\ n < p => /\ BlocksTo(new, n) = BlocksTo(list, n)
                          /\ HolesTo(new, n) = HolesTo(list, n)
              /\ n >= p => /\ BlocksTo(new, n) = BlocksTo(list, n) \ {a}
                           /\ Cardinality(HolesTo(new, n)) = Cardinality(HolesTo(list, n)) + 1
    BY <2>1, <2>3, LeftHole
  <2>5. \A n \in 1 .. Len(list), b \in Block :
          new[n] = Entry("mark", b) <=> list[n] = Entry("mark", b)
    BY <2>1, <2>4, EntryKinds
  <2>6. ASSUME NEW b \in Block, NEW sample \in Sample, Shows(list, b, sample)
        PROVE  Shows(new, b, WithHole(sample, a))
    <3>1. PICK n \in 1 .. Len(list) : list[n] = Entry("mark", b) /\ Agree(list, n, sample)
      BY <2>6 DEF Shows
    <3>2. n \in 1 .. Len(new) /\ new[n] = Entry("mark", b)
      BY <2>4, <2>5, <3>1
    <3>3. sample.hole_count \in Nat
      BY DEF Sample
    <3>4. CASE n < p
      <4>1. a \notin BlocksTo(list, n)
        BY <1>1, <2>2, <3>4 DEF BlocksTo
      <4>2. WithHole(sample, a) = sample
        BY <3>1, <4>1 DEF Agree, WithHole
      <4>3. Agree(new, n, sample)
        BY <2>4, <3>1, <3>4 DEF Agree
      <4> QED
        BY <3>2, <4>2, <4>3 DEF Shows
    <3>5. CASE n >= p
      <4>1. a \in BlocksTo(list, n)
        <5>1. p \in 1 .. n
          BY <1>1, <3>5
        <5> QED
          BY <2>1, <5>1 DEF BlocksTo
      <4>2. WithHole(sample, a) = [set |-> sample.set \ {a}, hole_count |-> sample.hole_count + 1]
        BY <3>1, <4>1 DEF Agree, WithHole
      <4>3. Agree(new, n, WithHole(sample, a))
        BY <2>4, <3>1, <3>5, <4>2 DEF Agree
      <4> QED
        BY <3>2, <4>3 DEF Shows
    <3> QED
      BY <1>1, <3>4, <3>5
  <2>7. \A b \in Block : HasMark(new, b) <=> HasMark(list, b)
    BY <2>4, <2>5 DEF HasMark
  <2> QED
    BY <2>4, <2>6, <2>7 DEF new
<1> QED
  BY <1>2, <1>3

\* A new sample starts with nothing above it and changes none below it.
LEMMA MarkedEffect ==
  ASSUME NEW list, IsList(list), NEW a \in Block, ~HasMark(list, a)
  PROVE  /\ IsList(Marked(list, a))
         /\ \A b \in Block : HasMark(Marked(list, a), b) <=> HasMark(list, b) \/ b = a
         /\ Shows(Marked(list, a), a, [set |-> {}, hole_count |-> 0])
         /\ \A b \in Block, sample \in Sample :
              Shows(list, b, sample) => Shows(Marked(list, a), b, sample)
<1> DEFINE e == Entry("mark", a)
           new == Cons(e, list)
<1>1. /\ e \in Entries /\ e # Hole
      /\ \A b \in Block : e # Entry("block", b) /\ (e = Entry("mark", b) <=> b = a)
  BY EntryKinds
<1>2. \A i \in 1 .. Len(list) : list[i] # e
  BY DEF HasMark
<1>3. Len(list) \in Nat
  BY ListFacts
<1> HIDE DEF e
<1>4. /\ IsList(new) /\ Len(new) = Len(list) + 1 /\ new[1] = e
      /\ \A n \in 1 .. Len(list) :
           /\ new[n + 1] = list[n]
           /\ BlocksTo(new, n + 1) = BlocksTo(list, n) \cup {b \in Block : e = Entry("block", b)}
           /\ Cardinality(HolesTo(new, n + 1)) = Cardinality(HolesTo(list, n))
  BY <1>1, <1>2, OnTop
<1> HIDE DEF new
<1>5. \A n \in 1 .. Len(new) : n = 1 \/ (n - 1 \in 1 .. Len(list) /\ (n - 1) + 1 = n)
  BY <1>3, <1>4
<1>6. \A n \in 1 .. Len(list) : n + 1 \in 1 .. Len(new)
  BY <1>3, <1>4
<1>7. 1 \in 1 .. Len(new)
  BY <1>3, <1>4
<1>8. \A b \in Block : HasMark(new, b) <=> HasMark(list, b) \/ b = a
  <2> SUFFICES ASSUME NEW b \in Block PROVE HasMark(new, b) <=> HasMark(list, b) \/ b = a
    OBVIOUS
  <2>1. ASSUME HasMark(new, b), b # a PROVE HasMark(list, b)
    <3>1. PICK i \in 1 .. Len(new) : new[i] = Entry("mark", b)
      BY <2>1 DEF HasMark
    <3>2. i # 1
      BY <1>1, <1>4, <2>1, <3>1
    <3>3. i - 1 \in 1 .. Len(list) /\ list[i - 1] = new[i]
      BY <1>4, <1>5, <3>2
    <3> QED
      BY <3>1, <3>3 DEF HasMark
  <2>2. HasMark(list, b) => HasMark(new, b)
    BY <1>4, <1>6 DEF HasMark
  <2>3. HasMark(new, a)
    BY <1>4, <1>7 DEF HasMark, e
  <2> QED
    BY <2>1, <2>2, <2>3
<1>9. Shows(new, a, [set |-> {}, hole_count |-> 0])
  <2>1. \A i \in 1 .. 1 : i = 1
    OBVIOUS
  <2>2. BlocksTo(new, 1) = {} /\ HolesTo(new, 1) = {}
    BY <1>1, <1>4, <2>1 DEF BlocksTo, HolesTo
  <2>3. Agree(new, 1, [set |-> {}, hole_count |-> 0])
    BY <2>2, FS_EmptySet DEF Agree
  <2> QED
    BY <1>4, <1>7, <2>3 DEF Shows, e
<1>10. ASSUME NEW b \in Block, NEW sample \in Sample, Shows(list, b, sample)
       PROVE  Shows(new, b, sample)
  <2>1. PICK n \in 1 .. Len(list) : list[n] = Entry("mark", b) /\ Agree(list, n, sample)
    BY <1>10 DEF Shows
  <2>2. {c \in Block : e = Entry("block", c)} = {}
    BY <1>1
  <2>3. BlocksTo(new, n + 1) = BlocksTo(list, n)
    BY <1>4, <2>2
  <2>4. Agree(new, n + 1, sample)
    BY <1>4, <2>1, <2>3 DEF Agree
  <2> QED
    BY <1>4, <1>6, <2>1, <2>4 DEF Shows
<1> QED
  BY <1>4, <1>8, <1>9, <1>10 DEF Marked, new, e

\* A reference of the owner does to every sample what WithReference says.
LEMMA TouchedEffect ==
  ASSUME NEW list, IsList(list), NEW a \in Block
  PROVE  /\ IsList(Touched(list, a))
         /\ \A b \in Block : HasMark(Touched(list, a), b) <=> HasMark(list, b)
         /\ \A b \in Block, sample \in Sample :
              Shows(list, b, sample) => Shows(Touched(list, a), b, WithReference(sample, a))
<1> DEFINE block == Entry("block", a)
           N == Len(list)
           hole == Min({N + 1} \cup Places(list, Hole))
           place == Min({N + 1} \cup Places(list, block))
           mid == IF place <= hole THEN list
                  ELSE [i \in DOMAIN list |-> IF i = place THEN Hole ELSE list[i]]
           out == IF place <= hole THEN place ELSE hole
           rest == IF out > N THEN mid ELSE RemoveAt(mid, out)
<1>1. DOMAIN list = 1 .. N /\ N \in Nat
  BY ListFacts
<1>2. /\ place \in 1 .. N + 1 /\ hole \in 1 .. N + 1
      /\ place <= N => list[place] = block
      /\ hole <= N => list[hole] = Hole
      /\ \A i \in 1 .. N : list[i] = block => place <= i
      /\ \A i \in 1 .. N : list[i] = Hole => hole <= i
  <2>1. ASSUME NEW e
        PROVE  LET m == Min({N + 1} \cup Places(list, e)) IN
               /\ m \in 1 .. N + 1 /\ (m <= N => list[m] = e)
               /\ \A i \in 1 .. N : list[i] = e => m <= i
    <3> DEFINE T == {N + 1} \cup Places(list, e)
    <3>1. T \subseteq Nat /\ T # {} /\ T \subseteq 1 .. N + 1
      BY <1>1 DEF Places
    <3>2. N + 1 \in T /\ \A i \in 1 .. N : list[i] = e => i \in T
      BY <1>1 DEF Places
    <3>3. \A i \in T : i <= N => list[i] = e
      BY <1>1 DEF Places
    <3> HIDE DEF T
    <3>4. PICK x \in T : \A y \in T : x <= y
      BY <3>1, LeastOf
    <3>5. Min(T) \in T /\ \A y \in T : Min(T) <= y
      BY <3>4 DEF Min
    <3> QED
      BY <3>1, <3>2, <3>3, <3>5 DEF T
  <2> QED
    BY <2>1
<1>3. Touched(list, a) = Cons(block, rest)
  BY <1>1, <1>2 DEF Touched
<1> HIDE DEF hole, place
<1>4. /\ \A i \in 1 .. N : list[i] = block <=> i = place
      /\ block # Hole /\ block \in Entries /\ ~IsMark(block) /\ ~IsMark(Hole)
      /\ \A b \in Block : block # Entry("mark", b) /\ Hole # Entry("mark", b)
      /\ \A b \in Block : block = Entry("block", b) <=> b = a
      /\ \A b \in Block : Hole # Entry("block", b)
  <2>1. /\ block # Hole /\ block \in Entries /\ ~IsMark(block) /\ ~IsMark(Hole)
        /\ \A b \in Block : block # Entry("mark", b) /\ Hole # Entry("mark", b)
        /\ \A b \in Block : block = Entry("block", b) <=> b = a
        /\ \A b \in Block : Hole # Entry("block", b)
    BY EntryKinds
  <2>2. \A i \in 1 .. N : list[i] = block <=> i = place
    <3> SUFFICES ASSUME NEW i \in 1 .. N, list[i] = block PROVE i = place
      BY <1>2
    <3>1. place \in 1 .. N
      BY <1>1, <1>2
    <3> QED
      BY <1>2, <2>1, <3>1, ListFacts
  <2> QED
    BY <2>1, <2>2
<1>5. place <= N => place # hole
  BY <1>1, <1>2, <1>4
\* What the list is before something is taken out of it.
<1>6. /\ IsList(mid) /\ Len(mid) = N
      /\ \A n \in 1 .. N, b \in Block : mid[n] = Entry("mark", b) <=> list[n] = Entry("mark", b)
      /\ out <= N => mid[out] \in {block, Hole}
      /\ \A n \in 1 .. N : n # out => mid[n] # block
  <2>1. CASE place <= hole
    <3>1. mid = list /\ out = place
      BY <2>1
    <3> QED
      BY <1>1, <1>2, <1>4, <3>1
  <2>2. CASE ~(place <= hole) /\ place <= N
    <3>1. place \in 1 .. N /\ list[place] = block
      BY <1>1, <1>2, <2>2
    <3>2. mid = [i \in DOMAIN list |-> IF i = place THEN Hole ELSE list[i]] /\ out = hole
      BY <2>2
    <3> HIDE DEF mid
    <3>3. /\ IsList(mid) /\ Len(mid) = N
          /\ mid[place] = Hole /\ \A n \in 1 .. N : n # place => mid[n] = list[n]
      BY <3>1, <3>2, LeftHole
    <3>4. hole \in 1 .. N /\ hole # place
      BY <1>1, <1>2, <2>2
    <3> QED
      BY <1>2, <1>4, <3>1, <3>2, <3>3, <3>4
  <2>3. CASE ~(place <= hole) /\ ~(place <= N)
    <3>1. mid = [i \in DOMAIN list |-> list[i]] /\ out = hole /\ hole \in 1 .. N /\ place = N + 1
      BY <1>1, <1>2, <2>3
    <3>2. mid = list
      BY <3>1 DEF IsList
    <3> HIDE DEF mid
    <3> QED
      BY <1>1, <1>2, <1>4, <3>1, <3>2
  <2> QED
    BY <2>1, <2>2, <2>3
<1>7. \A n \in 1 .. N : n < place \/ place > N =>
        BlocksTo(mid, n) = BlocksTo(list, n) /\ HolesTo(mid, n) = HolesTo(list, n)
  <2> SUFFICES ASSUME NEW n \in 1 .. N, n < place \/ place > N
               PROVE  \A i \in 1 .. n : mid[i] = list[i]
    BY DEF BlocksTo, HolesTo
  <2> SUFFICES ASSUME NEW i \in 1 .. n PROVE mid[i] = list[i]
    OBVIOUS
  <2>1. i \in 1 .. N /\ i # place
    BY <1>1, <1>2
  <2> QED
    BY <1>1, <2>1
<1>8. ASSUME ~(place <= hole), place <= N, NEW n \in 1 .. N, n > place
      PROVE  /\ BlocksTo(mid, n) = BlocksTo(list, n) \ {a}
             /\ Cardinality(HolesTo(mid, n)) = Cardinality(HolesTo(list, n)) + 1
  <2>1. place \in 1 .. N /\ list[place] = block /\ n >= place
    BY <1>1, <1>2, <1>8
  <2>2. mid = [i \in DOMAIN list |-> IF i = place THEN Hole ELSE list[i]]
    BY <1>8
  <2> HIDE DEF mid, N
  <2> QED
    BY <2>1, <2>2, LeftHole DEF N
\* What was above a mark before and after.
<1>9. ASSUME NEW n \in 1 .. N, NEW b \in Block, list[n] = Entry("mark", b)
      PROVE  /\ n # place /\ n # hole /\ n # out
             /\ IF n > place THEN a \in BlocksTo(list, n) ELSE a \notin BlocksTo(list, n)
             /\ IF n > hole THEN hole \in HolesTo(list, n) ELSE HolesTo(list, n) = {}
  <2>1. n # place /\ n # hole /\ n # out
    BY <1>1, <1>2, <1>4, <1>9
  <2>2. n > place => a \in BlocksTo(list, n)
    <3> SUFFICES ASSUME n > place PROVE a \in BlocksTo(list, n)
      OBVIOUS
    <3>1. place \in 1 .. n /\ list[place] = block
      BY <1>1, <1>2
    <3> QED
      BY <3>1 DEF BlocksTo
  <2>3. a \in BlocksTo(list, n) => n > place
    <3> SUFFICES ASSUME NEW i \in 1 .. n, list[i] = block PROVE n > place
      BY DEF BlocksTo
    <3>1. i \in 1 .. N
      BY <1>1
    <3>2. i = place
      BY <1>4, <3>1
    <3> QED
      BY <1>1, <1>2, <2>1, <3>2
  <2>4. n > hole => hole \in HolesTo(list, n)
    <3> SUFFICES ASSUME n > hole PROVE hole \in HolesTo(list, n)
      OBVIOUS
    <3>1. hole \in 1 .. n /\ list[hole] = Hole
      BY <1>1, <1>2
    <3> QED
      BY <3>1 DEF HolesTo
  <2>5. ~(n > hole) => HolesTo(list, n) = {}
    <3> SUFFICES ASSUME NEW i \in 1 .. n, list[i] = Hole PROVE n > hole
      BY DEF HolesTo
    <3>1. i \in 1 .. N
      BY <1>1
    <3>2. hole <= i
      BY <1>2, <3>1
    <3> QED
      BY <1>1, <1>2, <2>1, <3>1, <3>2
  <2> QED
    BY <2>1, <2>2, <2>3, <2>4, <2>5
<1>10. /\ IsList(rest)
       /\ \A n \in 1 .. N : n < out \/ out > N =>
            /\ n \in 1 .. Len(rest) /\ rest[n] = mid[n]
            /\ BlocksTo(rest, n) = BlocksTo(mid, n) /\ HolesTo(rest, n) = HolesTo(mid, n)
       /\ out <= N => \A n \in 1 .. N : n > out =>
            /\ n - 1 \in 1 .. Len(rest) /\ rest[n - 1] = mid[n]
            /\ BlocksTo(rest, n - 1)
                 = BlocksTo(mid, n) \ {b \in Block : mid[out] = Entry("block", b)}
            /\ Cardinality(HolesTo(rest, n - 1)) = Cardinality(HolesTo(mid, n) \ {out})
       /\ Len(rest) = IF out > N THEN N ELSE N - 1
  <2>1. CASE out > N
    <3>1. rest = mid
      BY <2>1
    <3> HIDE DEF rest, mid, out
    <3>2. N \in Nat /\ out \in 1 .. N + 1 /\ ~(out <= N)
      BY <1>1, <1>2, <2>1 DEF out
    <3> HIDE DEF N
    <3>3. Len(rest) = N /\ IsList(rest)
      BY <1>6, <3>1
    <3>4. ASSUME NEW n \in 1 .. N
          PROVE  /\ n \in 1 .. Len(rest) /\ rest[n] = mid[n]
                 /\ BlocksTo(rest, n) = BlocksTo(mid, n) /\ HolesTo(rest, n) = HolesTo(mid, n)
      BY <3>1, <3>3
    <3> QED
      BY <2>1, <3>2, <3>3, <3>4
  <2>2. CASE ~(out > N)
    <3>1. rest = RemoveAt(mid, out)
      BY <2>2
    <3>2. out \in 1 .. N
      BY <1>1, <1>2, <2>2
    <3>3. ~IsMark(mid[out])
      BY <1>1, <1>4, <1>6, <3>2
    <3> HIDE DEF rest, mid, out
    <3>4. /\ IsList(rest) /\ Len(rest) = N - 1
          /\ \A n \in 1 .. out - 1 :
               /\ rest[n] = mid[n]
               /\ BlocksTo(rest, n) = BlocksTo(mid, n) /\ HolesTo(rest, n) = HolesTo(mid, n)
          /\ \A n \in out + 1 .. N :
               /\ rest[n - 1] = mid[n]
               /\ BlocksTo(rest, n - 1)
                    = BlocksTo(mid, n) \ {b \in Block : mid[out] = Entry("block", b)}
               /\ Cardinality(HolesTo(rest, n - 1)) = Cardinality(HolesTo(mid, n) \ {out})
      BY <1>6, <3>1, <3>2, <3>3, TakenOut
    <3>5. \A n \in 1 .. N : n < out => n \in 1 .. out - 1 /\ n \in 1 .. N - 1
      BY <1>1, <3>2
    <3>6. \A n \in 1 .. N : n > out => n \in out + 1 .. N /\ n - 1 \in 1 .. N - 1
      BY <1>1, <3>2
    <3>7. out <= N
      BY <1>1, <3>2
    <3> QED
      BY <2>2, <3>4, <3>5, <3>6, <3>7
  <2> QED
    BY <2>1, <2>2
<1> HIDE DEF rest
<1>11. ASSUME NEW n \in 1 .. N, NEW b \in Block, list[n] = Entry("mark", b)
       PROVE  \E k \in 1 .. Len(rest) :
                /\ rest[k] = Entry("mark", b)
                /\ BlocksTo(rest, k) = BlocksTo(list, n) \ {a}
                /\ Cardinality(HolesTo(rest, k)) =
                     IF a \notin BlocksTo(list, n) /\ Cardinality(HolesTo(list, n)) > 0
                       THEN Cardinality(HolesTo(list, n)) - 1 ELSE Cardinality(HolesTo(list, n))
  <2> DEFINE holes == Cardinality(HolesTo(list, n))
  <2>1. /\ n # place /\ n # hole /\ n # out /\ mid[n] = Entry("mark", b)
        /\ IF n > place THEN a \in BlocksTo(list, n) ELSE a \notin BlocksTo(list, n)
        /\ IF n > hole THEN hole \in HolesTo(list, n) ELSE HolesTo(list, n) = {}
    BY <1>6, <1>9, <1>11
  <2>2. n \in Nat /\ N \in Nat /\ place \in 1 .. N + 1 /\ hole \in 1 .. N + 1
    BY <1>1, <1>2
  <2>3. IsFiniteSet(HolesTo(list, n)) /\ holes \in Nat /\ Cardinality({}) = 0
        /\ IsFiniteSet(HolesTo(mid, n)) /\ Cardinality(HolesTo(mid, n)) \in Nat
    BY <2>2, HolesAreFinite, FS_EmptySet
  <2>4. CASE place <= hole
    <3>1. mid = list /\ out = place
      BY <2>4
    <3> HIDE DEF mid, out
    <3>2. CASE n < place
      <4>1. ~(n > hole) /\ ~(n > place) /\ n < out
        BY <2>2, <2>4, <3>1, <3>2
      <4>2. a \notin BlocksTo(list, n) /\ holes = 0
        BY <2>1, <2>3, <4>1
      <4>3. BlocksTo(rest, n) = BlocksTo(list, n) \ {a} /\ Cardinality(HolesTo(rest, n)) = 0
            /\ n \in 1 .. Len(rest) /\ rest[n] = Entry("mark", b)
        BY <1>10, <2>1, <3>1, <4>1, <4>2, <2>3
      <4> QED
        BY <4>2, <4>3
    <3>3. CASE ~(n < place)
      <4>1. n > place /\ place <= N /\ out <= N
        BY <2>1, <2>2, <3>1, <3>3
      <4>2. a \in BlocksTo(list, n) /\ list[place] = block
        BY <1>2, <2>1, <4>1
      <4>3. HolesTo(list, n) \ {place} = HolesTo(list, n)
        BY <1>4, <4>2 DEF HolesTo
      <4>4. {c \in Block : list[place] = Entry("block", c)} = {a}
        BY <1>4, <4>2
      <4>5. /\ n - 1 \in 1 .. Len(rest) /\ rest[n - 1] = Entry("mark", b)
            /\ BlocksTo(rest, n - 1) = BlocksTo(list, n) \ {a}
            /\ Cardinality(HolesTo(rest, n - 1)) = holes
        BY <1>10, <2>1, <3>1, <4>1, <4>3, <4>4
      <4> QED
        BY <4>2, <4>5
    <3> QED
      BY <3>2, <3>3
  <2>5. CASE ~(place <= hole)
    <3>1. out = hole /\ hole <= N /\ hole < place /\ out <= N
      BY <2>2, <2>5
    <3> HIDE DEF mid, out
    <3>2. CASE n < hole
      <4>1. n < place /\ ~(n > hole) /\ ~(n > place) /\ n < out
        BY <2>2, <3>1, <3>2
      <4>2. a \notin BlocksTo(list, n) /\ holes = 0
        BY <2>1, <2>3, <4>1
      <4>3. BlocksTo(rest, n) = BlocksTo(list, n) \ {a} /\ Cardinality(HolesTo(rest, n)) = 0
            /\ n \in 1 .. Len(rest) /\ rest[n] = Entry("mark", b)
        BY <1>7, <1>10, <2>1, <4>1, <4>2
      <4> QED
        BY <4>2, <4>3
    <3>3. CASE ~(n < hole)
      <4>1. n > hole /\ n > out /\ hole \in HolesTo(list, n)
        BY <2>1, <2>2, <3>1, <3>3
      <4>2. mid[out] = Hole
        BY <1>1, <1>2, <1>6, <2>2, <3>1 DEF mid
      <4>3. {c \in Block : mid[out] = Entry("block", c)} = {}
        BY <1>4, <4>2
      <4>4. hole \in HolesTo(mid, n)
        <5>1. hole \in 1 .. n
          BY <2>2, <4>1
        <5> QED
          BY <3>1, <4>2, <5>1 DEF HolesTo
      <4>5. /\ n - 1 \in 1 .. Len(rest) /\ rest[n - 1] = Entry("mark", b)
            /\ BlocksTo(rest, n - 1) = BlocksTo(mid, n)
            /\ Cardinality(HolesTo(rest, n - 1)) = Cardinality(HolesTo(mid, n)) - 1
        <5>1. Cardinality(HolesTo(mid, n) \ {hole}) = Cardinality(HolesTo(mid, n)) - 1
          BY <2>3, <4>4, FS_RemoveElement
        <5> QED
          BY <1>10, <2>1, <3>1, <4>1, <4>3, <5>1
      <4>6. CASE n < place
        <5>1. BlocksTo(mid, n) = BlocksTo(list, n) /\ HolesTo(mid, n) = HolesTo(list, n)
          BY <1>7, <4>6
        <5>2. a \notin BlocksTo(list, n)
          BY <2>1, <2>2, <4>6
        <5>3. holes > 0
          <6>1. holes # 0
            BY <2>3, <4>1, FS_EmptySet
          <6> QED
            BY <2>3, <6>1
        <5> QED
          BY <4>5, <5>1, <5>2, <5>3
      <4>7. CASE ~(n < place)
        <5>1. n > place /\ place <= N
          BY <2>1, <2>2, <4>7
        <5>2. /\ BlocksTo(mid, n) = BlocksTo(list, n) \ {a}
              /\ Cardinality(HolesTo(mid, n)) = holes + 1
          BY <1>8, <2>5, <5>1
        <5>3. Cardinality(HolesTo(rest, n - 1)) = holes /\ a \in BlocksTo(list, n)
          BY <2>1, <2>3, <4>5, <5>1, <5>2
        <5> QED
          BY <4>5, <5>2, <5>3
      <4> QED
        BY <4>6, <4>7
    <3> QED
      BY <3>2, <3>3
  <2> QED
    BY <2>4, <2>5
<1>12. /\ \A i \in 1 .. Len(rest) : rest[i] # block
       /\ \A b \in Block : HasMark(rest, b) => HasMark(list, b)
  <2>1. ASSUME NEW i \in 1 .. Len(rest)
        PROVE  \E n \in 1 .. N : n # out /\ rest[i] = mid[n]
    <3>0. N \in Nat /\ out \in 1 .. N + 1 /\ Len(rest) = IF out > N THEN N ELSE N - 1
      BY <1>1, <1>2, <1>10
    <3> HIDE DEF mid, out, N
    <3>1. CASE i < out \/ out > N
      <4>1. i \in 1 .. N /\ i # out
        BY <3>0, <3>1
      <4> QED
        BY <1>10, <3>1, <4>1
    <3>2. CASE ~(i < out \/ out > N)
      <4>1. i + 1 \in 1 .. N /\ i + 1 > out /\ out <= N /\ (i + 1) - 1 = i /\ i + 1 # out
        BY <3>0, <3>2
      <4>2. rest[(i + 1) - 1] = mid[i + 1]
        BY <1>10, <4>1
      <4> QED
        BY <4>1, <4>2
    <3> QED
      BY <3>1, <3>2
  <2> HIDE DEF mid, out
  <2>2. \A i \in 1 .. Len(rest) : rest[i] # block
    BY <1>6, <2>1
  <2>3. ASSUME NEW b \in Block, HasMark(rest, b) PROVE HasMark(list, b)
    <3>1. PICK i \in 1 .. Len(rest) : rest[i] = Entry("mark", b)
      BY <2>3 DEF HasMark
    <3>2. PICK n \in 1 .. N : rest[i] = mid[n]
      BY <2>1
    <3> QED
      BY <1>6, <3>1, <3>2 DEF HasMark
  <2> QED
    BY <2>2, <2>3
<1> DEFINE new == Cons(block, rest)
<1>13. /\ IsList(new) /\ Len(new) = Len(rest) + 1 /\ new[1] = block
       /\ \A n \in 1 .. Len(rest) :
            /\ new[n + 1] = rest[n]
            /\ BlocksTo(new, n + 1) = BlocksTo(rest, n) \cup {b \in Block : block = Entry("block", b)}
            /\ Cardinality(HolesTo(new, n + 1)) = Cardinality(HolesTo(rest, n))
  <2> HIDE DEF block
  <2> QED
    BY <1>4, <1>10, <1>12, OnTop
<1>14. {b \in Block : block = Entry("block", b)} = {a} /\ Len(rest) \in Nat
  BY <1>4, <1>10, ListFacts
<1> HIDE DEF new, block, mid, out
<1>15. \A n \in 1 .. Len(rest) : n + 1 \in 1 .. Len(new)
  BY <1>13, <1>14
<1>16. ASSUME NEW b \in Block, NEW n \in 1 .. N, list[n] = Entry("mark", b),
              NEW sample \in Sample, Agree(list, n, sample)
       PROVE  Shows(new, b, WithReference(sample, a))
  <2>1. PICK k \in 1 .. Len(rest) :
               /\ rest[k] = Entry("mark", b)
               /\ BlocksTo(rest, k) = BlocksTo(list, n) \ {a}
               /\ Cardinality(HolesTo(rest, k)) =
                    IF a \notin BlocksTo(list, n) /\ Cardinality(HolesTo(list, n)) > 0
                      THEN Cardinality(HolesTo(list, n)) - 1 ELSE Cardinality(HolesTo(list, n))
    BY <1>11, <1>16
  <2>2. new[k + 1] = Entry("mark", b) /\ k + 1 \in 1 .. Len(new)
    BY <1>13, <1>15, <2>1
  <2>3. BlocksTo(new, k + 1) = WithReference(sample, a).set
    BY <1>13, <1>14, <1>16, <2>1 DEF Agree, WithReference
  <2>4. Cardinality(HolesTo(new, k + 1)) = WithReference(sample, a).hole_count
    BY <1>13, <1>16, <2>1 DEF Agree, WithReference
  <2> QED
    BY <2>2, <2>3, <2>4 DEF Shows, Agree
<1>17. ASSUME NEW b \in Block PROVE HasMark(new, b) <=> HasMark(list, b)
  <2>1. ASSUME HasMark(list, b) PROVE HasMark(new, b)
    <3>1. PICK n \in 1 .. N : list[n] = Entry("mark", b)
      BY <2>1 DEF HasMark
    <3>2. PICK k \in 1 .. Len(rest) : rest[k] = Entry("mark", b)
      BY <1>11, <3>1
    <3> QED
      BY <1>13, <1>15, <3>2 DEF HasMark
  <2>2. ASSUME HasMark(new, b) PROVE HasMark(list, b)
    <3>1. PICK i \in 1 .. Len(new) : new[i] = Entry("mark", b)
      BY <2>2 DEF HasMark
    <3>2. i # 1
      BY <1>4, <1>13, <3>1
    <3>3. i - 1 \in 1 .. Len(rest) /\ (i - 1) + 1 = i
      BY <1>13, <1>14, <3>2
    <3>4. rest[i - 1] = Entry("mark", b)
      BY <1>13, <3>1, <3>3
    <3> QED
      BY <1>12, <3>3, <3>4 DEF HasMark
  <2> QED
    BY <2>1, <2>2
<1>18. ASSUME NEW b \in Block, NEW sample \in Sample, Shows(list, b, sample)
       PROVE  Shows(new, b, WithReference(sample, a))
  <2>1. PICK n \in 1 .. N : list[n] = Entry("mark", b) /\ Agree(list, n, sample)
    BY <1>18 DEF Shows
  <2> QED
    BY <1>16, <2>1
<1>19. Touched(list, a) = new
  BY <1>3 DEF new
<1> QED
  BY <1>13, <1>17, <1>18, <1>19

\* Unmarked goes down the list once and then trims what it kept.
Dies(entry, blocks) == IsMark(entry) /\ entry[2] \in blocks
IsLoop(list, blocks, k) ==
  /\ k[0] = <<>>
  /\ \A n \in 1 .. Len(list) : k[n] = IF Dies(list[n], blocks) THEN k[n - 1]
                                    ELSE Append(k[n - 1], list[n])

LEMMA UnmarkLoop ==
  ASSUME NEW list \in Seq(Entries), NEW blocks
  PROVE  \E k \in [0 .. Len(list) -> Seq(Entries)] :
           Unmarked(list, blocks) = Trimmed(k[Len(list)]) /\ IsLoop(list, blocks, k)
<1> DEFINE N == Len(list)
           Loop(m, k) == /\ k[0] = <<>>
                         /\ \A n \in 1 .. m : k[n] = IF Dies(list[n], blocks) THEN k[n - 1]
                                                     ELSE Append(k[n - 1], list[n])
           Fails == {m \in 0 .. N : ~ \E k \in [0 .. m -> Seq(Entries)] : Loop(m, k)}
           IsKept(k) == k = [n \in 0 .. N |-> IF n = 0 THEN <<>>
                              ELSE IF Dies(list[n], blocks) THEN k[n - 1]
                              ELSE Append(k[n - 1], list[n])]
<1>1. N \in Nat /\ \A i \in 1 .. N : list[i] \in Entries
  OBVIOUS
<1>2. Fails = {}
  <2> SUFFICES ASSUME Fails # {} PROVE FALSE
    OBVIOUS
  <2>1. Fails \subseteq Nat
    BY <1>1
  <2>2. PICK m \in Fails : \A x \in Fails : m <= x
    BY <2>1, LeastOf
  <2>3. m # 0
    <3>1. [n \in 0 .. 0 |-> <<>>] \in [0 .. 0 -> Seq(Entries)] /\ Loop(0, [n \in 0 .. 0 |-> <<>>])
      OBVIOUS
    <3> QED
      BY <2>2, <3>1
  <2>4. m \in 1 .. N /\ m - 1 \in 0 .. N /\ m - 1 \notin Fails
    <3>1. m \in 0 .. N
      BY <2>2
    <3> HIDE DEF Fails
    <3>2. m \in 1 .. N /\ m - 1 \in 0 .. N /\ ~ (m <= m - 1)
      BY <1>1, <2>3, <3>1
    <3> QED
      BY <2>2, <3>2
  <2>5. PICK k \in [0 .. m - 1 -> Seq(Entries)] : Loop(m - 1, k)
    BY <2>4
  <2> DEFINE last == IF Dies(list[m], blocks) THEN k[m - 1] ELSE Append(k[m - 1], list[m])
             j == [n \in 0 .. m |-> IF n = m THEN last ELSE k[n]]
  <2>6. last \in Seq(Entries)
    <3>1. m - 1 \in 0 .. m - 1 /\ list[m] \in Entries
      BY <1>1, <2>4
    <3>2. k[m - 1] \in Seq(Entries)
      BY <2>5, <3>1
    <3> QED
      BY <3>1, <3>2
  <2> HIDE DEF last
  <2>7. j \in [0 .. m -> Seq(Entries)] /\ j[m] = last /\ \A n \in 0 .. m - 1 : j[n] = k[n]
    <3>1. \A n \in 0 .. m : n = m \/ n \in 0 .. m - 1
      BY <2>4
    <3>2. m \in 0 .. m /\ m \notin 0 .. m - 1 /\ 0 .. m - 1 \subseteq 0 .. m
      BY <2>4
    <3> QED
      BY <2>5, <2>6, <3>1, <3>2
  <2> HIDE DEF j
  <2>8. Loop(m, j)
    <3>1. j[0] = <<>>
      BY <2>4, <2>5, <2>7
    <3>2. ASSUME NEW n \in 1 .. m
          PROVE  j[n] = IF Dies(list[n], blocks) THEN j[n - 1] ELSE Append(j[n - 1], list[n])
      <4>1. CASE n = m
        <5>1. n - 1 \in 0 .. m - 1
          BY <2>4, <4>1
        <5>2. j[n - 1] = k[m - 1]
          BY <2>7, <4>1, <5>1
        <5> QED
          BY <2>7, <4>1, <5>2 DEF last
      <4>2. CASE n # m
        <5>1. n \in 1 .. m - 1 /\ n - 1 \in 0 .. m - 1 /\ n \in 0 .. m - 1
          BY <2>4, <4>2
        <5> QED
          BY <2>5, <2>7, <5>1
      <4> QED
        BY <4>1, <4>2
    <3> QED
      BY <3>1, <3>2
  <2> QED
    BY <2>2, <2>7, <2>8
<1>3. PICK k \in [0 .. N -> Seq(Entries)] : Loop(N, k)
  <2>1. N \in 0 .. N
    BY <1>1
  <2>2. N \notin Fails
    BY <1>2
  <2> HIDE DEF Loop
  <2> QED
    BY <2>1, <2>2
<1>4. IsKept(k)
  <2>1. \A n \in 0 .. N : n # 0 => n \in 1 .. N
    BY <1>1
  <2> QED
    BY <1>3, <2>1
<1> DEFINE kept == CHOOSE x : IsKept(x)
<1>5. IsKept(kept)
  BY <1>4
<1>6. Unmarked(list, blocks) = Trimmed(kept[N])
  BY DEF Unmarked, Dies
<1> HIDE DEF kept
<1>7. \A n \in 0 .. N : kept[n] = k[n]
  <2> DEFINE Differ == {n \in 0 .. N : kept[n] # k[n]}
  <2> SUFFICES ASSUME Differ # {} PROVE FALSE
    OBVIOUS
  <2>1. Differ \subseteq Nat
    BY <1>1
  <2>2. PICK m \in Differ : \A x \in Differ : m <= x
    BY <2>1, LeastOf
  <2>3. m \in 0 .. N /\ kept[m] # k[m]
    BY <2>2
  <2>4. kept[0] = <<>>
    BY <1>1, <1>5
  <2>5. m # 0
    BY <1>3, <2>3, <2>4
  <2>6. m - 1 \in 0 .. N /\ m \in 1 .. N
    BY <1>1, <2>3, <2>5
  <2>7. kept[m - 1] = k[m - 1]
    BY <2>2, <2>6
  <2>8. kept[m] = IF Dies(list[m], blocks) THEN kept[m - 1] ELSE Append(kept[m - 1], list[m])
    BY <1>5, <2>3, <2>5
  <2> QED
    BY <1>3, <2>3, <2>6, <2>7, <2>8
<1>8. Unmarked(list, blocks) = Trimmed(k[N])
  BY <1>1, <1>6, <1>7
<1>9. IsLoop(list, blocks, k)
  BY <1>3 DEF IsLoop
<1> QED
  BY <1>8, <1>9

LEMMA SamePrefix ==
  ASSUME NEW old, NEW new, NEW n \in Nat, \A i \in 1 .. n : new[i] = old[i]
  PROVE  BlocksTo(new, n) = BlocksTo(old, n) /\ HolesTo(new, n) = HolesTo(old, n)
BY DEF BlocksTo, HolesTo

\* What one entry more adds.
LEMMA OneMore ==
  ASSUME NEW list, NEW n \in Nat
  PROVE  /\ BlocksTo(list, n + 1) =
              BlocksTo(list, n) \cup {b \in Block : list[n + 1] = Entry("block", b)}
         /\ Cardinality(HolesTo(list, n + 1)) =
              Cardinality(HolesTo(list, n)) + (IF list[n + 1] = Hole THEN 1 ELSE 0)
<1>1. \A i \in 1 .. n + 1 : i = n + 1 \/ i \in 1 .. n
  OBVIOUS
<1>2. 1 .. n \subseteq 1 .. n + 1 /\ n + 1 \in 1 .. n + 1 /\ n + 1 \notin 1 .. n
  OBVIOUS
<1>3. BlocksTo(list, n + 1) =
        BlocksTo(list, n) \cup {b \in Block : list[n + 1] = Entry("block", b)}
  BY <1>1, <1>2 DEF BlocksTo
<1>4. IsFiniteSet(HolesTo(list, n)) /\ Cardinality(HolesTo(list, n)) \in Nat
  BY HolesAreFinite
<1>5. CASE list[n + 1] = Hole
  <2>1. HolesTo(list, n + 1) = HolesTo(list, n) \cup {n + 1} /\ n + 1 \notin HolesTo(list, n)
    BY <1>1, <1>2, <1>5 DEF HolesTo
  <2> QED
    BY <1>3, <1>4, <1>5, <2>1, FS_AddElement
<1>6. CASE list[n + 1] # Hole
  <2>1. HolesTo(list, n + 1) = HolesTo(list, n)
    BY <1>1, <1>2, <1>6 DEF HolesTo
  <2> QED
    BY <1>3, <1>4, <1>6, <2>1
<1> QED
  BY <1>5, <1>6

LEMMA Appended ==
  ASSUME NEW S, NEW s \in Seq(S), NEW e \in S
  PROVE  /\ Append(s, e) \in Seq(S) /\ Len(Append(s, e)) = Len(s) + 1 /\ Len(s) \in Nat
         /\ Append(s, e)[Len(s) + 1] = e /\ \A i \in 1 .. Len(s) : Append(s, e)[i] = s[i]
OBVIOUS

\* What was kept of the first n entries.
KeptOf(list, blocks, n, l) ==
  /\ IsList(l)
  /\ \A j \in 1 .. Len(l) : \E i \in 1 .. n : l[j] = list[i] /\ ~Dies(list[i], blocks)
  /\ BlocksTo(l, Len(l)) = BlocksTo(list, n)
  /\ Cardinality(HolesTo(l, Len(l))) = Cardinality(HolesTo(list, n))
  /\ \A i \in 1 .. n : IsMark(list[i]) /\ ~Dies(list[i], blocks) =>
       \E j \in 1 .. Len(l) :
         /\ l[j] = list[i] /\ BlocksTo(l, j) = BlocksTo(list, i)
         /\ Cardinality(HolesTo(l, j)) = Cardinality(HolesTo(list, i))

LEMMA KeepNot ==
  ASSUME NEW list, IsList(list), NEW blocks, NEW n \in Nat, n + 1 \in 1 .. Len(list),
         NEW l, KeptOf(list, blocks, n, l), Dies(list[n + 1], blocks)
  PROVE  KeptOf(list, blocks, n + 1, l)
<1>1. \A i \in 1 .. n + 1 : i = n + 1 \/ i \in 1 .. n
  OBVIOUS
<1>2. 1 .. n \subseteq 1 .. n + 1
  OBVIOUS
<1>3. list[n + 1] # Hole /\ \A b \in Block : list[n + 1] # Entry("block", b)
  BY EntryKinds DEF Dies
<1>4. Cardinality(HolesTo(list, n)) \in Nat
  BY HolesAreFinite
<1>5. BlocksTo(list, n + 1) = BlocksTo(list, n)
      /\ Cardinality(HolesTo(list, n + 1)) = Cardinality(HolesTo(list, n))
  <2>1. /\ BlocksTo(list, n + 1) =
             BlocksTo(list, n) \cup {b \in Block : list[n + 1] = Entry("block", b)}
        /\ Cardinality(HolesTo(list, n + 1)) =
             Cardinality(HolesTo(list, n)) + (IF list[n + 1] = Hole THEN 1 ELSE 0)
    BY OneMore
  <2>2. {b \in Block : list[n + 1] = Entry("block", b)} = {}
    BY <1>3
  <2>3. Cardinality(HolesTo(list, n + 1)) = Cardinality(HolesTo(list, n)) + 0
    BY <1>3, <2>1
  <2>4. BlocksTo(list, n + 1) = BlocksTo(list, n) \cup {}
    BY <2>1, <2>2
  <2>5. Cardinality(HolesTo(list, n + 1)) = Cardinality(HolesTo(list, n))
    BY <1>4, <2>3
  <2> QED
    BY <2>4, <2>5
<1> DEFINE Same(j, i) == /\ l[j] = list[i] /\ BlocksTo(l, j) = BlocksTo(list, i)
                         /\ Cardinality(HolesTo(l, j)) = Cardinality(HolesTo(list, i))
<1>6. /\ IsList(l)
      /\ \A j \in 1 .. Len(l) : \E i \in 1 .. n : l[j] = list[i] /\ ~Dies(list[i], blocks)
      /\ BlocksTo(l, Len(l)) = BlocksTo(list, n)
      /\ Cardinality(HolesTo(l, Len(l))) = Cardinality(HolesTo(list, n))
      /\ \A i \in 1 .. n : IsMark(list[i]) /\ ~Dies(list[i], blocks) =>
           \E j \in 1 .. Len(l) : Same(j, i)
  BY DEF KeptOf
<1>7. \A j \in 1 .. Len(l) : \E i \in 1 .. n + 1 : l[j] = list[i] /\ ~Dies(list[i], blocks)
  BY <1>2, <1>6
<1>8. \A i \in 1 .. n + 1 : IsMark(list[i]) /\ ~Dies(list[i], blocks) =>
        \E j \in 1 .. Len(l) : Same(j, i)
  <2> HIDE DEF Same
  <2> QED
    BY <1>1, <1>6
<1> QED
  BY <1>5, <1>6, <1>7, <1>8 DEF KeptOf

LEMMA Keep ==
  ASSUME NEW list, IsList(list), NEW blocks, NEW n \in Nat, n + 1 \in 1 .. Len(list),
         NEW l, KeptOf(list, blocks, n, l), ~Dies(list[n + 1], blocks)
  PROVE  KeptOf(list, blocks, n + 1, Append(l, list[n + 1]))
<1> DEFINE e == list[n + 1]
           new == Append(l, e)
           L == Len(l)
<1>1. \A i \in 1 .. n + 1 : i = n + 1 \/ i \in 1 .. n
  OBVIOUS
<1>2. 1 .. n \subseteq 1 .. n + 1 /\ n + 1 \in 1 .. n + 1 /\ n + 1 \notin 1 .. n
  OBVIOUS
<1>3. 1 .. n \subseteq 1 .. Len(list) /\ e \in Entries
      /\ \A i, j \in 1 .. Len(list) : list[i] = list[j] /\ list[i] # Hole => i = j
  BY ListFacts
<1>4. l \in Seq(Entries) /\ IsList(l)
  BY DEF KeptOf, IsList
<1>5. /\ new \in Seq(Entries) /\ Len(new) = L + 1 /\ L \in Nat
      /\ new[L + 1] = e /\ \A i \in 1 .. L : new[i] = l[i]
  <2> HIDE DEF e
  <2> QED
    BY <1>3, <1>4, Appended
<1> HIDE DEF new, L
<1>6. \A j \in 1 .. L : l[j] = e => e = Hole
  <2> SUFFICES ASSUME NEW j \in 1 .. L, l[j] = e PROVE e = Hole
    OBVIOUS
  <2>1. PICK i \in 1 .. n : l[j] = list[i]
    BY DEF KeptOf, L
  <2>2. i # n + 1 /\ i \in 1 .. Len(list)
    BY <1>2, <1>3
  <2> QED
    BY <1>3, <2>1, <2>2
<1>7. \A j \in 1 .. L + 1 : j = L + 1 \/ j \in 1 .. L
  BY <1>5
<1>8. IsList(new)
  <2> SUFFICES ASSUME NEW i \in 1 .. Len(new), NEW j \in 1 .. Len(new), new[i] = new[j],
                      new[i] # Hole
               PROVE  i = j
    BY <1>5 DEF IsList
  <2>1. CASE i \in 1 .. L /\ j \in 1 .. L
    <3>1. \A x, y \in 1 .. L : l[x] = l[y] /\ l[x] # Hole => x = y
      BY <1>4 DEF IsList, L
    <3> QED
      BY <1>5, <2>1, <3>1
  <2> QED
    BY <1>5, <1>6, <1>7, <2>1
<1>9. \A j \in 1 .. L : BlocksTo(new, j) = BlocksTo(l, j) /\ HolesTo(new, j) = HolesTo(l, j)
  <2> SUFFICES ASSUME NEW j \in 1 .. L
               PROVE  BlocksTo(new, j) = BlocksTo(l, j) /\ HolesTo(new, j) = HolesTo(l, j)
    OBVIOUS
  <2>1. j \in Nat /\ \A i \in 1 .. j : new[i] = l[i]
    BY <1>5
  <2> QED
    BY <2>1, SamePrefix
<1>10. BlocksTo(new, L) = BlocksTo(l, L) /\ HolesTo(new, L) = HolesTo(l, L)
  BY <1>5, SamePrefix
<1>11. /\ BlocksTo(l, L) = BlocksTo(list, n)
       /\ Cardinality(HolesTo(l, L)) = Cardinality(HolesTo(list, n))
  BY DEF KeptOf, L
<1>12. /\ BlocksTo(new, L + 1) = BlocksTo(list, n + 1)
       /\ Cardinality(HolesTo(new, L + 1)) = Cardinality(HolesTo(list, n + 1))
  <2>1. /\ BlocksTo(new, L + 1) = BlocksTo(new, L) \cup {b \in Block : e = Entry("block", b)}
        /\ Cardinality(HolesTo(new, L + 1)) =
             Cardinality(HolesTo(new, L)) + (IF e = Hole THEN 1 ELSE 0)
    <3>1. L \in Nat /\ new[L + 1] = e
      BY <1>5
    <3> HIDE DEF e
    <3>2. /\ BlocksTo(new, L + 1) =
               BlocksTo(new, L) \cup {b \in Block : new[L + 1] = Entry("block", b)}
          /\ Cardinality(HolesTo(new, L + 1)) =
               Cardinality(HolesTo(new, L)) + (IF new[L + 1] = Hole THEN 1 ELSE 0)
      BY <3>1, OneMore
    <3> QED
      BY <3>1, <3>2
  <2>2. /\ BlocksTo(list, n + 1) = BlocksTo(list, n) \cup {b \in Block : e = Entry("block", b)}
        /\ Cardinality(HolesTo(list, n + 1)) =
             Cardinality(HolesTo(list, n)) + (IF e = Hole THEN 1 ELSE 0)
    BY OneMore
  <2> QED
    BY <1>10, <1>11, <2>1, <2>2
<1>13. \A j \in 1 .. L + 1 : \E i \in 1 .. n + 1 : new[j] = list[i] /\ ~Dies(list[i], blocks)
  <2> SUFFICES ASSUME NEW j \in 1 .. L + 1
               PROVE  \E i \in 1 .. n + 1 : new[j] = list[i] /\ ~Dies(list[i], blocks)
    OBVIOUS
  <2>1. CASE j = L + 1
    BY <1>2, <1>5, <2>1
  <2>2. CASE j \in 1 .. L
    <3>1. PICK i \in 1 .. n : l[j] = list[i] /\ ~Dies(list[i], blocks)
      BY <2>2 DEF KeptOf, L
    <3>2. i \in 1 .. n + 1 /\ new[j] = l[j]
      BY <1>2, <1>5, <2>2
    <3> QED
      BY <3>1, <3>2
  <2> QED
    BY <1>7, <2>1, <2>2
<1>14. ASSUME NEW i \in 1 .. n + 1, IsMark(list[i]), ~Dies(list[i], blocks)
       PROVE  \E j \in 1 .. L + 1 :
                /\ new[j] = list[i] /\ BlocksTo(new, j) = BlocksTo(list, i)
                /\ Cardinality(HolesTo(new, j)) = Cardinality(HolesTo(list, i))
  <2>1. CASE i = n + 1
    <3>1. L + 1 \in 1 .. L + 1
      BY <1>5
    <3> QED
      BY <1>5, <1>12, <2>1, <3>1
  <2>2. CASE i \in 1 .. n
    <3>1. PICK j \in 1 .. L :
            /\ l[j] = list[i] /\ BlocksTo(l, j) = BlocksTo(list, i)
            /\ Cardinality(HolesTo(l, j)) = Cardinality(HolesTo(list, i))
      BY <1>14, <2>2 DEF KeptOf, L
    <3>2. j \in 1 .. L + 1
      BY <1>5
    <3> QED
      BY <1>5, <1>9, <3>1, <3>2
  <2> QED
    BY <1>1, <2>1, <2>2
<1>15. Len(new) = L + 1 /\ IsList(new)
  BY <1>5, <1>8
<1>16. KeptOf(list, blocks, n + 1, new)
  BY <1>12, <1>13, <1>14, <1>15 DEF KeptOf
<1> QED
  BY <1>16 DEF new

LEMMA LoopKeeps ==
  ASSUME NEW list, IsList(list), NEW blocks,
         NEW k \in [0 .. Len(list) -> Seq(Entries)], IsLoop(list, blocks, k)
  PROVE  KeptOf(list, blocks, Len(list), k[Len(list)])
<1> DEFINE Good == {n \in Nat : n <= Len(list) => KeptOf(list, blocks, n, k[n])}
<1>1. Len(list) \in Nat
  BY ListFacts
<1>2. 0 \in Good
  <2>1. k[0] = <<>>
    BY DEF IsLoop
  <2>2. IsList(<<>>) /\ Len(<<>>) = 0
    BY DEF IsList
  <2>3. BlocksTo(<<>>, 0) = BlocksTo(list, 0) /\ HolesTo(<<>>, 0) = HolesTo(list, 0)
    BY DEF BlocksTo, HolesTo
  <2> QED
    BY <2>1, <2>2, <2>3 DEF KeptOf
<1>3. ASSUME NEW n \in Nat, n \in Good PROVE n + 1 \in Good
  <2> SUFFICES ASSUME n + 1 <= Len(list) PROVE KeptOf(list, blocks, n + 1, k[n + 1])
    OBVIOUS
  <2>1. n + 1 \in 1 .. Len(list) /\ n <= Len(list) /\ (n + 1) - 1 = n
    BY <1>1
  <2>2. KeptOf(list, blocks, n, k[n])
    BY <1>3, <2>1
  <2>3. k[n + 1] = IF Dies(list[n + 1], blocks) THEN k[n] ELSE Append(k[n], list[n + 1])
    BY <2>1 DEF IsLoop
  <2> HIDE DEF Good
  <2>4. CASE Dies(list[n + 1], blocks)
    BY <2>1, <2>2, <2>3, <2>4, KeepNot
  <2>5. CASE ~Dies(list[n + 1], blocks)
    BY <2>1, <2>2, <2>3, <2>5, Keep
  <2> QED
    BY <2>4, <2>5
<1> HIDE DEF Good
<1>4. Nat \subseteq Good
  BY <1>2, <1>3, Successors
<1>5. Len(list) \in Good
  BY <1>1, <1>4
<1> QED
  BY <1>1, <1>5 DEF Good

\* Trimming takes no mark away.
LEMMA TrimmedEffect ==
  ASSUME NEW list, IsList(list)
  PROVE  /\ IsList(Trimmed(list))
         /\ \A b \in Block : HasMark(Trimmed(list), b) <=> HasMark(list, b)
         /\ \A b \in Block, sample \in Sample :
              Shows(list, b, sample) => Shows(Trimmed(list), b, sample)
<1> DEFINE N == Len(list)
           T == {0} \cup {i \in DOMAIN list : IsMark(list[i])}
           U == {N - i : i \in T}
           m == Max(T)
           new == Trimmed(list)
<1>1. N \in Nat /\ DOMAIN list = 1 .. N
  BY ListFacts
<1>2. T \subseteq 0 .. N /\ 0 \in T
  BY <1>1
<1>3. m \in T /\ \A i \in T : i <= m
  <2>1. U \subseteq Nat /\ U # {}
    BY <1>1, <1>2
  <2>2. PICK u \in U : \A v \in U : u <= v
    BY <2>1, LeastOf
  <2>3. PICK x \in T : u = N - x
    BY <2>2
  <2>4. \A y \in T : N - x <= N - y
    BY <2>2, <2>3
  <2> HIDE DEF T, U
  <2>5. \A y \in T : x >= y
    BY <1>1, <1>2, <2>3, <2>4
  <2>6. m \in T /\ \A y \in T : m >= y
    BY <2>3, <2>5 DEF Max
  <2> QED
    BY <1>2, <2>6
<1>4. m \in 0 .. N /\ \A i \in 1 .. N : IsMark(list[i]) => i \in 1 .. m
  BY <1>1, <1>2, <1>3
<1>5. new = SubSeq(list, 1, m)
  BY DEF Trimmed
<1>6. list \in Seq(Entries) /\ \A i, j \in 1 .. N : list[i] = list[j] /\ list[i] # Hole => i = j
  BY DEF IsList
<1> HIDE DEF m, new, N, T
<1>7. new \in Seq(Entries) /\ Len(new) = m /\ \A i \in 1 .. m : new[i] = list[i]
  <2>1. \A i \in 1 .. m : i \in 1 .. N
    BY <1>1, <1>4
  <2> QED
    BY <1>1, <1>4, <1>5, <1>6, <2>1 DEF N
<1>8. 1 .. m \subseteq 1 .. N
  BY <1>1, <1>4
<1>9. IsList(new)
  BY <1>6, <1>7, <1>8 DEF IsList
<1>10. \A n \in 1 .. m : BlocksTo(new, n) = BlocksTo(list, n) /\ HolesTo(new, n) = HolesTo(list, n)
  <2> SUFFICES ASSUME NEW n \in 1 .. m
               PROVE  BlocksTo(new, n) = BlocksTo(list, n) /\ HolesTo(new, n) = HolesTo(list, n)
    OBVIOUS
  <2>1. n \in Nat /\ \A i \in 1 .. n : i \in 1 .. m
    BY <1>1, <1>4
  <2> QED
    BY <1>7, <2>1, SamePrefix
<1>11. \A b \in Block, n \in 1 .. N : list[n] = Entry("mark", b) => n \in 1 .. m
  BY <1>4, EntryKinds
<1>12. ASSUME NEW b \in Block PROVE HasMark(new, b) <=> HasMark(list, b)
  BY <1>7, <1>8, <1>11 DEF HasMark, N
<1>13. ASSUME NEW b \in Block, NEW sample \in Sample, Shows(list, b, sample)
       PROVE  Shows(new, b, sample)
  <2>1. PICK n \in 1 .. N : list[n] = Entry("mark", b) /\ Agree(list, n, sample)
    BY <1>13 DEF Shows, N
  <2>2. n \in 1 .. m
    BY <1>11, <2>1
  <2> QED
    BY <1>7, <1>10, <2>1, <2>2 DEF Shows, Agree
<1> QED
  BY <1>9, <1>12, <1>13 DEF new

\* Samples that ended take their marks along and change no other.
LEMMA UnmarkedEffect ==
  ASSUME NEW list, IsList(list), NEW blocks
  PROVE  /\ IsList(Unmarked(list, blocks))
         /\ \A b \in Block : HasMark(Unmarked(list, blocks), b) <=> HasMark(list, b) /\ b \notin blocks
         /\ \A b \in Block, sample \in Sample :
              b \notin blocks /\ Shows(list, b, sample) => Shows(Unmarked(list, blocks), b, sample)
<1> DEFINE N == Len(list)
<1>1. list \in Seq(Entries) /\ N \in Nat
  BY ListFacts DEF IsList
<1>2. PICK k \in [0 .. N -> Seq(Entries)] :
             Unmarked(list, blocks) = Trimmed(k[N]) /\ IsLoop(list, blocks, k)
  BY <1>1, UnmarkLoop
<1> DEFINE l == k[N]
<1>3. KeptOf(list, blocks, N, l)
  BY <1>2, LoopKeeps
<1> HIDE DEF l, N
<1>4. IsList(l)
  BY <1>3 DEF KeptOf
<1>5. \A b \in Block : Dies(Entry("mark", b), blocks) <=> b \in blocks
  BY EntryKinds DEF Dies
<1>6. \A b \in Block, i \in 1 .. N : list[i] = Entry("mark", b) /\ b \notin blocks =>
        \E j \in 1 .. Len(l) :
          /\ l[j] = list[i] /\ BlocksTo(l, j) = BlocksTo(list, i)
          /\ Cardinality(HolesTo(l, j)) = Cardinality(HolesTo(list, i))
  BY <1>3, <1>5, EntryKinds DEF KeptOf
<1>7. ASSUME NEW b \in Block PROVE HasMark(l, b) <=> HasMark(list, b) /\ b \notin blocks
  <2>1. ASSUME HasMark(l, b) PROVE HasMark(list, b) /\ b \notin blocks
    <3>1. PICK j \in 1 .. Len(l) : l[j] = Entry("mark", b)
      BY <2>1 DEF HasMark
    <3>2. PICK i \in 1 .. N : l[j] = list[i] /\ ~Dies(list[i], blocks)
      BY <1>3 DEF KeptOf
    <3> QED
      BY <1>5, <3>1, <3>2 DEF HasMark, N
  <2>2. ASSUME HasMark(list, b), b \notin blocks PROVE HasMark(l, b)
    BY <1>6, <2>2 DEF HasMark, N
  <2> QED
    BY <2>1, <2>2
<1>8. ASSUME NEW b \in Block, NEW sample \in Sample, b \notin blocks, Shows(list, b, sample)
      PROVE  Shows(l, b, sample)
  <2>1. PICK i \in 1 .. N : list[i] = Entry("mark", b) /\ Agree(list, i, sample)
    BY <1>8 DEF Shows, N
  <2>2. PICK j \in 1 .. Len(l) :
          /\ l[j] = list[i] /\ BlocksTo(l, j) = BlocksTo(list, i)
          /\ Cardinality(HolesTo(l, j)) = Cardinality(HolesTo(list, i))
    BY <1>6, <1>8, <2>1
  <2> QED
    BY <2>1, <2>2 DEF Shows, Agree
<1>9. Unmarked(list, blocks) = Trimmed(l)
  BY <1>2 DEF l
<1> QED
  BY <1>4, <1>7, <1>8, <1>9, TrimmedEffect

-----------------------------------------------------------------------------
(* The maps that a reference leaves                                        *)

LEMMA DeleteMaps ==
  ASSUME NEW s \in Sampler, NEW o \in Thread, NEW addrs, NEW i \in Thread
  PROVE  LET r == DeleteAddresses(s, o, addrs) IN
         /\ Tracked(r, i) \subseteq Tracked(s, i)
         /\ \A b \in Tracked(r, i) : r.sampled_addresses_[i][b] = s.sampled_addresses_[i][b]
<1> DEFINE r == DeleteAddresses(s, o, addrs)
           left == Restrict(s.sampled_addresses_[o], Tracked(s, o) \ addrs)
<1>1. left = [b \in Tracked(s, o) \ addrs |-> s.sampled_addresses_[o][b]]
  BY DEF Restrict
<1>2. r.sampled_addresses_ = [s.sampled_addresses_ EXCEPT ![o] = left]
  BY DEF DeleteAddresses, Sampler
<1> HIDE DEF r, left
<1>3. r.sampled_addresses_[i] = IF i = o THEN left ELSE s.sampled_addresses_[i]
  BY <1>2 DEF Sampler
<1> QED
  BY <1>1, <1>3 DEF Tracked, r

LEMMA InvalidateMaps ==
  ASSUME NEW s \in Sampler, NEW others \in SUBSET Thread, NEW a \in Block, NEW i \in Thread
  PROVE  LET r == Invalidate(s, others, a) IN
         /\ Tracked(r, i) \subseteq Tracked(s, i)
         /\ \A b \in Tracked(r, i) :
              r.sampled_addresses_[i][b] =
                IF i \in others THEN WithHole(s.sampled_addresses_[i][b], a)
                                ELSE s.sampled_addresses_[i][b]
<1> DEFINE r == Invalidate(s, others, a)
           left == [b \in Tracked(s, i) \ {a} |-> WithHole(s.sampled_addresses_[i][b], a)]
<1>1. r.sampled_addresses_[i] = IF i \in others THEN left ELSE s.sampled_addresses_[i]
  BY DEF Invalidate, Sampler
<1> HIDE DEF r
<1> QED
  BY <1>1 DEF Tracked, r

LEMMA ExtendMaps ==
  ASSUME NEW s \in Sampler, NEW o \in Thread, NEW a \in Block, NEW i \in Thread
  PROVE  LET r == Extend(s, o, a) IN
         /\ Tracked(r, i) \subseteq Tracked(s, i)
         /\ \A b \in Tracked(r, i) :
              r.sampled_addresses_[i][b] =
                IF i = o THEN WithReference(s.sampled_addresses_[i][b], a)
                         ELSE s.sampled_addresses_[i][b]
<1> DEFINE r == Extend(s, o, a)
           map == [b \in Tracked(s, o) |-> WithReference(s.sampled_addresses_[o][b], a)]
<1>1. r.sampled_addresses_ = [s.sampled_addresses_ EXCEPT ![o] = map]
  BY DEF Extend, Sampler
<1> HIDE DEF r
<1>2. r.sampled_addresses_[i] = IF i = o THEN map ELSE s.sampled_addresses_[i]
  BY <1>1 DEF Sampler
<1> QED
  BY <1>2 DEF Tracked, r

\* What a reference does to one sample of the map i that it does not end.
AfterAccess(s, t, i, sample, a, is_write) ==
  IF i = Owner(s, t) THEN WithReference(sample, a)
  ELSE IF is_write /\ s.type = "private" THEN WithHole(sample, a) ELSE sample

LEMMA AccessMaps ==
  ASSUME NEW s \in Sampler, Accounted(s), NEW t \in Thread, NEW a \in Block,
         NEW is_write \in BOOLEAN, NEW i \in Thread
  PROVE  LET r == SampleAccess(s, t, a, is_write) IN
         /\ Owner(r, t) = Owner(s, t) /\ r.type = s.type
         /\ Tracked(r, i) \subseteq Tracked(s, i)
         /\ \A b \in Tracked(r, i) :
              r.sampled_addresses_[i][b] =
                AfterAccess(s, t, i, s.sampled_addresses_[i][b], a, is_write)
<1> DEFINE o == Owner(s, t)
           others == IF is_write /\ s.type = "private" THEN Thread \ {t} ELSE {}
           reused == DeleteAddresses(s, o, Tracked(s, o) \cap {a})
           invalidated == Invalidate(reused, others, a)
           extended == Extend(invalidated, o, a)
           full == FullSets(extended, o)
           r == DeleteAddresses(extended, o, full)
<1>1. others \in SUBSET Thread /\ (i \in others => i # o)
      /\ (i # o => (i \in others <=> is_write /\ s.type = "private"))
  BY DEF Owner
<1>2. o \in Thread
  BY OwnerIsThread
<1> HIDE DEF others, o
<1>3. /\ reused \in Sampler /\ Accounted(reused) /\ reused.type = s.type
      /\ Tracked(reused, i) \subseteq Tracked(s, i)
      /\ \A b \in Tracked(reused, i) :
           reused.sampled_addresses_[i][b] = s.sampled_addresses_[i][b]
  BY <1>2, DeleteIsAccounted, DeleteMaps
<1> HIDE DEF reused
<1>4. /\ invalidated \in Sampler /\ Accounted(invalidated) /\ invalidated.type = s.type
      /\ Tracked(invalidated, i) \subseteq Tracked(reused, i)
      /\ \A b \in Tracked(invalidated, i) :
           invalidated.sampled_addresses_[i][b] =
             IF i \in others THEN WithHole(reused.sampled_addresses_[i][b], a)
                             ELSE reused.sampled_addresses_[i][b]
  BY <1>1, <1>3, InvalidateIsAccounted, InvalidateMaps
<1> HIDE DEF invalidated
<1>5. /\ extended \in Sampler /\ Accounted(extended) /\ extended.type = s.type
      /\ Tracked(extended, i) \subseteq Tracked(invalidated, i)
      /\ \A b \in Tracked(extended, i) :
           extended.sampled_addresses_[i][b] =
             IF i = o THEN WithReference(invalidated.sampled_addresses_[i][b], a)
                      ELSE invalidated.sampled_addresses_[i][b]
  BY <1>2, <1>4, ExtendIsAccounted, ExtendMaps
<1>6. full \subseteq Tracked(extended, o)
  BY DEF FullSets
<1> HIDE DEF extended, full
<1>7. /\ r.type = s.type /\ Tracked(r, i) \subseteq Tracked(extended, i)
      /\ \A b \in Tracked(r, i) : r.sampled_addresses_[i][b] = extended.sampled_addresses_[i][b]
  BY <1>2, <1>5, <1>6, DeleteIsAccounted, DeleteMaps
<1>8. SampleAccess(s, t, a, is_write) = r
  BY DEF SampleAccess, others, o, reused, invalidated, extended, full
<1> HIDE DEF r
<1>9. Tracked(r, i) \subseteq Tracked(s, i)
  BY <1>3, <1>4, <1>5, <1>7
<1>10. ASSUME NEW b \in Tracked(r, i)
       PROVE  r.sampled_addresses_[i][b] =
                AfterAccess(s, t, i, s.sampled_addresses_[i][b], a, is_write)
  <2>1. b \in Tracked(extended, i) /\ b \in Tracked(invalidated, i) /\ b \in Tracked(reused, i)
    BY <1>3, <1>4, <1>5, <1>7
  <2>2. CASE i = o
    BY <1>1, <1>3, <1>4, <1>5, <1>7, <2>1, <2>2 DEF AfterAccess, o
  <2>3. CASE i # o
    BY <1>1, <1>3, <1>4, <1>5, <1>7, <2>1, <2>3 DEF AfterAccess, o
  <2> QED
    BY <2>2, <2>3
<1>11. Owner(r, t) = Owner(s, t) /\ r.type = s.type
  BY <1>7 DEF Owner
<1> QED
  BY <1>8, <1>9, <1>10, <1>11

-----------------------------------------------------------------------------
(* The list of a map and its samples                                       *)

\* One list has all samples of the map.
Lists(list, map) ==
  /\ IsList(list)
  /\ \A b \in Block : HasMark(list, b) <=> b \in DOMAIN map
  /\ \A b \in DOMAIN map : Shows(list, b, map[b])

LEMMA MarksAre ==
  ASSUME NEW list, IsList(list)
  PROVE  Marks(list) = {b \in Block : HasMark(list, b)}
<1>1. DOMAIN list = 1 .. Len(list) /\ \A i \in 1 .. Len(list) : list[i] \in Entries
  BY ListFacts
<1>2. ASSUME NEW i \in 1 .. Len(list), IsMark(list[i])
      PROVE  \E b \in Block : list[i] = Entry("mark", b) /\ list[i][2] = b
  BY <1>1, <1>2, EntryCases, EntryKinds
<1>3. Marks(list) \subseteq {b \in Block : HasMark(list, b)}
  BY <1>1, <1>2 DEF Marks, HasMark
<1>4. ASSUME NEW b \in Block, HasMark(list, b) PROVE b \in Marks(list)
  <2>1. PICK i \in 1 .. Len(list) : list[i] = Entry("mark", b)
    BY <1>4 DEF HasMark
  <2>2. IsMark(list[i]) /\ list[i][2] = b
    BY <2>1, EntryKinds
  <2> QED
    BY <1>1, <2>2 DEF Marks
<1> QED
  BY <1>3, <1>4

\* The samples that are left have their marks.
LEMMA Pruned ==
  ASSUME NEW list, IsList(list), NEW map \in SampleMap,
         \A b \in DOMAIN map : HasMark(list, b) /\ Shows(list, b, map[b])
  PROVE  Lists(Unmarked(list, Marks(list) \ DOMAIN map), map)
<1> DEFINE blocks == Marks(list) \ DOMAIN map
           new == Unmarked(list, blocks)
<1>1. /\ IsList(new)
      /\ \A b \in Block : HasMark(new, b) <=> HasMark(list, b) /\ b \notin blocks
      /\ \A b \in Block, sample \in Sample :
           b \notin blocks /\ Shows(list, b, sample) => Shows(new, b, sample)
  BY UnmarkedEffect
<1>2. DOMAIN map \subseteq Block /\ \A b \in DOMAIN map : map[b] \in Sample /\ b \notin blocks
  BY MapDomain
<1>3. \A b \in Block : HasMark(list, b) /\ b \notin blocks => b \in DOMAIN map
  BY MarksAre
<1> HIDE DEF new, blocks
<1>4. \A b \in Block : HasMark(new, b) <=> b \in DOMAIN map
  BY <1>1, <1>2, <1>3
<1>5. \A b \in DOMAIN map : Shows(new, b, map[b])
  BY <1>1, <1>2
<1> QED
  BY <1>1, <1>4, <1>5 DEF Lists, new, blocks

\* The history of a reference, of one map.
LEMMA AccessKeepsList ==
  ASSUME NEW s \in Sampler, Accounted(s), NEW t \in Thread, NEW a \in Block,
         NEW is_write \in BOOLEAN, NEW i \in Thread,
         NEW list, Lists(list, s.sampled_addresses_[i]), NEW r,
         r = SampleAccess(s, t, a, is_write), NEW seen,
         seen = IF i = Owner(r, t) THEN Touched(list, a)
                ELSE IF is_write /\ r.type = "private" THEN Snooped(list, a) ELSE list
  PROVE  Lists(Unmarked(seen, Marks(seen) \ Tracked(r, i)), r.sampled_addresses_[i])
<1>1. /\ r \in Sampler /\ Owner(r, t) = Owner(s, t) /\ r.type = s.type
      /\ Tracked(r, i) \subseteq Tracked(s, i)
      /\ \A b \in Tracked(r, i) :
           r.sampled_addresses_[i][b] =
             AfterAccess(s, t, i, s.sampled_addresses_[i][b], a, is_write)
  BY AccessIsAccounted, AccessMaps
<1>2. /\ IsList(list) /\ \A b \in Block : HasMark(list, b) <=> b \in Tracked(s, i)
      /\ \A b \in Tracked(s, i) : Shows(list, b, s.sampled_addresses_[i][b])
  BY DEF Lists, Tracked
<1>3. s.sampled_addresses_[i] \in SampleMap /\ r.sampled_addresses_[i] \in SampleMap
  BY <1>1 DEF Sampler
<1>4. Tracked(s, i) \subseteq Block /\ \A b \in Tracked(s, i) : s.sampled_addresses_[i][b] \in Sample
  BY <1>3, MapDomain DEF Tracked
<1>5. /\ IsList(seen)
      /\ \A b \in Block : HasMark(seen, b) <=> HasMark(list, b)
      /\ \A b \in Block, sample \in Sample :
           Shows(list, b, sample) => Shows(seen, b, AfterAccess(s, t, i, sample, a, is_write))
  <2>1. CASE i = Owner(s, t)
    <3>1. seen = Touched(list, a)
          /\ \A sample : AfterAccess(s, t, i, sample, a, is_write) = WithReference(sample, a)
      BY <1>1, <2>1 DEF AfterAccess
    <3> QED
      BY <1>2, <3>1, TouchedEffect
  <2>2. CASE i # Owner(s, t) /\ is_write /\ s.type = "private"
    <3>1. seen = Snooped(list, a)
          /\ \A sample : AfterAccess(s, t, i, sample, a, is_write) = WithHole(sample, a)
      BY <1>1, <2>2 DEF AfterAccess
    <3> QED
      BY <1>2, <3>1, SnoopedEffect
  <2>3. CASE i # Owner(s, t) /\ ~(is_write /\ s.type = "private")
    <3>1. seen = list /\ \A sample : AfterAccess(s, t, i, sample, a, is_write) = sample
      BY <1>1, <2>3 DEF AfterAccess
    <3> QED
      BY <1>2, <3>1
  <2> QED
    BY <2>1, <2>2, <2>3
<1>6. \A b \in Tracked(r, i) : HasMark(seen, b) /\ Shows(seen, b, r.sampled_addresses_[i][b])
  BY <1>1, <1>2, <1>4, <1>5
<1> QED
  BY <1>3, <1>5, <1>6, Pruned DEF Tracked

\* A sample that is taken.
LEMMA NewKeepsList ==
  ASSUME NEW list, NEW map \in SampleMap, Lists(list, map), NEW a \in Block, a \notin DOMAIN map,
         NEW new, new = [b \in DOMAIN map \cup {a} |->
                           IF b = a THEN [set |-> {}, hole_count |-> 0] ELSE map[b]]
  PROVE  Lists(Marked(list, a), new)
<1>1. /\ IsList(list) /\ ~HasMark(list, a)
      /\ \A b \in Block : HasMark(list, b) <=> b \in DOMAIN map
      /\ \A b \in DOMAIN map : Shows(list, b, map[b])
  BY DEF Lists
<1>2. /\ IsList(Marked(list, a))
      /\ \A b \in Block : HasMark(Marked(list, a), b) <=> HasMark(list, b) \/ b = a
      /\ Shows(Marked(list, a), a, [set |-> {}, hole_count |-> 0])
      /\ \A b \in Block, sample \in Sample :
           Shows(list, b, sample) => Shows(Marked(list, a), b, sample)
  BY <1>1, MarkedEffect
<1>3. DOMAIN map \subseteq Block /\ \A b \in DOMAIN map : map[b] \in Sample
  BY MapDomain
<1>4. DOMAIN new = DOMAIN map \cup {a}
  OBVIOUS
<1>5. \A b \in DOMAIN new : Shows(Marked(list, a), b, new[b])
  <2> SUFFICES ASSUME NEW b \in DOMAIN new PROVE Shows(Marked(list, a), b, new[b])
    OBVIOUS
  <2>1. CASE b = a
    <3>1. new[b] = [set |-> {}, hole_count |-> 0]
      BY <2>1
    <3> QED
      BY <1>2, <2>1, <3>1
  <2>2. CASE b # a
    <3>1. b \in DOMAIN map /\ new[b] = map[b]
      BY <2>2
    <3> QED
      BY <1>1, <1>2, <1>3, <3>1
  <2> QED
    BY <2>1, <2>2
<1>6. \A b \in Block : HasMark(Marked(list, a), b) <=> b \in DOMAIN new
  BY <1>1, <1>2, <1>4
<1> QED
  BY <1>2, <1>5, <1>6 DEF Lists

LEMMA EmptyLists == Lists(<<>>, <<>>)
<1>1. IsList(<<>>) /\ Len(<<>>) = 0 /\ DOMAIN <<>> = {}
  BY DEF IsList
<1> QED
  BY <1>1 DEF Lists, HasMark

-----------------------------------------------------------------------------
(* One list                                                                *)

ListInv ==
  /\ DOMAIN recency = Thread
  /\ \A o \in Thread : Lists(recency[o], sampler.sampled_addresses_[o])

LEMMA ListInit == Init => ListInv
<1> SUFFICES ASSUME Init PROVE ListInv
  OBVIOUS
<1>1. PICK type \in StackType, limit \in Limits : sampler = NewSampler(type, limit)
  BY DEF Init
<1>2. recency = [t \in Thread |-> <<>>]
  BY DEF Init
<1>3. sampler.sampled_addresses_ = [t \in Thread |-> <<>>]
  BY <1>1 DEF NewSampler
<1> QED
  BY <1>2, <1>3, EmptyLists DEF ListInv

LEMMA ListKept ==
  ASSUME ListInv, UNCHANGED recency, sampler'.sampled_addresses_ = sampler.sampled_addresses_
  PROVE  ListInv'
<1>1. DOMAIN recency' = Thread
      /\ \A o \in Thread : Lists(recency'[o], sampler'.sampled_addresses_[o])
  BY DEF ListInv
<1> QED
  BY <1>1 DEF ListInv, Lists, IsList, HasMark, Shows, Agree, BlocksTo, HolesTo

LEMMA AccessStep ==
  ASSUME Inv, ListInv, NEW t \in Thread, Access(t)
  PROVE  ListInv'
<1> DEFINE a == ref[t][1]
           is_write == ref[t][2]
           s == SampleAccess(sampler, t, a, is_write)
<1>1. sampler \in Sampler /\ Accounted(sampler) /\ ref[t] \in Block \X BOOLEAN
  BY DEF Inv, Typed, TypeOK, Access
<1>2. a \in Block /\ is_write \in BOOLEAN
  BY <1>1
<1>3. CASE Analysed(t)
  <2>1. sampler' = s /\ recency' = Recent(t, a, is_write, s)
    BY <1>3 DEF Access
  <2> HIDE DEF a, is_write
  <2>2. DOMAIN recency' = Thread
    BY <2>1 DEF Recent
  <2>3. ASSUME NEW i \in Thread
        PROVE  Lists(recency'[i], s.sampled_addresses_[i])
    <3> DEFINE seen == IF i = Owner(s, t) THEN Touched(recency[i], a)
                       ELSE IF is_write /\ s.type = "private" THEN Snooped(recency[i], a)
                       ELSE recency[i]
    <3>1. recency'[i] = Unmarked(seen, Marks(seen) \ Tracked(s, i))
      BY <2>1 DEF Recent
    <3>2. Lists(recency[i], sampler.sampled_addresses_[i])
      BY DEF ListInv
    <3> HIDE DEF s
    <3>3. s = SampleAccess(sampler, t, a, is_write)
      BY DEF s
    <3>4. Lists(Unmarked(seen, Marks(seen) \ Tracked(s, i)), s.sampled_addresses_[i])
      BY <1>1, <1>2, <3>2, <3>3, AccessKeepsList
    <3> QED
      BY <3>1, <3>4
  <2> HIDE DEF s
  <2>4. \A i \in Thread : Lists(recency'[i], sampler'.sampled_addresses_[i])
    BY <2>1, <2>3
  <2> QED
    BY <2>2, <2>4 DEF ListInv, Lists, IsList, HasMark, Shows, Agree, BlocksTo, HolesTo
<1>4. CASE ~Analysed(t)
  BY <1>4, ListKept DEF Access
<1> QED
  BY <1>3, <1>4

LEMMA SampleStep ==
  ASSUME Inv, ListInv, NEW t \in Thread, TakeSample(t)
  PROVE  ListInv'
<1> DEFINE a == ref[t][1]
           o == Owner(sampler, t)
           s == NewSampledAddress(sampler, t, a)
           map == sampler.sampled_addresses_[o]
           new == [b \in Tracked(sampler, o) \cup {a} |->
                     IF b = a THEN [set |-> {}, hole_count |-> 0] ELSE map[b]]
<1>1. sampler \in Sampler /\ ref[t] \in Block \X BOOLEAN
  BY DEF Inv, Typed, TypeOK, TakeSample
<1>2. a \in Block /\ o \in Thread
  BY <1>1, OwnerIsThread
<1>3. /\ sampler' = s
      /\ recency' = IF s = sampler THEN recency ELSE [recency EXCEPT ![o] = Marked(@, a)]
  BY DEF TakeSample
<1>4. CASE s = sampler
  BY <1>3, <1>4, ListKept
<1>5. CASE s # sampler
  <2>1. Enabled(sampler, t) /\ a \notin Tracked(sampler, o)
    BY <1>5 DEF NewSampledAddress
  <2>2. sampler'.sampled_addresses_ = [sampler.sampled_addresses_ EXCEPT ![o] = new]
    BY <1>1, <1>3, <2>1 DEF NewSampledAddress, Sampler
  <2> HIDE DEF s, a, o
  <2>3. recency' = [recency EXCEPT ![o] = Marked(recency[o], a)]
    BY <1>3, <1>5
  <2>4. map \in SampleMap /\ Lists(recency[o], map)
    BY <1>1, <1>2 DEF ListInv, Sampler
  <2>5. new = [b \in DOMAIN map \cup {a} |->
                 IF b = a THEN [set |-> {}, hole_count |-> 0] ELSE map[b]]
    BY DEF Tracked
  <2>6. Lists(Marked(recency[o], a), new)
    <3>1. a \notin DOMAIN map
      BY <2>1 DEF Tracked
    <3> HIDE DEF new, map
    <3> QED
      BY <1>2, <2>4, <2>5, <3>1, NewKeepsList
  <2> HIDE DEF new
  <2>7. ASSUME NEW i \in Thread PROVE Lists(recency'[i], sampler'.sampled_addresses_[i])
    <3>1. CASE i = o
      <4>1. recency'[i] = Marked(recency[o], a) /\ sampler'.sampled_addresses_[i] = new
        BY <1>1, <1>2, <2>2, <2>3, <3>1 DEF ListInv, Sampler
      <4> QED
        BY <2>6, <4>1
    <3>2. CASE i # o
      <4>1. recency'[i] = recency[i]
            /\ sampler'.sampled_addresses_[i] = sampler.sampled_addresses_[i]
        BY <1>1, <2>2, <2>3, <3>2 DEF ListInv, Sampler
      <4> QED
        BY <4>1 DEF ListInv
    <3> QED
      BY <3>1, <3>2
  <2>8. DOMAIN recency' = Thread
    BY <2>3 DEF ListInv
  <2> QED
    BY <2>7, <2>8 DEF ListInv, Lists, IsList, HasMark, Shows, Agree, BlocksTo, HolesTo
<1> QED
  BY <1>4, <1>5

LEMMA ListStep ==
  ASSUME Inv, ListInv, [Next]_vars
  PROVE  ListInv'
<1>1. ASSUME NEW t \in Thread, ThreadStep(t) PROVE ListInv'
  <2>1. CASE UNCHANGED <<sampler, recency>>
    BY <2>1, ListKept
  <2>2. sampler \in Sampler
    BY DEF Inv, Typed, TypeOK
  <2>3. CASE ThreadStart(t)
    <3>1. sampler' = [sampler EXCEPT !.thread_enable_[t] = TRUE] /\ UNCHANGED recency
      BY <2>3 DEF ThreadStart, Allocate
    <3> QED
      BY <2>2, <3>1, ListKept DEF Sampler
  <2>4. CASE SetGlobalEnable(t)
    <3>1. sampler' = [sampler EXCEPT !.global_enable_ = ~sampler.global_enable_] /\ UNCHANGED recency
      BY <2>4 DEF SetGlobalEnable
    <3> QED
      BY <2>2, <3>1, ListKept DEF Sampler
  <2>5. CASE SetThreadEnable(t)
    <3>1. sampler' = [sampler EXCEPT !.thread_enable_[t] = ~sampler.thread_enable_[t]]
          /\ UNCHANGED recency
      BY <2>5 DEF SetThreadEnable
    <3> QED
      BY <2>2, <3>1, ListKept DEF Sampler
  <2>6. CASE \/ EnterBlock(t) \/ SampleTrigger(t)
             \/ \E a \in Block, is_write \in BOOLEAN : MemRef(t, a, is_write)
             \/ CheckActive(t) \/ ResetSampling(t) \/ DropActive(t) \/ Watch(t) \/ CountSample(t)
    <3>1. UNCHANGED <<sampler, recency>>
      BY <2>6 DEF EnterBlock, SampleTrigger, MemRef, CheckActive, ResetSampling, DropActive,
                  Watch, CountSample
    <3> QED
      BY <2>1, <3>1
  <2> QED
    BY <1>1, <2>3, <2>4, <2>5, <2>6, AccessStep, SampleStep DEF ThreadStep
<1>2. CASE Fini
  <2>1. recency' = [t \in Thread |-> <<>>]
    BY <1>2 DEF Fini
  <2>2. sampler' = RecordLeftovers(sampler) /\ sampler \in Sampler
    BY <1>2 DEF Fini, Inv, Typed, TypeOK
  <2>3. sampler'.sampled_addresses_ = [t \in Thread |-> <<>>]
    BY <2>2 DEF RecordLeftovers, Sampler
  <2>4. DOMAIN recency' = Thread
        /\ \A o \in Thread : Lists(recency'[o], sampler'.sampled_addresses_[o])
    BY <2>1, <2>3, EmptyLists
  <2> QED
    BY <2>4 DEF ListInv, Lists, IsList, HasMark, Shows, Agree, BlocksTo, HolesTo
<1>3. CASE UNCHANGED vars
  BY <1>3, ListKept DEF vars
<1> QED
  BY <1>1, <1>2, <1>3 DEF Next

\* What the list says of a sample is what lies above its mark.
LEMMA ListsShow ==
  ASSUME NEW list, NEW map \in SampleMap, Lists(list, map), NEW b \in DOMAIN map
  PROVE  LET above == AboveMark(list, b) IN
         /\ map[b].set = {list[i][2] : i \in {j \in above : list[j] # Hole}}
         /\ map[b].hole_count = Cardinality({i \in above : list[i] = Hole})
<1> DEFINE above == AboveMark(list, b)
<1>1. IsList(list) /\ b \in Block
  BY MapDomain DEF Lists
<1>2. PICK n \in 1 .. Len(list) : list[n] = Entry("mark", b) /\ Agree(list, n, map[b])
  BY DEF Lists, Shows
<1>3. DOMAIN list = 1 .. Len(list) /\ Len(list) \in Nat
      /\ \A i \in 1 .. Len(list) : list[i] \in Entries
      /\ \A j \in 1 .. Len(list) : list[j] = Entry("mark", b) <=> j = n
  BY <1>1, <1>2, ListFacts, EntryKinds
<1>4. above = {i \in 1 .. n - 1 : ~IsMark(list[i])}
  <2> DEFINE mark == CHOOSE i \in DOMAIN list : list[i] = Entry("mark", b)
  <2>1. mark = n
    BY <1>2, <1>3
  <2>2. above = {i \in 1 .. mark - 1 : ~IsMark(list[i])}
    BY DEF AboveMark
  <2> HIDE DEF mark
  <2> QED
    BY <2>1, <2>2
<1>5. 1 .. n - 1 \subseteq 1 .. Len(list)
  BY <1>3
<1> HIDE DEF above
<1>6. map[b].set = BlocksTo(list, n - 1) /\ map[b].hole_count = Cardinality(HolesTo(list, n - 1))
  BY <1>1, <1>2, MarksDoNotCount DEF Agree
<1>7. {i \in above : list[i] = Hole} = HolesTo(list, n - 1)
  BY <1>4, EntryKinds DEF HolesTo
<1>8. {list[i][2] : i \in {j \in above : list[j] # Hole}} = BlocksTo(list, n - 1)
  <2>1. ASSUME NEW i \in above, list[i] # Hole PROVE list[i][2] \in BlocksTo(list, n - 1)
    <3>1. i \in 1 .. n - 1 /\ ~IsMark(list[i]) /\ list[i] \in Entries
      BY <1>3, <1>4, <1>5
    <3>2. PICK c \in Block : list[i] = Entry("block", c)
      BY <2>1, <3>1, EntryCases, EntryKinds
    <3> QED
      BY <3>1, <3>2, EntryKinds DEF BlocksTo
  <2>2. ASSUME NEW c \in BlocksTo(list, n - 1)
        PROVE  \E i \in above : list[i] # Hole /\ list[i][2] = c
    <3>1. c \in Block
      BY DEF BlocksTo
    <3>2. PICK i \in 1 .. n - 1 : list[i] = Entry("block", c)
      BY DEF BlocksTo
    <3> QED
      BY <1>4, <3>1, <3>2, EntryKinds
  <2> QED
    BY <2>1, <2>2
<1> QED
  BY <1>6, <1>7, <1>8 DEF above

-----------------------------------------------------------------------------
(* The properties                                                          *)

\* The variables of the tool and the record of the sampler have their types; in
\* particular the unsigned counters active_samples and global_tracked_address_count_ are
\* never decremented below zero.
THEOREM TypeCorrect == Spec => []TypeOK
<1>1. Inv => TypeOK
  BY DEF Inv, Typed
<1> QED
  BY <1>1, Invariance, PTL

\* Every sample taken is tracked in one map or was recorded, once, and the global count is
\* the number of those tracked: DumpStats' checks never fail, for any number of threads,
\* blocks and samples, private maps or a shared one.
THEOREM SamplesAccounted == Spec => []SamplesAreAccounted
<1>1. Inv => SamplesAreAccounted
  BY DEF Inv, Accounted, OwnAccount, SamplesAreAccounted
<1> QED
  BY <1>1, Invariance, PTL

\* While a block is tracked references are looked at and active_samples counts it, although
\* sampling and active_samples are read without the lock.
THEOREM TrackedWatched == Spec => []TrackedIsWatched
<1>1. Inv => TrackedIsWatched
  <2> SUFFICES ASSUME Inv, ~NoneTracked(sampler)
               PROVE  /\ sampling = 1 \/ \E t \in Thread : pc[t] \in {"watch"}
                      /\ active_samples
                           + (IF \E t \in Thread : pc[t] \in {"watch", "count"} THEN 1 ELSE 0)
                           >= Count
    BY DEF TrackedIsWatched, Count
  <2>1. Count # 0 /\ Watched /\ Counts
    BY DEF Inv, ControlInv, NoneTracked, Count
  <2> QED
    BY <2>1 DEF Watched, Counts, At
<1> QED
  BY <1>1, Invariance, PTL

\* Where sampling is on, a sample is counted or a thread has yet to choose one: no thread
\* leaves it on for good when the last sample goes.
THEOREM SamplingCaused == Spec => []SamplingHasACause
<1>1. Inv => SamplingHasACause
  BY DEF Inv, ControlInv
<1> QED
  BY <1>1, Invariance, PTL

\* The samples of a map, each with a set and a count of holes of its own, are those of
\* one list of what its threads used since, in which the newest hole is filled first: what
\* WithReference and WithHole do to every sample by itself is one step of that list, for
\* any number of samples, of threads and of writes, private maps or a shared one.
THEOREM SamplesOneList == Spec => []SamplesFormOneList
<1>1. Inv /\ ListInv => SamplesFormOneList
  <2> SUFFICES ASSUME Inv, ListInv, NEW o \in Thread
               PROVE  /\ Marks(recency[o]) = Tracked(sampler, o)
                      /\ \A b \in Tracked(sampler, o) :
                           LET above == AboveMark(recency[o], b)
                               sample == sampler.sampled_addresses_[o][b]
                           IN /\ sample.set =
                                   {recency[o][i][2] : i \in {j \in above : recency[o][j] # Hole}}
                              /\ sample.hole_count =
                                   Cardinality({i \in above : recency[o][i] = Hole})
    BY DEF SamplesFormOneList
  <2>1. sampler.sampled_addresses_[o] \in SampleMap
        /\ Lists(recency[o], sampler.sampled_addresses_[o])
    BY DEF Inv, Typed, TypeOK, Sampler, ListInv
  <2>2. Marks(recency[o]) = Tracked(sampler, o)
    <3>1. DOMAIN sampler.sampled_addresses_[o] \subseteq Block
      BY <2>1, MapDomain
    <3>2. Marks(recency[o]) = {b \in Block : HasMark(recency[o], b)}
      BY <2>1, MarksAre DEF Lists
    <3> QED
      BY <2>1, <3>1, <3>2 DEF Lists, Tracked
  <2> QED
    BY <2>1, <2>2, ListsShow DEF Tracked
<1>2. Init => ListInv
  BY ListInit
<1>3. Inv /\ ListInv /\ [Next]_vars => ListInv'
  BY ListStep
<1> QED
  BY <1>1, <1>2, <1>3, Invariance, PTL DEF Spec
=============================================================================
