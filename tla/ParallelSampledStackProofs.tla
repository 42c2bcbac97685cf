----------------------- MODULE ParallelSampledStackProofs -----------------------
(***************************************************************************)
(* Theorems about ParallelSampledStack that hold whatever threads join and *)
(* when, for every number of threads, blocks, samples and triggers: the    *)
(* state stays well formed, every sample is in one list or about to be put *)
(* there, oldest_distance_set_ is the end of its list, and                 *)
(* active_sample_count is the number of samples linked and announced.      *)
(***************************************************************************)
EXTENDS ParallelSampledStack, ThreadQueueProofs, FiniteSetTheorems

-----------------------------------------------------------------------------
(* Lists of samples                                                        *)

\* What ToSet and Last are of a list.
LEMMA ListElements ==
  ASSUME NEW S, NEW s \in Seq(S)
  PROVE  /\ ToSet(s) = {s[i] : i \in 1 .. Len(s)} /\ ToSet(s) \subseteq S
         /\ s = <<>> <=> ToSet(s) = {}
         /\ s # <<>> => Last(s) = s[Len(s)] /\ Last(s) \in ToSet(s)
<1>1. Len(s) \in Nat /\ DOMAIN s = 1 .. Len(s) /\ \A i \in 1 .. Len(s) : s[i] \in S
  OBVIOUS
<1>2. s = <<>> <=> Len(s) = 0
  OBVIOUS
<1>3. ToSet(s) = {s[i] : i \in 1 .. Len(s)}
  BY <1>1 DEF ToSet
<1>4. s # <<>> => Len(s) \in 1 .. Len(s)
  BY <1>1, <1>2
<1>5. Last(s) = s[Len(s)]
  BY DEF Last
<1> QED
  BY <1>1, <1>2, <1>3, <1>4, <1>5

\* A list with one more element at its end, or at its front.
LEMMA ListAppend ==
  ASSUME NEW S, NEW s \in Seq(S), NEW e \in S
  PROVE  /\ Append(s, e) \in Seq(S) /\ Append(s, e) # <<>>
         /\ ToSet(Append(s, e)) = ToSet(s) \cup {e}
         /\ Last(Append(s, e)) = e
         /\ Len(Append(s, e)) = Len(s) + 1
<1> DEFINE c == Append(s, e)
<1>1. /\ c \in Seq(S) /\ Len(c) = Len(s) + 1 /\ c[Len(s) + 1] = e
      /\ \A i \in 1 .. Len(s) : c[i] = s[i]
      /\ Len(s) \in Nat
  OBVIOUS
<1>2. 1 .. Len(c) = (1 .. Len(s)) \cup {Len(s) + 1}
  BY <1>1
<1> HIDE DEF c
<1>3. c # <<>>
  BY <1>1
<1>4. ToSet(c) = {c[i] : i \in 1 .. Len(c)} /\ ToSet(s) = {s[i] : i \in 1 .. Len(s)}
      /\ Last(c) = c[Len(c)]
  BY <1>1, ListElements DEF Last
<1>5. {c[i] : i \in 1 .. Len(s)} = {s[i] : i \in 1 .. Len(s)}
  BY <1>1
<1>6. {c[i] : i \in 1 .. Len(c)} = {c[i] : i \in 1 .. Len(s)} \cup {c[Len(s) + 1]}
  BY <1>2
<1> QED
  BY <1>1, <1>3, <1>4, <1>5, <1>6 DEF c

LEMMA ListReplace ==
  ASSUME NEW S, NEW s \in Seq(S), NEW e \in S
  PROVE  /\ ReplaceAt(s, 1, e) \in Seq(S) /\ Len(ReplaceAt(s, 1, e)) = Len(s)
         /\ s # <<>> => Head(ReplaceAt(s, 1, e)) = e
         /\ Len(s) = 1 => ToSet(ReplaceAt(s, 1, e)) = {e}
<1> DEFINE c == ReplaceAt(s, 1, e)
<1>1. c = [i \in 1 .. Len(s) |-> IF i = 1 THEN e ELSE s[i]] /\ Len(s) \in Nat
  BY DEF ReplaceAt
<1>2. \A i \in 1 .. Len(s) : (IF i = 1 THEN e ELSE s[i]) \in S
  OBVIOUS
<1>3. c \in Seq(S) /\ Len(c) = Len(s)
  BY <1>1, <1>2
<1>4. ToSet(c) = {c[i] : i \in 1 .. Len(c)}
  BY <1>3, ListElements
<1>5. s # <<>> => c[1] = e /\ Head(c) = c[1]
  BY <1>1, <1>3
<1>6. Len(s) = 1 => c[1] = e
  BY <1>1
<1> HIDE DEF c
<1>7. Len(s) = 1 => ToSet(c) = {e}
  BY <1>3, <1>4, <1>6
<1> QED
  BY <1>3, <1>5, <1>7 DEF c

LEMMA ListPrepend ==
  ASSUME NEW S, NEW s \in Seq(S), NEW e \in S
  PROVE  /\ Cons(e, s) \in Seq(S) /\ Cons(e, s) # <<>>
         /\ ToSet(Cons(e, s)) = ToSet(s) \cup {e}
         /\ Last(Cons(e, s)) = IF s = <<>> THEN e ELSE Last(s)
         /\ Len(Cons(e, s)) = Len(s) + 1
<1> DEFINE c == Cons(e, s)
<1>1. /\ c \in Seq(S) /\ Len(c) = Len(s) + 1 /\ c[1] = e
      /\ \A i \in 1 .. Len(s) : c[i + 1] = s[i]
      /\ Len(s) \in Nat
  BY DEF Cons
<1>2. \A i \in 1 .. Len(s) + 1 : i = 1 \/ i - 1 \in 1 .. Len(s)
  BY <1>1
<1>3. \A i \in 1 .. Len(c) : i # 1 => i - 1 \in 1 .. Len(s) /\ c[i] = s[i - 1]
  BY <1>1, <1>2
<1> HIDE DEF c
<1>4. ToSet(c) = {c[i] : i \in 1 .. Len(c)} /\ ToSet(s) = {s[i] : i \in 1 .. Len(s)}
      /\ Last(c) = c[Len(c)]
  BY <1>1, ListElements DEF Last
<1>5. ToSet(c) \subseteq ToSet(s) \cup {e}
  <2>1. ASSUME NEW i \in 1 .. Len(c) PROVE c[i] \in ToSet(s) \cup {e}
    <3>1. CASE i = 1
      BY <1>1, <3>1
    <3>2. CASE i # 1
      BY <1>3, <1>4, <3>2
    <3> QED
      BY <3>1, <3>2
  <2> QED
    BY <1>4, <2>1
<1>6. ToSet(s) \cup {e} \subseteq ToSet(c)
  <2>1. e \in ToSet(c)
    BY <1>1, <1>4
  <2>2. \A i \in 1 .. Len(s) : i + 1 \in 1 .. Len(c) /\ s[i] = c[i + 1]
    BY <1>1
  <2> QED
    BY <1>4, <2>1, <2>2
<1>7. Last(c) = IF s = <<>> THEN e ELSE Last(s)
  <2>1. CASE s = <<>>
    BY <1>1, <1>4, <2>1
  <2>2. CASE s # <<>>
    <3>1. Len(s) \in 1 .. Len(s) /\ Last(s) = s[Len(s)]
      BY <2>2 DEF Last
    <3> QED
      BY <1>1, <1>4, <2>2, <3>1
  <2> QED
    BY <2>1, <2>2
<1>8. c # <<>>
  BY <1>1
<1> QED
  BY <1>1, <1>5, <1>6, <1>7, <1>8 DEF c

\* k[n] is what the first n elements of the list have left.
IsLoop(list, dying, k) ==
  /\ k[0] = <<>>
  /\ \A n \in 1 .. Len(list) :
       k[n] = IF list[n] \in dying THEN k[n - 1] ELSE Append(k[n - 1], list[n])

LEMMA UnlinkLoop ==
  ASSUME NEW S, NEW list \in Seq(S), NEW dying
  PROVE  \E k \in [0 .. Len(list) -> Seq(S)] :
           Unlink(list, dying) = k[Len(list)] /\ IsLoop(list, dying, k)
<1> DEFINE N == Len(list)
           Loop(m, k) == /\ k[0] = <<>>
                         /\ \A n \in 1 .. m : k[n] = IF list[n] \in dying THEN k[n - 1]
                                                     ELSE Append(k[n - 1], list[n])
           Fails == {m \in 0 .. N : ~ \E k \in [0 .. m -> Seq(S)] : Loop(m, k)}
           IsKept(k) == k = [n \in 0 .. N |-> IF n = 0 THEN <<>>
                              ELSE IF list[n] \in dying THEN k[n - 1]
                              ELSE Append(k[n - 1], list[n])]
<1>1. N \in Nat /\ \A i \in 1 .. N : list[i] \in S
  OBVIOUS
<1>2. Fails = {}
  <2> SUFFICES ASSUME Fails # {} PROVE FALSE
    OBVIOUS
  <2>1. Fails \subseteq Nat
    BY <1>1
  <2>2. PICK m \in Fails : \A x \in Fails : m <= x
    BY <2>1, LeastNat
  <2>3. m # 0
    <3>1. [n \in 0 .. 0 |-> <<>>] \in [0 .. 0 -> Seq(S)] /\ Loop(0, [n \in 0 .. 0 |-> <<>>])
      OBVIOUS
    <3> QED
      BY <2>2, <3>1
  <2>4. m \in 1 .. N /\ m - 1 \in 0 .. N /\ m - 1 \notin Fails
    <3>1. m \in 0 .. N
      BY <2>2
    <3> HIDE DEF Fails
    <3>2. m \in 1 .. N /\ m - 1 \in 0 .. N /\ ~ (m <= m - 1)
      BY <1>1, <2>3, <3>1
    <3> QED
      BY <2>2, <3>2
  <2>5. PICK k \in [0 .. m - 1 -> Seq(S)] : Loop(m - 1, k)
    BY <2>4
  <2> DEFINE last == IF list[m] \in dying THEN k[m - 1] ELSE Append(k[m - 1], list[m])
             j == [n \in 0 .. m |-> IF n = m THEN last ELSE k[n]]
  <2>6. last \in Seq(S)
    <3>1. m - 1 \in 0 .. m - 1 /\ list[m] \in S
      BY <1>1, <2>4
    <3>2. k[m - 1] \in Seq(S)
      BY <2>5, <3>1
    <3> QED
      BY <3>1, <3>2
  <2> HIDE DEF last
  <2>7. j \in [0 .. m -> Seq(S)] /\ j[m] = last /\ \A n \in 0 .. m - 1 : j[n] = k[n]
    <3>1. \A n \in 0 .. m : n = m \/ n \in 0 .. m - 1
      BY <2>4
    <3>2. m \in 0 .. m /\ m \notin 0 .. m - 1 /\ 0 .. m - 1 \subseteq 0 .. m
      BY <2>4
    <3> QED
      BY <2>5, <2>6, <3>1, <3>2
  <2> HIDE DEF j
  <2>8. Loop(m, j)
    <3>1. j[0] = <<>>
      BY <2>4, <2>5, <2>7
    <3>2. ASSUME NEW n \in 1 .. m
          PROVE  j[n] = IF list[n] \in dying THEN j[n - 1] ELSE Append(j[n - 1], list[n])
      <4>1. CASE n = m
        <5>1. n - 1 \in 0 .. m - 1
          BY <2>4, <4>1
        <5>2. j[n - 1] = k[m - 1]
          BY <2>7, <4>1, <5>1
        <5> QED
          BY <2>7, <4>1, <5>2 DEF last
      <4>2. CASE n # m
        <5>1. n \in 1 .. m - 1 /\ n - 1 \in 0 .. m - 1 /\ n \in 0 .. m - 1
          BY <2>4, <4>2
        <5> QED
          BY <2>5, <2>7, <5>1
      <4> QED
        BY <4>1, <4>2
    <3> QED
      BY <3>1, <3>2
  <2> QED
    BY <2>2, <2>7, <2>8
<1>3. PICK k \in [0 .. N -> Seq(S)] : Loop(N, k)
  <2>1. N \in 0 .. N
    BY <1>1
  <2>2. N \notin Fails
    BY <1>2
  <2> HIDE DEF Loop
  <2> QED
    BY <2>1, <2>2
<1>4. IsKept(k)
  <2>1. \A n \in 0 .. N : n # 0 => n \in 1 .. N
    BY <1>1
  <2> QED
    BY <1>3, <2>1
<1> DEFINE kept == CHOOSE x : IsKept(x)
<1>5. IsKept(kept)
  BY <1>4
<1>6. Unlink(list, dying) = kept[N]
  BY DEF Unlink
<1> HIDE DEF kept
<1>7. \A n \in 0 .. N : kept[n] = k[n]
  <2> DEFINE Differ == {n \in 0 .. N : kept[n] # k[n]}
  <2> SUFFICES ASSUME Differ # {} PROVE FALSE
    OBVIOUS
  <2>1. Differ \subseteq Nat
    BY <1>1
  <2>2. PICK m \in Differ : \A x \in Differ : m <= x
    BY <2>1, LeastNat
  <2>3. m \in 0 .. N /\ kept[m] # k[m]
    BY <2>2
  <2>4. kept[0] = <<>>
    BY <1>1, <1>5
  <2>5. m # 0
    BY <1>3, <2>3, <2>4
  <2>6. m - 1 \in 0 .. N /\ m \in 1 .. N
    BY <1>1, <2>3, <2>5
  <2>7. kept[m - 1] = k[m - 1]
    BY <2>2, <2>6
  <2>8. kept[m] = IF list[m] \in dying THEN kept[m - 1] ELSE Append(kept[m - 1], list[m])
    BY <1>5, <2>3, <2>5
  <2> QED
    BY <1>3, <2>3, <2>6, <2>7, <2>8
<1>8. Unlink(list, dying) = k[N]
  BY <1>1, <1>6, <1>7
<1>9. IsLoop(list, dying, k)
  BY <1>3 DEF IsLoop
<1> QED
  BY <1>8, <1>9

\* Unlink takes the dying samples out, no other, and leaves the end of the list where
\* it is unless that dies.
LEMMA Unlinked ==
  ASSUME NEW S, NEW list \in Seq(S), NEW dying
  PROVE  /\ Unlink(list, dying) \in Seq(S)
         /\ ToSet(Unlink(list, dying)) = ToSet(list) \ dying
         /\ Len(Unlink(list, dying)) <= Len(list)
         /\ ToSet(list) \cap dying # {} => Len(Unlink(list, dying)) < Len(list)
         /\ ToSet(list) \cap dying = {} => Len(Unlink(list, dying)) = Len(list)
         /\ list # <<>> /\ Last(list) \notin dying
              => Unlink(list, dying) # <<>> /\ Last(Unlink(list, dying)) = Last(list)
<1>0. PICK k \in [0 .. Len(list) -> Seq(S)] :
        Unlink(list, dying) = k[Len(list)] /\ IsLoop(list, dying, k)
  BY UnlinkLoop
<1> DEFINE N == Len(list)
<1>2. /\ Unlink(list, dying) = k[N] /\ k[0] = <<>>
      /\ \A n \in 1 .. N :
           k[n] = IF list[n] \in dying THEN k[n - 1] ELSE Append(k[n - 1], list[n])
  BY <1>0 DEF IsLoop
<1>1. N \in Nat /\ \A i \in 1 .. N : list[i] \in S
  OBVIOUS
<1> DEFINE Gone(n) == {i \in 1 .. n : list[i] \in dying}
           Good(n) == /\ ToSet(k[n]) = {list[i] : i \in 1 .. n} \ dying
                      /\ Len(k[n]) <= n
                      /\ Gone(n) # {} => Len(k[n]) < n
                      /\ Gone(n) = {} => Len(k[n]) = n
           Bad == {n \in 0 .. N : ~ Good(n)}
<1>3. Bad = {}
  <2> SUFFICES ASSUME Bad # {} PROVE FALSE
    OBVIOUS
  <2>1. Bad \subseteq Nat
    BY <1>1
  <2>2. PICK m \in Bad : \A x \in Bad : m <= x
    BY <2>1, LeastNat
  <2>3. m \in 0 .. N /\ ~ Good(m)
    BY <2>2
  <2>4. Good(0)
    <3>1. ToSet(k[0]) = {} /\ Len(k[0]) = 0
      <4>1. k[0] = <<>> /\ k[0] \in Seq(S)
        BY <1>1, <1>2
      <4> QED
        BY <4>1, ListElements
    <3>2. Gone(0) = {} /\ {list[i] : i \in 1 .. 0} = {}
      OBVIOUS
    <3> QED
      BY <3>1, <3>2
  <2>5. m \in 1 .. N /\ m - 1 \in 0 .. N
    BY <1>1, <2>3, <2>4
  <2>6. Good(m - 1)
    <3>1. m - 1 \notin Bad
      <4> HIDE DEF Bad
      <4>1. ~ (m <= m - 1)
        BY <2>5
      <4> QED
        BY <2>2, <4>1
    <3> HIDE DEF Good
    <3> QED
      BY <2>5, <3>1
  <2>7. k[m - 1] \in Seq(S) /\ list[m] \in S
    BY <1>1, <1>2, <2>5
  <2>8. 1 .. m = (1 .. m - 1) \cup {m}
    BY <2>5
  <2>9. {list[i] : i \in 1 .. m} = {list[i] : i \in 1 .. m - 1} \cup {list[m]}
    BY <2>8
  <2>10. CASE list[m] \in dying
    <3>1. k[m] = k[m - 1]
      BY <1>2, <2>5, <2>10
    <3>2. Gone(m) # {}
      BY <2>8, <2>10
    <3>3. ToSet(k[m]) = {list[i] : i \in 1 .. m} \ dying
      BY <2>6, <2>9, <2>10, <3>1
    <3>4. Len(k[m]) <= m - 1 /\ Len(k[m]) \in Nat
      BY <2>6, <2>7, <3>1
    <3>5. Len(k[m]) < m
      BY <2>5, <3>4
    <3>6. Good(m)
      BY <2>5, <3>2, <3>3, <3>4, <3>5
    <3> QED
      BY <2>3, <3>6
  <2>11. CASE list[m] \notin dying
    <3>1. k[m] = Append(k[m - 1], list[m])
      BY <1>2, <2>5, <2>11
    <3>2. Gone(m) = Gone(m - 1)
      BY <2>8, <2>11
    <3>3. ToSet(k[m]) = ToSet(k[m - 1]) \cup {list[m]} /\ Len(k[m]) = Len(k[m - 1]) + 1
      BY <2>7, <3>1, ListAppend
    <3>4. ToSet(k[m]) = {list[i] : i \in 1 .. m} \ dying
      BY <2>6, <2>9, <2>11, <3>3
    <3>5. Len(k[m - 1]) \in Nat
      BY <2>7
    <3>6. Len(k[m]) <= m /\ (Gone(m) # {} => Len(k[m]) < m) /\ (Gone(m) = {} => Len(k[m]) = m)
      <4> HIDE DEF Gone
      <4> QED
        BY <2>5, <2>6, <3>2, <3>3, <3>5
    <3> QED
      BY <2>3, <3>4, <3>6
  <2> QED
    BY <2>10, <2>11
<1>4. Good(N)
  <2>1. N \in 0 .. N /\ N \notin Bad
    BY <1>1, <1>3
  <2> HIDE DEF Good
  <2> QED
    BY <2>1
<1>5. ToSet(list) = {list[i] : i \in 1 .. N}
  BY ListElements
<1>6. ToSet(list) \cap dying = {} <=> Gone(N) = {}
  BY <1>5
<1>7. k[N] \in Seq(S)
  BY <1>1, <1>2
<1>8. ASSUME list # <<>>, Last(list) \notin dying
      PROVE  k[N] # <<>> /\ Last(k[N]) = Last(list)
  <2>1. N \in 1 .. N /\ N - 1 \in 0 .. N /\ Last(list) = list[N]
    BY <1>1, <1>8, ListElements
  <2>2. k[N] = Append(k[N - 1], list[N]) /\ k[N - 1] \in Seq(S) /\ list[N] \in S
    BY <1>1, <1>2, <1>8, <2>1
  <2> QED
    BY <2>1, <2>2, ListAppend
<1> QED
  BY <1>2, <1>4, <1>5, <1>6, <1>7, <1>8

-----------------------------------------------------------------------------
(* The invariant                                                           *)

Action == {"kNoAction", "kNewSampledAddress", "kFinalize", "kMerge"}

DistanceSet ==
  [ owner : Thread, addr : Address, set : SUBSET Address, holes : Nat,
    finalize : FinalizeStatus, pulled : BOOLEAN, chain : SUBSET Address,
    touched : SUBSET Address ]

NoDistanceSet == [finalize : {"none"}] \cup [finalize : {"deleted"}, addr : Address]

Todo == [merge : BOOLEAN, finalize : BOOLEAN, end : Int]

\* The types of what the threads' calls work with, and of what they share.
ControlTypeOK ==
  /\ setup \in Setups
  /\ stage_ \in 0 .. 2 /\ threads_ \in Int /\ awake \subseteq Thread
  /\ total_threads_ \in Nat /\ thread_count \in 0 .. ThreadCount
  /\ synchronize \in BOOLEAN /\ finalize_needed \in BOOLEAN /\ merge_needed \in BOOLEAN
  /\ active_sample_count \in Int
  /\ enabled_ \in [Thread -> BOOLEAN] /\ new_thread_ \in [Thread -> BOOLEAN]
  /\ pc \in [Thread -> Control] /\ action \in [Thread -> Action]
  /\ ref \in [Thread -> (Address \X BOOLEAN) \cup {<<>>}]
  /\ plan \in [Thread -> Todo \cup {<<>>}]
  /\ ll1 \in [Thread -> Int]
  /\ is_samplechoice \in [Thread -> 0 .. MaxPending]

\* The types of the samples and of their lists.
SampleTypeOK ==
  /\ ds \in [DsId -> DistanceSet \cup NoDistanceSet]
  /\ created \in 0 .. MaxSamples
  /\ distance_sets_ \in [Thread -> Seq(DsId)]
  /\ oldest_distance_set_ \in [Thread -> DsId \cup {NoDs}]
  /\ write_sets_ \in [Thread -> [DsId -> Seq(SUBSET Address)]]
  /\ prune_count_ \in [Thread -> Nat] /\ cold_samples \in [Thread -> Nat]
  /\ newDS \in [Thread -> DsId \cup {NoDs}]

TypeOK == ControlTypeOK /\ SampleTypeOK

\* A thread that called for a round, or joined one, until it leaves it.
InRound == {"start", "wait", "work1", "work2", "leave"}

\* Threads are numbered as they appear, one at a time.
BornInOrder ==
  \A t \in Thread :
    /\ t < thread_count => pc[t] \notin {"unborn", "joining"}
    /\ t = thread_count => pc[t] \in {"unborn", "joining"}
    /\ t > thread_count => pc[t] = "unborn"

\* What a thread carries through a call of the sampler: the reason for a round from
\* before the round until it leaves it, a new sample and the trigger it comes from,
\* and the reference it is about.
OneCall(t) ==
  /\ pc[t] \notin InRound \cup {"prune"} => action[t] = "kNoAction"
  /\ pc[t] = "prune" => action[t] = "kNewSampledAddress"
  /\ action[t] = "kNewSampledAddress" <=> newDS[t] # NoDs
  /\ newDS[t] # NoDs => is_samplechoice[t] > 0
  /\ pc[t] \in {"access", "checks", "sample"} => ref[t] # <<>>
  /\ pc[t] \in InRound /\ action[t] \in {"kNoAction", "kFinalize"} => ref[t] # <<>>

Calls == \A t \in Thread : OneCall(t)

\* A distance set exists exactly as long as its owner has linked it or is about to.
Samples ==
  /\ \A d \in DsId : d > created => ds[d].finalize = "none"
  /\ \A d \in DsId : Exists(d) => d \in Linked(ds[d].owner) \/ newDS[ds[d].owner] = d
  /\ \A t \in Thread :
       /\ t \notin InQueue => distance_sets_[t] = <<>>
       /\ \A d \in Linked(t) : Exists(d) /\ ds[d].owner = t /\ d # newDS[t]
       /\ newDS[t] # NoDs => Exists(newDS[t]) /\ ds[newDS[t]].owner = t

\* OldestIsLast of every thread.
Oldest == \A t \in Thread : oldest_distance_set_[t] = OldestOf(distance_sets_[t])

IInv == TypeOK /\ BornInOrder /\ Calls /\ Samples /\ Oldest /\ SampleAccounting

-----------------------------------------------------------------------------
(* The steps, one by one, without what they throw                          *)

\* What a step that throws leaves as it is: everything but the outcome.
Stays ==
  UNCHANGED <<barrierVars, globalVars, listVars, setVars, statVars, callVars, enabled_, pc>>

LEMMA ThrowStays == ASSUME NEW what, Throw(what) PROVE Stays
  BY DEF Throw, Stays

RoundSize == IF Waiting = {} THEN Cardinality(awake) ELSE threads_

LEMMA WaitStartStep ==
  ASSUME NEW t \in Thread, WaitStart(t)
  PROVE  \/ Stays /\ stage_ # 0 /\ pc[t] = "start"
         \/ /\ pc[t] = "start" /\ stage_ = 0
            /\ threads_' = RoundSize /\ Arrive(t, 0, RoundSize)
            /\ UNCHANGED <<awake, total_threads_, globalVars, listVars, setVars,
                           statVars, callVars, enabled_, outcome>>
  BY ThrowStays DEF WaitStart, RoundSize

LEMMA SleepStep ==
  ASSUME NEW t \in Thread, Sleep(t)
  PROVE  \/ Stays /\ stage_ # 0 /\ pc[t] = "app"
         \/ /\ pc[t] = "app" /\ stage_ = 0
            /\ awake' = awake \ {t}
            /\ threads_' = IF Waiting = {} THEN threads_ ELSE threads_ - 1
            /\ IF LastMissing(t)
                 THEN Release(0, Waiting, [pc EXCEPT ![t] = "asleep"])
                 ELSE pc' = [pc EXCEPT ![t] = "asleep"] /\ UNCHANGED stage_
            /\ UNCHANGED <<total_threads_, globalVars, listVars, setVars, statVars,
                           callVars, enabled_, outcome>>
  BY ThrowStays DEF Sleep

LEMMA AccessStep ==
  ASSUME NEW t \in Thread, Access(t)
  PROVE  \/ /\ Stays /\ pc[t] = "access"
            /\ \E d \in Watched(t, ref[t][2]) : ds[d].addr = ref[t][1] /\ ~Exists(d)
         \/ /\ pc[t] = "access" /\ enabled_[t]
            /\ \A d \in Watched(t, ref[t][2]) : ds[d].addr = ref[t][1] => Exists(d)
            /\ AccessSets(t, ref[t][1], ref[t][2])
            /\ UNCHANGED <<barrierVars, thread_count, merge_needed,
                           active_sample_count, distance_sets_, oldest_distance_set_,
                           new_thread_, created, statVars, newDS, ref, plan,
                           is_samplechoice, enabled_, outcome>>
<1> DEFINE Gone == \E d \in Watched(t, ref[t][2]) : ds[d].addr = ref[t][1] /\ ~Exists(d)
<1>1. CASE Gone
  BY <1>1, ThrowStays DEF Access
<1>2. CASE ~Gone
  BY <1>2 DEF Access
<1> QED
  BY <1>1, <1>2

LEMMA AccessChecksStep ==
  ASSUME NEW t \in Thread, AccessChecks(t)
  PROVE  \/ /\ Stays /\ pc[t] = "checks"
            /\ \/ ll1[t] >= 0 /\ Len(distance_sets_[t]) >= ll1[t]
               \/ \E d \in Linked(t) : ds[d].finalize = "kReuseFinalize"
         \/ /\ pc[t] = "checks" /\ Goto(t, "sample")
            /\ ll1' = [ll1 EXCEPT ![t] = 0]
            /\ UNCHANGED <<barrierVars, globalVars, listVars, setVars, statVars,
                           action, newDS, ref, plan, is_samplechoice, enabled_, outcome>>
<1> DEFINE Long == ll1[t] >= 0 /\ Len(distance_sets_[t]) >= ll1[t]
           Final == \E d \in Linked(t) : ds[d].finalize = "kReuseFinalize"
<1>1. CASE Long
  BY <1>1, ThrowStays DEF AccessChecks
<1>2. CASE ~Long /\ Final
  BY <1>2, ThrowStays DEF AccessChecks
<1>3. CASE ~Long /\ ~Final
  BY <1>3 DEF AccessChecks
<1> QED
  BY <1>1, <1>2, <1>3

\* What Stage1 copies at its start.
Synced == merge_needed \/ finalize_needed
TodoOf(t) ==
  [ merge |-> merge_needed, finalize |-> finalize_needed,
    end |-> IF Synced THEN EndSleepers(t, awake, thread_count) ELSE -2 ]

LEMMA Stage1Step ==
  ASSUME NEW t \in Thread, Stage1(t)
  PROVE  \/ /\ Stays /\ pc[t] = "work1"
            /\ \/ Synced /\ AdjacentFails(t, awake, thread_count, threads_)
               \/ \E d \in Removed(t, TodoOf(t)) : Missing(d)
               \/ action[t] = "kFinalize" /\ ~finalize_needed
               \/ TooManyActive(t)
               \/ stage_ # 1
         \/ /\ pc[t] = "work1" /\ stage_ = 1
            /\ \A d \in Removed(t, TodoOf(t)) : ~Missing(d)
            /\ FirstStage(t, TodoOf(t))
<1> DEFINE todo == TodoOf(t)
           A == Synced /\ AdjacentFails(t, awake, thread_count, threads_)
           B == \E d \in Removed(t, todo) : Missing(d)
           C == action[t] = "kFinalize" /\ ~finalize_needed
           E == TooManyActive(t)
<1>1. /\ pc[t] = "work1"
      /\ IF A THEN Throw("wrapped around adjacent sleepers")
         ELSE IF B THEN Throw("finalized address not found in remote write set")
         ELSE IF C THEN Throw("kfinalize without global finalize")
         ELSE IF E THEN Throw("sample count mismatch")
         ELSE IF stage_ # 1 THEN Throw("stage wrong in wait")
         ELSE FirstStage(t, todo)
  BY DEF Stage1, Synced, TodoOf
<1> HIDE DEF todo, A, B, C, E
<1>2. \/ /\ Stays /\ (A \/ B \/ C \/ E \/ stage_ # 1)
      \/ ~B /\ stage_ = 1 /\ FirstStage(t, todo)
  BY <1>1, ThrowStays
<1> QED
  BY <1>1, <1>2 DEF todo, A, B, C, E

\* What Stage2 works on.
SyncedOf(t) == plan[t].merge \/ plan[t].finalize
ServedOf(t) == IF SyncedOf(t) THEN Walk(t, plan[t].end, thread_count) ELSE {}
DyingOf(t) == {d \in LinkedOf(ServedOf(t)) : Marked(d)}

LEMMA Stage2Step ==
  ASSUME NEW t \in Thread, Stage2(t)
  PROVE  \/ /\ Stays /\ pc[t] = "work2"
            /\ \/ \E d \in DyingOf(t) : ~ds[d].pulled /\ thread_count # 1
               \/ \E u \in ServedOf(t) : /\ oldest_distance_set_[u] \in DyingOf(t)
                                         /\ oldest_distance_set_[u] # Last(distance_sets_[u])
               \/ plan[t].merge /\ \E d \in LinkedOf(ServedOf(t)) \ DyingOf(t) : Missing(d)
               \/ stage_ # 2
         \/ /\ pc[t] = "work2" /\ stage_ = 2
            /\ plan[t].merge =>
                 \A d \in LinkedOf(ServedOf(t)) \ DyingOf(t) : ~Missing(d)
            /\ SecondStage(t, SyncedOf(t), ServedOf(t))
<1> DEFINE A == \E d \in DyingOf(t) : ~ds[d].pulled /\ thread_count # 1
           B == \E u \in ServedOf(t) : /\ oldest_distance_set_[u] \in DyingOf(t)
                                       /\ oldest_distance_set_[u] # Last(distance_sets_[u])
           C == plan[t].merge /\ \E d \in LinkedOf(ServedOf(t)) \ DyingOf(t) : Missing(d)
<1>1. /\ pc[t] = "work2"
      /\ IF A THEN Throw("assertion failed in FinalizeSample")
         ELSE IF B THEN Throw("assertion failed in SynchronizedOperations")
         ELSE IF C THEN Throw("merged address not found in remote write sets")
         ELSE IF stage_ # 2 THEN Throw("stage wrong in wait")
         ELSE SecondStage(t, SyncedOf(t), ServedOf(t))
  BY DEF Stage2, SyncedOf, ServedOf, DyingOf
<1> HIDE DEF A, B, C
<1>2. \/ Stays /\ (A \/ B \/ C \/ stage_ # 2)
      \/ ~C /\ stage_ = 2 /\ SecondStage(t, SyncedOf(t), ServedOf(t))
  BY <1>1, ThrowStays
<1> QED
  BY <1>1, <1>2 DEF A, B, C

-----------------------------------------------------------------------------
(* Types                                                                   *)

LEMMA SetupType ==
  ASSUME setup \in Setups
  PROVE  /\ setup.threads \in 0 .. ThreadCount /\ setup.founders \in 0 .. ThreadCount
         /\ setup.founders <= setup.threads /\ setup.blocks \subseteq Address
         /\ setup.samples \in 0 .. MaxSamples
  BY SamplerAssumption DEF Setup

\* A release, or an arrival, moves threads within a round only.
LEMMA ReleaseMoves ==
  ASSUME NEW s \in 0 .. 2, NEW team, NEW elsewhere \in [Thread -> Control],
         Release(s, team, elsewhere)
  PROVE  /\ stage_' = (s + 1) % 3 /\ stage_' \in 0 .. 2
         /\ pc' \in [Thread -> Control]
         /\ \A u \in Thread : pc'[u] = IF u \in team THEN Beyond(s) ELSE elsewhere[u]
         /\ Beyond(s) \in {"work1", "work2", "leave"}
<1>1. Beyond(s) \in {"work1", "work2", "leave"}
  BY DEF Beyond
<1>2. \A u \in Thread : (IF u \in team THEN Beyond(s) ELSE elsewhere[u]) \in Control
  BY <1>1 DEF Control
<1>3. pc' = [u \in Thread |-> IF u \in team THEN Beyond(s) ELSE elsewhere[u]]
  BY DEF Release
<1>4. stage_' = (s + 1) % 3 /\ stage_' \in 0 .. 2
  BY DEF Release
<1> QED
  BY <1>1, <1>2, <1>3, <1>4

LEMMA ArriveMoves ==
  ASSUME pc \in [Thread -> Control], stage_ \in 0 .. 2,
         NEW t \in Thread, NEW s \in 0 .. 2, NEW size, Arrive(t, s, size)
  PROVE  /\ stage_' \in 0 .. 2
         /\ pc' \in [Thread -> Control]
         /\ pc'[t] \in InRound
         /\ \A u \in Thread \ {t} :
              pc'[u] = pc[u] \/ (pc[u] = "wait" /\ pc'[u] \in {"work1", "work2", "leave"})
<1>1. CASE Release(s, Waiting \cup {t}, pc)
  BY <1>1, ReleaseMoves DEF Waiting, InRound
<1>2. CASE Goto(t, "wait") /\ UNCHANGED stage_
  <2>1. pc' = [pc EXCEPT ![t] = "wait"]
    BY <1>2 DEF Goto
  <2>2. "wait" \in Control
    BY DEF Control
  <2> QED
    BY <1>2, <2>1, <2>2 DEF InRound
<1> QED
  BY <1>1, <1>2 DEF Arrive

LEMMA GotoMoves ==
  ASSUME pc \in [Thread -> Control], NEW t \in Thread, NEW label \in Control, Goto(t, label)
  PROVE  /\ pc' \in [Thread -> Control]
         /\ pc'[t] = label
         /\ \A u \in Thread \ {t} : pc'[u] = pc[u]
  BY DEF Goto

LEMMA SleepMoves ==
  ASSUME pc \in [Thread -> Control], stage_ \in 0 .. 2, NEW t \in Thread, pc[t] = "app",
         IF LastMissing(t) THEN Release(0, Waiting, [pc EXCEPT ![t] = "asleep"])
                           ELSE pc' = [pc EXCEPT ![t] = "asleep"] /\ UNCHANGED stage_
  PROVE  /\ stage_' \in 0 .. 2
         /\ pc' \in [Thread -> Control]
         /\ pc'[t] = "asleep"
         /\ \A u \in Thread \ {t} :
              pc'[u] = pc[u] \/ (pc[u] = "wait" /\ pc'[u] \in {"work1", "work2", "leave"})
<1> DEFINE asleep == [pc EXCEPT ![t] = "asleep"]
<1>1. /\ asleep \in [Thread -> Control] /\ asleep[t] = "asleep"
      /\ \A u \in Thread \ {t} : asleep[u] = pc[u]
  BY DEF Control
<1> HIDE DEF asleep
<1>2. CASE LastMissing(t)
  <2>1. Release(0, Waiting, asleep)
    BY <1>2 DEF asleep
  <2>2. t \notin Waiting /\ \A u \in Waiting : pc[u] = "wait"
    BY DEF Waiting
  <2> QED
    BY <1>1, <2>1, <2>2, ReleaseMoves
<1>3. CASE ~LastMissing(t)
  BY <1>1, <1>3 DEF asleep
<1> QED
  BY <1>2, <1>3

\* A step of t leaves the other threads where they are, or lets those that wait at
\* the barrier go on.
OthersMove(t) ==
  \A u \in Thread \ {t} :
    pc'[u] = pc[u] \/ (pc[u] = "wait" /\ pc'[u] \in {"work1", "work2", "leave"})

\* A step of t that is none of its birth.
LivesOn(t) ==
  /\ pc[t] \notin {"unborn", "joining"} /\ pc'[t] \notin {"unborn", "joining"}
  /\ UNCHANGED thread_count

LEMMA ProgramMoves ==
  ASSUME ControlTypeOK, NEW t \in Thread, ThreadStep(t)
  PROVE  /\ pc' \in [Thread -> Control] /\ stage_' \in 0 .. 2
         /\ OthersMove(t)
         /\ JoinBarrier(t) \/ JoinQueue(t) \/ LivesOn(t)
<1> USE DEF ControlTypeOK, OthersMove, LivesOn
<1>1. CASE JoinBarrier(t)
  BY <1>1, GotoMoves DEF JoinBarrier, Control
<1>2. CASE JoinQueue(t)
  BY <1>2, GotoMoves DEF JoinQueue, Control, barrierVars, globalVars
<1>3. CASE SetThreadEnable(t)
  BY <1>3 DEF SetThreadEnable, barrierVars, globalVars
<1>4. CASE WaitStart(t)
  <2>1. CASE Stays
    BY <1>4, <2>1, WaitStartStep DEF Stays, barrierVars, globalVars
  <2>2. CASE Arrive(t, 0, RoundSize)
    BY <1>4, <2>2, WaitStartStep, ArriveMoves DEF Stays, barrierVars, globalVars, InRound
  <2> QED
    BY <1>4, <2>1, <2>2, WaitStartStep
<1>5. CASE Sleep(t)
  <2>1. CASE Stays
    BY <1>5, <2>1, SleepStep DEF Stays, barrierVars, globalVars
  <2>2. CASE ~Stays
    BY <1>5, <2>2, SleepStep, SleepMoves DEF globalVars
  <2> QED
    BY <2>1, <2>2
<1>6. CASE Wake(t)
  BY <1>6, GotoMoves DEF Wake, Control, globalVars
<1>7. CASE SampleTrigger(t)
  BY <1>7 DEF SampleTrigger, barrierVars, globalVars
<1>8. ASSUME NEW a \in setup.blocks, NEW is_write \in BOOLEAN, SampledMemRef(t, a, is_write)
      PROVE  pc' \in [Thread -> Control] /\ stage_' \in 0 .. 2 /\ OthersMove(t) /\ LivesOn(t)
  BY <1>8, GotoMoves DEF SampledMemRef, Control, barrierVars, globalVars
<1>9. CASE Access(t)
  <2>1. CASE Stays
    BY <1>9, <2>1, AccessStep DEF Stays, barrierVars, globalVars
  <2>2. CASE Goto(t, "start") \/ Goto(t, "sample")
    <3>1. "start" \in Control /\ "sample" \in Control
      BY DEF Control
    <3>2. (pc[t] = "access" /\ UNCHANGED <<stage_, thread_count>>) \/ Stays
      BY <1>9, AccessStep DEF barrierVars, globalVars
    <3> QED
      BY <2>1, <2>2, <3>1, <3>2, GotoMoves
  <2> QED
    BY <1>9, <2>1, <2>2, AccessStep DEF AccessSets
<1>10. CASE AccessDisabled(t)
  BY <1>10, GotoMoves DEF AccessDisabled, Control, barrierVars, globalVars
<1>11. CASE AccessChecks(t)
  <2>1. CASE Stays
    BY <1>11, <2>1, AccessChecksStep DEF Stays, barrierVars, globalVars
  <2>2. CASE ~Stays
    BY <1>11, <2>2, AccessChecksStep, GotoMoves DEF Control, barrierVars, globalVars
  <2> QED
    BY <2>1, <2>2
<1>12. CASE NotSampled(t)
  BY <1>12, GotoMoves DEF NotSampled, Control, barrierVars, globalVars
<1>13. CASE SampleRefused(t)
  BY <1>13, GotoMoves DEF SampleRefused, Control, barrierVars, globalVars
<1>14. CASE NewSampledAddress(t)
  <2>1. Goto(t, "start") \/ Goto(t, "prune")
    BY <1>14 DEF NewSampledAddress
  <2>2. "start" \in Control /\ "prune" \in Control
    BY DEF Control
  <2> QED
    BY <1>14, <2>1, <2>2, GotoMoves DEF NewSampledAddress, barrierVars, globalVars
<1>15. CASE Prune(t)
  BY <1>15, GotoMoves DEF Prune, Control, barrierVars
<1>16. CASE MergeAllSamples(t)
  BY <1>16, GotoMoves DEF MergeAllSamples, Control, barrierVars, globalVars
<1>17. CASE Stage1(t)
  <2>1. CASE Stays
    BY <1>17, <2>1, Stage1Step DEF Stays, barrierVars, globalVars
  <2>2. CASE FirstStage(t, TodoOf(t))
    <3>1. Arrive(t, 1, threads_) /\ UNCHANGED thread_count
      BY <2>2 DEF FirstStage, globalVars
    <3>2. pc[t] = "work1"
      BY <1>17, Stage1Step
    <3>3. /\ stage_' \in 0 .. 2 /\ pc' \in [Thread -> Control] /\ pc'[t] \in InRound
          /\ OthersMove(t)
      BY <3>1, ArriveMoves
    <3> QED
      BY <3>1, <3>2, <3>3 DEF InRound
  <2> QED
    BY <1>17, <2>1, <2>2, Stage1Step
<1>18. CASE Stage2(t)
  <2>1. CASE Stays
    BY <1>18, <2>1, Stage2Step DEF Stays, barrierVars, globalVars
  <2>2. CASE SecondStage(t, SyncedOf(t), ServedOf(t))
    <3>1. Arrive(t, 2, threads_) /\ UNCHANGED thread_count
      BY <2>2 DEF SecondStage
    <3>2. pc[t] = "work2"
      BY <1>18, Stage2Step
    <3>3. /\ stage_' \in 0 .. 2 /\ pc' \in [Thread -> Control] /\ pc'[t] \in InRound
          /\ OthersMove(t)
      BY <3>1, ArriveMoves
    <3> QED
      BY <3>1, <3>2, <3>3 DEF InRound
  <2> QED
    BY <1>18, <2>1, <2>2, Stage2Step
<1>19. CASE Leave(t)
  <2>1. \E label \in {"access", "checks", "app"} : Goto(t, label)
    BY <1>19 DEF Leave
  <2>2. {"access", "checks", "app"} \subseteq Control
    BY DEF Control
  <2> QED
    BY <1>19, <2>1, <2>2, GotoMoves DEF Leave, barrierVars, globalVars
<1> QED
  BY <1>1, <1>2, <1>3, <1>4, <1>5, <1>6, <1>7, <1>8, <1>9, <1>10, <1>11, <1>12, <1>13,
     <1>14, <1>15, <1>16, <1>17, <1>18, <1>19 DEF ThreadStep

LEMMA ThreadsFinite ==
  /\ IsFiniteSet(Thread)
  /\ \A S \in SUBSET Thread : IsFiniteSet(S) /\ Cardinality(S) \in Nat
<1>1. IsFiniteSet(Thread)
  BY SamplerAssumption, FS_Interval DEF Thread
<1> QED
  BY <1>1, FS_Subset, FS_CardinalityType

LEMMA SamplesFinite ==
  /\ IsFiniteSet(DsId)
  /\ \A S \in SUBSET DsId : IsFiniteSet(S) /\ Cardinality(S) \in Nat
<1>1. IsFiniteSet(DsId)
  BY SamplerAssumption, FS_Interval DEF DsId
<1> QED
  BY <1>1, FS_Subset, FS_CardinalityType

\* The slots a thread works for are threads in the queue.
LEMMA WalkInQueue ==
  ASSUME NEW n \in Nat, NEW t, NEW end, n > 0 => t \in Int
  PROVE  Walk(t, end, n) \subseteq 0 .. n - 1
<1>1. CASE n = 0
  BY <1>1 DEF Walk
<1>2. CASE n > 0
  <2>1. \A x \in Int : x % n \in 0 .. n - 1
    BY <1>2
  <2>2. \A d \in 0 .. n - 1 : t + d \in Int
    BY <1>2
  <2> QED
    BY <2>1, <2>2 DEF Walk, After
<1> QED
  BY <1>1, <1>2

LEMMA QueueType ==
  ASSUME ControlTypeOK
  PROVE  InQueue \subseteq Thread
<1>1. thread_count \in 0 .. ThreadCount /\ ThreadCount \in Nat
  BY SamplerAssumption DEF ControlTypeOK
<1> QED
  BY <1>1 DEF InQueue, Thread

LEMMA ServedInQueue ==
  ASSUME ControlTypeOK, NEW t \in Thread
  PROVE  /\ InQueue \subseteq Thread
         /\ ServedOf(t) \subseteq InQueue
<1>1. thread_count \in 0 .. ThreadCount /\ ThreadCount \in Nat /\ t \in Int
  BY SamplerAssumption DEF ControlTypeOK, Thread
<1>2. InQueue \subseteq Thread
  BY <1>1 DEF InQueue, Thread
<1>3. thread_count \in Nat
  BY <1>1
<1>4. Walk(t, plan[t].end, thread_count) \subseteq InQueue
  BY <1>1, <1>3, WalkInQueue DEF InQueue
<1> QED
  BY <1>2, <1>4 DEF ServedOf

LEMMA LinkedType ==
  ASSUME TypeOK, NEW t \in Thread
  PROVE  Linked(t) \subseteq DsId
<1>1. distance_sets_[t] \in Seq(DsId)
  BY DEF TypeOK, SampleTypeOK
<1> QED
  BY <1>1, ListElements DEF Linked

LEMMA DyingType ==
  ASSUME TypeOK, NEW t \in Thread
  PROVE  /\ AllLinked \subseteq DsId
         /\ LinkedOf(ServedOf(t)) \subseteq AllLinked
         /\ DyingOf(t) \subseteq LinkedOf(ServedOf(t))
         /\ IsFiniteSet(DyingOf(t)) /\ Cardinality(DyingOf(t)) \in Nat
<1>1. ServedOf(t) \subseteq InQueue /\ InQueue \subseteq Thread
  BY ServedInQueue DEF TypeOK
<1>2. LinkedOf(ServedOf(t)) \subseteq AllLinked
  BY <1>1 DEF LinkedOf, AllLinked
<1>3. AllLinked \subseteq DsId
  BY <1>1, LinkedType DEF AllLinked
<1>4. DyingOf(t) \subseteq LinkedOf(ServedOf(t))
  BY DEF DyingOf
<1> QED
  BY <1>2, <1>3, <1>4, SamplesFinite

\* A thread that joins fits in.
LEMMA JoinFits ==
  ASSUME ControlTypeOK, BornInOrder, NEW t \in Thread, pc[t] = "joining"
  PROVE  t = thread_count /\ thread_count + 1 \in 0 .. ThreadCount
<1>1. t \in 0 .. ThreadCount - 1 /\ ThreadCount \in Nat /\ thread_count \in 0 .. ThreadCount
  BY SamplerAssumption DEF Thread, ControlTypeOK
<1>2. ~ (t < thread_count) /\ ~ (t > thread_count)
  BY DEF BornInOrder
<1> QED
  BY <1>1, <1>2

\* A thread that has appeared is in the queue.
LEMMA InTheQueue ==
  ASSUME ControlTypeOK, BornInOrder, NEW t \in Thread, pc[t] \notin {"unborn", "joining"}
  PROVE  t < thread_count /\ t \in InQueue
<1>1. t \in Nat /\ thread_count \in Nat
  BY SamplerAssumption DEF Thread, ControlTypeOK
<1>2. ~ (t > thread_count) /\ t # thread_count
  BY DEF BornInOrder
<1> QED
  BY <1>1, <1>2 DEF InQueue

LEMMA EndSleepersType ==
  ASSUME ControlTypeOK, NEW t \in Thread, t < thread_count
  PROVE  EndSleepers(t, awake, thread_count) \in Int
<1>1. thread_count \in Nat \ {0} /\ t \in 0 .. thread_count - 1
  BY SamplerAssumption DEF Thread, ControlTypeOK
<1>2. Gap(t, awake, thread_count) \in 1 .. thread_count
  BY <1>1, GapValue
<1>3. GetAdjacentSleepers(t, awake, thread_count) \in Int
  BY <1>1, <1>2, AfterValue DEF GetAdjacentSleepers
<1> QED
  BY <1>3 DEF EndSleepers

\* The two ends of an Access: with a call for a round, or without.
LEMMA AccessFlags ==
  ASSUME ControlTypeOK, NEW t \in Thread, NEW a, NEW is_write, AccessSets(t, a, is_write),
         Len(distance_sets_[t]) \in Int
  PROVE  /\ finalize_needed' \in BOOLEAN /\ synchronize' \in BOOLEAN
         /\ action' \in [Thread -> Action] /\ ll1' \in [Thread -> Int]
         /\ \/ /\ Goto(t, "start") /\ finalize_needed' = TRUE /\ synchronize' = TRUE
               /\ action' = [action EXCEPT ![t] = "kFinalize"]
            \/ /\ Goto(t, "sample")
               /\ UNCHANGED <<finalize_needed, synchronize, action, ll1>>
<1> DEFINE hit == {d \in Watched(t, is_write) : ds[d].addr = a}
           called == {d \in Linked(t) : ds[d].addr = a} \cup hit
           len == IF hit = {} THEN Len(distance_sets_[t]) ELSE -1
<1>1. IF called # {}
        THEN /\ finalize_needed' = TRUE /\ synchronize' = TRUE
             /\ action' = [action EXCEPT ![t] = "kFinalize"]
             /\ ll1' = [ll1 EXCEPT ![t] = len]
             /\ Goto(t, "start")
        ELSE /\ Goto(t, "sample")
             /\ UNCHANGED <<finalize_needed, synchronize, action, ll1>>
  BY DEF AccessSets
<1>2. len \in Int
  OBVIOUS
<1> HIDE DEF called, len
<1> QED
  BY <1>1, <1>2 DEF ControlTypeOK, Action

LEMMA ControlTypes ==
  ASSUME TypeOK, BornInOrder, Calls, NEW t \in Thread, ThreadStep(t), UNCHANGED setup
  PROVE  ControlTypeOK'
<1>0. pc' \in [Thread -> Control] /\ stage_' \in 0 .. 2
  BY ProgramMoves DEF TypeOK
<1>1. CASE Stays
  BY <1>1 DEF Stays, TypeOK, ControlTypeOK, barrierVars, globalVars, listVars, callVars
<1> USE DEF TypeOK, ControlTypeOK
<1>2. CASE JoinBarrier(t)
  BY <1>0, <1>2 DEF JoinBarrier, globalVars, listVars, callVars
<1>3. CASE JoinQueue(t)
  <2>1. pc[t] = "joining"
    BY <1>3 DEF JoinQueue
  <2>2. thread_count' \in 0 .. ThreadCount
    BY <1>3, <2>1, JoinFits DEF JoinQueue
  <2> QED
    BY <1>0, <1>3, <2>2 DEF JoinQueue, barrierVars, listVars, callVars
<1>4. CASE SetThreadEnable(t)
  <2>1. (~enabled_[t]) \in BOOLEAN
    OBVIOUS
  <2>2. enabled_' \in [Thread -> BOOLEAN]
    BY <1>4, <2>1 DEF SetThreadEnable
  <2>3. UNCHANGED <<barrierVars, globalVars, listVars, setVars, statVars, callVars>>
    BY <1>4 DEF SetThreadEnable
  <2> QED
    BY <1>0, <2>2, <2>3 DEF barrierVars, globalVars, listVars, callVars
<1>5. CASE WaitStart(t)
  <2>1. CASE ~Stays
    <3>1. RoundSize \in Int
      <4>2. Cardinality(awake) \in Nat
        BY ThreadsFinite
      <4> QED
        BY <4>2 DEF RoundSize
    <3> QED
      BY <1>0, <1>5, <2>1, <3>1, WaitStartStep DEF globalVars, listVars, callVars
  <2> QED
    BY <1>1, <2>1
<1>6. CASE Sleep(t)
  <2>1. CASE ~Stays
    <3>1. awake' = awake \ {t} /\ threads_' = IF Waiting = {} THEN threads_ ELSE threads_ - 1
      BY <1>6, <2>1, SleepStep
    <3>2. UNCHANGED <<total_threads_, globalVars, listVars, callVars, enabled_>>
      BY <1>6, <2>1, SleepStep
    <3> QED
      BY <1>0, <3>1, <3>2 DEF globalVars, listVars, callVars
  <2> QED
    BY <1>1, <2>1
<1>7. CASE Wake(t)
  BY <1>0, <1>7 DEF Wake, globalVars, listVars, callVars
<1>8. CASE SampleTrigger(t)
  BY <1>0, <1>8, SamplerAssumption DEF SampleTrigger, barrierVars, listVars
<1>9. ASSUME NEW a \in setup.blocks, NEW is_write \in BOOLEAN, SampledMemRef(t, a, is_write)
      PROVE  ControlTypeOK'
  <2>1. <<a, is_write>> \in Address \X BOOLEAN
    BY SetupType
  <2>2. ref' \in [Thread -> (Address \X BOOLEAN) \cup {<<>>}]
    BY <1>9, <2>1 DEF SampledMemRef
  <2> QED
    BY <1>0, <1>9, <2>2 DEF SampledMemRef, barrierVars, globalVars, listVars
<1>10. CASE Access(t)
  <2>1. CASE ~Stays
    <3>1. AccessSets(t, ref[t][1], ref[t][2])
      BY <1>10, <2>1, AccessStep
    <3>2. Len(distance_sets_[t]) \in Int
      BY DEF SampleTypeOK
    <3>3. /\ finalize_needed' \in BOOLEAN /\ synchronize' \in BOOLEAN
          /\ action' \in [Thread -> Action] /\ ll1' \in [Thread -> Int]
      BY <3>1, <3>2, AccessFlags
    <3> QED
      BY <1>0, <1>10, <2>1, <3>3, AccessStep DEF barrierVars
  <2> QED
    BY <1>1, <2>1
<1>11. CASE AccessDisabled(t)
  BY <1>0, <1>11 DEF AccessDisabled, barrierVars, globalVars, listVars, callVars
<1>12. CASE AccessChecks(t)
  <2>1. CASE ~Stays
    BY <1>0, <1>12, <2>1, AccessChecksStep DEF barrierVars, globalVars, listVars
  <2> QED
    BY <1>1, <2>1
<1>13. CASE NotSampled(t)
  BY <1>0, <1>13 DEF NotSampled, barrierVars, globalVars, listVars
<1>14. CASE SampleRefused(t)
  <2>1. is_samplechoice[t] \in 0 .. MaxPending /\ is_samplechoice[t] > 0 /\ MaxPending \in Nat
    BY <1>14, SamplerAssumption DEF SampleRefused
  <2>2. is_samplechoice[t] - 1 \in 0 .. MaxPending
    BY <2>1
  <2> QED
    BY <1>0, <1>14, <2>2 DEF SampleRefused, barrierVars, listVars
<1>15. CASE NewSampledAddress(t)
  BY <1>0, <1>15 DEF NewSampledAddress, barrierVars, listVars, Action
<1>16. CASE Prune(t)
  BY <1>0, <1>16 DEF Prune, barrierVars, listVars, callVars
<1>17. CASE MergeAllSamples(t)
  BY <1>0, <1>17 DEF MergeAllSamples, barrierVars, listVars, Action
<1>18. CASE Stage1(t)
  <2>1. CASE ~Stays
    <3>1. FirstStage(t, TodoOf(t))
      BY <1>18, <2>1, Stage1Step
    <3>2. TodoOf(t) \in Todo
      <4>1. EndSleepers(t, awake, thread_count) \in Int
        <5>1. pc[t] = "work1"
          BY <1>18, Stage1Step
        <5>2. t < thread_count
          BY <5>1, InTheQueue
        <5> QED
          BY <5>2, EndSleepersType
      <4> QED
        BY <4>1 DEF TodoOf, Todo
    <3>3. plan' \in [Thread -> Todo \cup {<<>>}]
      BY <3>1, <3>2 DEF FirstStage
    <3>4. new_thread_' \in [Thread -> BOOLEAN]
      <4>1. (new_thread_[t] /\ action[t] = "kNewSampledAddress") \in BOOLEAN
        OBVIOUS
      <4> QED
        BY <3>1, <4>1 DEF FirstStage
    <3>5. UNCHANGED <<threads_, awake, total_threads_, globalVars, action, ref, ll1,
                      is_samplechoice, enabled_>>
      BY <3>1 DEF FirstStage
    <3> QED
      BY <1>0, <3>3, <3>4, <3>5 DEF globalVars
  <2> QED
    BY <1>1, <2>1
<1>19. CASE Stage2(t)
  <2>1. CASE ~Stays
    <3>1. SecondStage(t, SyncedOf(t), ServedOf(t))
      BY <1>19, <2>1, Stage2Step
    <3>2. Cardinality(DyingOf(t)) \in Int
      <4>1. DyingOf(t) \subseteq DsId
        BY DyingType
      <4> QED
        BY <4>1, SamplesFinite
    <3>3. active_sample_count' \in Int
      BY <3>1, <3>2 DEF SecondStage, DyingOf
    <3>4. plan' = [plan EXCEPT ![t] = <<>>] /\ synchronize' = FALSE
      BY <3>1 DEF SecondStage
    <3>5. merge_needed' \in BOOLEAN /\ finalize_needed' \in BOOLEAN
      <4>1. /\ merge_needed' = (merge_needed /\ ~SyncedOf(t))
            /\ finalize_needed' = (finalize_needed /\ ~SyncedOf(t))
        BY <3>1 DEF SecondStage
      <4> QED
        BY <4>1
    <3>6. UNCHANGED <<threads_, awake, total_threads_, thread_count, new_thread_, action,
                      ref, ll1, is_samplechoice, enabled_>>
      BY <3>1 DEF SecondStage
    <3> QED
      BY <1>0, <3>3, <3>4, <3>5, <3>6
  <2> QED
    BY <1>1, <2>1
<1>20. CASE Leave(t)
  <2>1. is_samplechoice' \in [Thread -> 0 .. MaxPending]
    <3>1. action[t] = "kNewSampledAddress" => is_samplechoice[t] - 1 \in 0 .. MaxPending
      <4>1. action[t] = "kNewSampledAddress" => is_samplechoice[t] > 0
        BY DEF Calls, OneCall
      <4>2. is_samplechoice[t] \in 0 .. MaxPending /\ MaxPending \in Nat
        BY SamplerAssumption
      <4> QED
        BY <4>1, <4>2
    <3>2. is_samplechoice' = IF action[t] = "kNewSampledAddress"
                               THEN [is_samplechoice EXCEPT ![t] = is_samplechoice[t] - 1]
                               ELSE is_samplechoice
      BY <1>20 DEF Leave
    <3> QED
      BY <3>1, <3>2
  <2>2. action' = [action EXCEPT ![t] = "kNoAction"] /\ "kNoAction" \in Action
    BY <1>20 DEF Leave, Action
  <2>3. UNCHANGED <<barrierVars, globalVars, new_thread_, ref, plan, ll1, enabled_>>
    BY <1>20 DEF Leave
  <2> QED
    BY <1>0, <2>1, <2>2, <2>3 DEF barrierVars, globalVars
<1> QED
  BY <1>2, <1>3, <1>4, <1>5, <1>6, <1>7, <1>8, <1>9, <1>10, <1>11, <1>12, <1>13,
     <1>14, <1>15, <1>16, <1>17, <1>18, <1>19, <1>20 DEF ThreadStep

-----------------------------------------------------------------------------
(* Program counters, and what goes with them                               *)

LEMMA BornStep ==
  ASSUME ControlTypeOK, BornInOrder, NEW t \in Thread, ThreadStep(t)
  PROVE  BornInOrder'
<1>0. /\ thread_count \in Nat /\ t \in Nat
      /\ \A u \in Thread : u \in Nat
  BY SamplerAssumption DEF Thread, ControlTypeOK
<1>1. CASE JoinBarrier(t)
  <2>1. t = thread_count /\ pc'[t] = "joining" /\ \A u \in Thread \ {t} : pc'[u] = pc[u]
    BY <1>1, GotoMoves DEF JoinBarrier, ControlTypeOK, Control
  <2>2. UNCHANGED thread_count
    BY <1>1 DEF JoinBarrier, globalVars
  <2> QED
    BY <1>0, <2>1, <2>2 DEF BornInOrder
<1>2. CASE JoinQueue(t)
  <2>1. pc[t] = "joining" /\ thread_count' = thread_count + 1
    BY <1>2 DEF JoinQueue
  <2>2. pc'[t] = "app" /\ \A u \in Thread \ {t} : pc'[u] = pc[u]
    BY <1>2, GotoMoves DEF JoinQueue, ControlTypeOK, Control
  <2>3. t = thread_count
    BY <2>1, JoinFits
  <2> QED
    BY <1>0, <2>1, <2>2, <2>3 DEF BornInOrder
<1>3. CASE LivesOn(t)
  <2>1. \A u \in Thread \ {t} :
          pc'[u] = pc[u] \/ (pc[u] = "wait" /\ pc'[u] \in {"work1", "work2", "leave"})
    BY ProgramMoves DEF OthersMove
  <2>2. \A u \in Thread : ~ (u < thread_count) => u = thread_count \/ u > thread_count
    BY <1>0
  <2>3. t < thread_count
    BY <1>3, <2>2 DEF BornInOrder, LivesOn
  <2>4. \A u \in Thread : u < thread_count => ~ (u > thread_count) /\ u # thread_count
    BY <1>0
  <2>5. thread_count' = thread_count
    BY <1>3 DEF LivesOn
  <2>6. ASSUME NEW u \in Thread
        PROVE  /\ u < thread_count => pc'[u] \notin {"unborn", "joining"}
               /\ u = thread_count => pc'[u] \in {"unborn", "joining"}
               /\ u > thread_count => pc'[u] = "unborn"
    <3>1. CASE u = t
      BY <1>3, <2>3, <2>4, <3>1 DEF LivesOn
    <3>2. CASE u # t
      BY <2>1, <2>2, <2>4, <3>2 DEF BornInOrder
    <3> QED
      BY <3>1, <3>2
  <2> QED
    BY <2>5, <2>6 DEF BornInOrder
<1> QED
  BY <1>1, <1>2, <1>3, ProgramMoves

\* The calls of the other threads stay as they are.
OthersKeep(t) ==
  \A u \in Thread \ {t} :
    /\ action'[u] = action[u] /\ newDS'[u] = newDS[u] /\ ref'[u] = ref[u]
    /\ is_samplechoice'[u] = is_samplechoice[u] /\ plan'[u] = plan[u] /\ ll1'[u] = ll1[u]

LEMMA StaysKeeps == ASSUME NEW t, Stays PROVE OthersKeep(t)
  BY DEF Stays, OthersKeep, callVars

LEMMA CallsOfOthers ==
  ASSUME TypeOK, NEW t \in Thread, ThreadStep(t)
  PROVE  OthersKeep(t)
<1> USE DEF TypeOK, ControlTypeOK, SampleTypeOK
<1>1. CASE UNCHANGED callVars
  BY <1>1 DEF OthersKeep, callVars
<1>2. CASE \/ JoinBarrier(t) \/ JoinQueue(t) \/ SetThreadEnable(t) \/ Wake(t)
           \/ AccessDisabled(t) \/ Prune(t)
  BY <1>1, <1>2 DEF JoinBarrier, JoinQueue, SetThreadEnable, Wake, AccessDisabled, Prune
<1>3. CASE WaitStart(t) \/ Sleep(t)
  BY <1>1, <1>3, StaysKeeps, WaitStartStep, SleepStep
<1>4. CASE SampleTrigger(t)
  BY <1>4 DEF SampleTrigger, OthersKeep
<1>5. ASSUME NEW a \in setup.blocks, NEW is_write \in BOOLEAN, SampledMemRef(t, a, is_write)
      PROVE  OthersKeep(t)
  BY <1>5 DEF SampledMemRef, OthersKeep
<1>6. CASE Access(t)
  <2>1. CASE ~Stays
    <3>1. AccessSets(t, ref[t][1], ref[t][2])
      BY <1>6, <2>1, AccessStep
    <3>2. \A u \in Thread \ {t} : action'[u] = action[u] /\ ll1'[u] = ll1[u]
      BY <3>1 DEF AccessSets
    <3>3. UNCHANGED <<newDS, ref, plan, is_samplechoice>>
      BY <1>6, <2>1, AccessStep
    <3> QED
      BY <3>2, <3>3 DEF OthersKeep
  <2> QED
    BY <2>1, StaysKeeps
<1>7. CASE AccessChecks(t)
  <2>1. CASE ~Stays
    BY <1>7, <2>1, AccessChecksStep DEF OthersKeep
  <2> QED
    BY <2>1, StaysKeeps
<1>8. CASE NotSampled(t)
  BY <1>8 DEF NotSampled, OthersKeep
<1>9. CASE SampleRefused(t)
  BY <1>9 DEF SampleRefused, OthersKeep
<1>10. CASE NewSampledAddress(t)
  BY <1>10 DEF NewSampledAddress, OthersKeep
<1>11. CASE MergeAllSamples(t)
  BY <1>11 DEF MergeAllSamples, OthersKeep
<1>12. CASE Stage1(t)
  <2>1. CASE FirstStage(t, TodoOf(t))
    BY <2>1 DEF FirstStage, OthersKeep
  <2> QED
    BY <1>12, <2>1, Stage1Step, StaysKeeps
<1>13. CASE Stage2(t)
  <2>1. CASE SecondStage(t, SyncedOf(t), ServedOf(t))
    BY <2>1 DEF SecondStage, OthersKeep
  <2> QED
    BY <1>13, <2>1, Stage2Step, StaysKeeps
<1>14. CASE Leave(t)
  BY <1>14 DEF Leave, OthersKeep
<1> QED
  BY <1>2, <1>3, <1>4, <1>5, <1>6, <1>7, <1>8, <1>9, <1>10, <1>11, <1>12, <1>13, <1>14
     DEF ThreadStep

LEMMA CallsStep ==
  ASSUME TypeOK, Calls, NEW t \in Thread, ThreadStep(t)
  PROVE  Calls'
<1> USE DEF TypeOK, ControlTypeOK, SampleTypeOK
<1>0. ASSUME NEW u \in Thread, u # t PROVE OneCall(u)'
  <2>1. /\ action'[u] = action[u] /\ newDS'[u] = newDS[u] /\ ref'[u] = ref[u]
        /\ is_samplechoice'[u] = is_samplechoice[u]
    BY <1>0, CallsOfOthers DEF OthersKeep
  <2>2. pc'[u] = pc[u] \/ (pc[u] = "wait" /\ pc'[u] \in {"work1", "work2", "leave"})
    BY <1>0, ProgramMoves DEF OthersMove
  <2>3. OneCall(u)
    BY DEF Calls
  <2> QED
    BY <2>1, <2>2, <2>3 DEF OneCall, InRound
<1>1. OneCall(t)
  BY DEF Calls
<1>2. ASSUME Stays PROVE OneCall(t)'
  BY <1>1, <1>2 DEF Stays, OneCall, callVars
<1>3. CASE JoinBarrier(t)
  <2>1. pc[t] = "unborn" /\ pc'[t] = "joining"
    BY <1>3, GotoMoves DEF JoinBarrier, Control
  <2>2. UNCHANGED callVars
    BY <1>3 DEF JoinBarrier
  <2>3. OneCall(t)'
    BY <1>1, <2>1, <2>2 DEF OneCall, InRound, callVars
  <2> QED
    BY <1>0, <2>3 DEF Calls
<1>4. CASE JoinQueue(t)
  <2>1. pc[t] = "joining" /\ pc'[t] = "app"
    BY <1>4, GotoMoves DEF JoinQueue, Control
  <2>2. UNCHANGED callVars
    BY <1>4 DEF JoinQueue
  <2>3. OneCall(t)'
    BY <1>1, <2>1, <2>2 DEF OneCall, InRound, callVars
  <2> QED
    BY <1>0, <2>3 DEF Calls
<1>5. CASE SetThreadEnable(t)
  <2>1. OneCall(t)'
    BY <1>1, <1>5 DEF SetThreadEnable, OneCall, callVars
  <2> QED
    BY <1>0, <2>1 DEF Calls
<1>6. CASE WaitStart(t)
  <2>1. CASE ~Stays
    <3>1. pc[t] = "start" /\ UNCHANGED callVars /\ Arrive(t, 0, RoundSize)
      BY <1>6, <2>1, WaitStartStep
    <3>2. pc'[t] \in InRound
      BY <3>1, ArriveMoves
    <3>3. OneCall(t)'
      BY <1>1, <3>1, <3>2 DEF OneCall, InRound, callVars
    <3> QED
      BY <1>0, <3>3 DEF Calls
  <2> QED
    BY <1>0, <1>2, <2>1 DEF Calls
<1>7. CASE Sleep(t)
  <2>1. CASE ~Stays
    <3>1. pc[t] = "app" /\ UNCHANGED callVars /\ pc'[t] = "asleep"
      BY <1>7, <2>1, SleepStep, SleepMoves
    <3>2. OneCall(t)'
      BY <1>1, <3>1 DEF OneCall, InRound, callVars
    <3> QED
      BY <1>0, <3>2 DEF Calls
  <2> QED
    BY <1>0, <1>2, <2>1 DEF Calls
<1>8. CASE Wake(t)
  <2>1. pc[t] = "asleep" /\ UNCHANGED callVars /\ pc'[t] = "app"
    BY <1>8, GotoMoves DEF Wake, Control
  <2>2. OneCall(t)'
    BY <1>1, <2>1 DEF OneCall, InRound, callVars
  <2> QED
    BY <1>0, <2>2 DEF Calls
<1>9. CASE SampleTrigger(t)
  <2>1. pc[t] \in {"app", "asleep"} /\ UNCHANGED <<pc, action, newDS, ref>>
    BY <1>9 DEF SampleTrigger
  <2>2. OneCall(t)'
    BY <1>1, <2>1 DEF OneCall, InRound
  <2> QED
    BY <1>0, <2>2 DEF Calls
<1>10. ASSUME NEW a \in setup.blocks, NEW is_write \in BOOLEAN, SampledMemRef(t, a, is_write)
       PROVE  Calls'
  <2>1. /\ pc[t] = "app" /\ pc'[t] \in {"start", "access"} /\ ref'[t] = <<a, is_write>>
        /\ UNCHANGED <<action, newDS, is_samplechoice>>
    BY <1>10, GotoMoves DEF SampledMemRef, Control
  <2>2. <<a, is_write>> # <<>>
    OBVIOUS
  <2>3. OneCall(t)'
    BY <1>1, <2>1, <2>2 DEF OneCall, InRound
  <2> QED
    BY <1>0, <2>3 DEF Calls
<1>11. CASE Access(t)
  <2>1. CASE ~Stays
    <3>1. /\ pc[t] = "access" /\ AccessSets(t, ref[t][1], ref[t][2])
          /\ UNCHANGED <<newDS, ref, is_samplechoice>>
      BY <1>11, <2>1, AccessStep
    <3>2. Len(distance_sets_[t]) \in Int
      OBVIOUS
    <3>3. \/ pc'[t] = "start" /\ action'[t] = "kFinalize"
          \/ pc'[t] = "sample" /\ UNCHANGED action
      <4>1. \/ Goto(t, "start") /\ action' = [action EXCEPT ![t] = "kFinalize"]
            \/ Goto(t, "sample") /\ UNCHANGED action
        BY <3>1, <3>2, AccessFlags
      <4>2. "start" \in Control /\ "sample" \in Control
        BY DEF Control
      <4> QED
        BY <4>1, <4>2, GotoMoves
    <3>4. OneCall(t)'
      BY <1>1, <3>1, <3>3 DEF OneCall, InRound
    <3> QED
      BY <1>0, <3>4 DEF Calls
  <2> QED
    BY <1>0, <1>2, <2>1 DEF Calls
<1>12. CASE AccessDisabled(t)
  <2>1. pc[t] = "access" /\ UNCHANGED callVars /\ pc'[t] = "sample"
    BY <1>12, GotoMoves DEF AccessDisabled, Control
  <2>2. OneCall(t)'
    BY <1>1, <2>1 DEF OneCall, InRound, callVars
  <2> QED
    BY <1>0, <2>2 DEF Calls
<1>13. CASE AccessChecks(t)
  <2>1. CASE ~Stays
    <3>1. /\ pc[t] = "checks" /\ pc'[t] = "sample"
          /\ UNCHANGED <<action, newDS, ref, is_samplechoice>>
      BY <1>13, <2>1, AccessChecksStep, GotoMoves DEF Control
    <3>2. OneCall(t)'
      BY <1>1, <3>1 DEF OneCall, InRound
    <3> QED
      BY <1>0, <3>2 DEF Calls
  <2> QED
    BY <1>0, <1>2, <2>1 DEF Calls
<1>14. CASE NotSampled(t)
  <2>1. /\ pc[t] = "sample" /\ pc'[t] = "app"
        /\ UNCHANGED <<action, newDS, is_samplechoice>>
    BY <1>14, GotoMoves DEF NotSampled, Control
  <2>2. OneCall(t)'
    BY <1>1, <2>1 DEF OneCall, InRound
  <2> QED
    BY <1>0, <2>2 DEF Calls
<1>15. CASE SampleRefused(t)
  <2>1. pc[t] = "sample" /\ pc'[t] = "app" /\ UNCHANGED <<action, newDS>>
    BY <1>15, GotoMoves DEF SampleRefused, Control
  <2>2. action[t] = "kNoAction" /\ newDS[t] = NoDs
    BY <1>1, <2>1 DEF OneCall, InRound
  <2>3. OneCall(t)'
    BY <2>1, <2>2 DEF OneCall, InRound
  <2> QED
    BY <1>0, <2>3 DEF Calls
<1>16. CASE NewSampledAddress(t)
  <2>1. /\ is_samplechoice[t] > 0 /\ UNCHANGED is_samplechoice
        /\ newDS'[t] = created + 1 /\ action'[t] = "kNewSampledAddress"
        /\ pc'[t] \in {"start", "prune"}
    BY <1>16, GotoMoves DEF NewSampledAddress, Control, Action
  <2>2. created + 1 # NoDs
    BY DEF NoDs
  <2>3. OneCall(t)'
    BY <2>1, <2>2 DEF OneCall, InRound
  <2> QED
    BY <1>0, <2>3 DEF Calls
<1>17. CASE Prune(t)
  <2>1. pc[t] = "prune" /\ pc'[t] = "start" /\ UNCHANGED callVars
    BY <1>17, GotoMoves DEF Prune, Control
  <2>2. OneCall(t)'
    BY <1>1, <2>1 DEF OneCall, InRound, callVars
  <2> QED
    BY <1>0, <2>2 DEF Calls
<1>18. CASE MergeAllSamples(t)
  <2>1. /\ pc[t] = "app" /\ pc'[t] = "start" /\ action'[t] = "kMerge"
        /\ UNCHANGED <<newDS, ref, is_samplechoice>>
    BY <1>18, GotoMoves DEF MergeAllSamples, Control, Action
  <2>2. OneCall(t)'
    BY <1>1, <2>1 DEF OneCall, InRound
  <2> QED
    BY <1>0, <2>2 DEF Calls
<1>19. CASE Stage1(t)
  <2>1. CASE ~Stays
    <3>1. pc[t] = "work1" /\ FirstStage(t, TodoOf(t))
      BY <1>19, <2>1, Stage1Step
    <3>2. Arrive(t, 1, threads_) /\ UNCHANGED <<action, newDS, ref, is_samplechoice>>
      BY <3>1 DEF FirstStage
    <3>3. pc'[t] \in InRound
      BY <3>2, ArriveMoves
    <3>4. OneCall(t)'
      BY <1>1, <3>1, <3>2, <3>3 DEF OneCall, InRound
    <3> QED
      BY <1>0, <3>4 DEF Calls
  <2> QED
    BY <1>0, <1>2, <2>1 DEF Calls
<1>20. CASE Stage2(t)
  <2>1. CASE ~Stays
    <3>1. pc[t] = "work2" /\ SecondStage(t, SyncedOf(t), ServedOf(t))
      BY <1>20, <2>1, Stage2Step
    <3>2. Arrive(t, 2, threads_) /\ UNCHANGED <<action, newDS, ref, is_samplechoice>>
      BY <3>1 DEF SecondStage
    <3>3. pc'[t] \in InRound
      BY <3>2, ArriveMoves
    <3>4. OneCall(t)'
      BY <1>1, <3>1, <3>2, <3>3 DEF OneCall, InRound
    <3> QED
      BY <1>0, <3>4 DEF Calls
  <2> QED
    BY <1>0, <1>2, <2>1 DEF Calls
<1>21. CASE Leave(t)
  <2>1. /\ pc[t] = "leave" /\ newDS'[t] = NoDs /\ action'[t] = "kNoAction"
        /\ pc'[t] = CASE action[t] = "kNoAction" -> "access"
                      [] action[t] = "kFinalize" -> "checks"
                      [] OTHER -> "app"
        /\ UNCHANGED ref
    BY <1>21 DEF Leave, Goto, Action
  <2>2. \/ pc'[t] \in {"access", "checks"} /\ action[t] \in {"kNoAction", "kFinalize"}
        \/ pc'[t] = "app"
    BY <2>1 DEF Action
  <2>3. OneCall(t)'
    BY <1>1, <2>1, <2>2 DEF OneCall, InRound
  <2> QED
    BY <1>0, <2>3 DEF Calls
<1> QED
  BY <1>3, <1>4, <1>5, <1>6, <1>7, <1>8, <1>9, <1>10, <1>11, <1>12, <1>13, <1>14, <1>15,
     <1>16, <1>17, <1>18, <1>19, <1>20, <1>21 DEF ThreadStep

-----------------------------------------------------------------------------
(* Samples                                                                 *)

\* An object of the right type exists when its status says so.
LEMMA StatusOf ==
  ASSUME NEW x \in DistanceSet \cup NoDistanceSet
  PROVE  x.finalize \in FinalizeStatus <=> x \in DistanceSet
  BY DEF DistanceSet, NoDistanceSet, FinalizeStatus

LEMMA BlocksFinite ==
  \A S \in SUBSET Address : IsFiniteSet(S) /\ Cardinality(S) \in Nat
  BY SamplerAssumption, FS_Subset, FS_CardinalityType

\* y is a later state of the distance set x.
SameSet(x, y) ==
  y \in DistanceSet /\ y.owner = x.owner /\ y.addr = x.addr

LEMMA RefillType ==
  ASSUME NEW x \in DistanceSet, NEW S \in SUBSET Address, NEW n \in Nat
  PROVE  LET y == [x EXCEPT !.holes = n, !.set = S] IN
         SameSet(x, y) /\ y.finalize = x.finalize
  BY DEF DistanceSet, SameSet

LEMMA InsertType ==
  ASSUME NEW x \in DistanceSet, NEW a \in Address
  PROVE  SameSet(x, Insert(x, a)) /\ Insert(x, a).finalize = x.finalize
<1> DEFINE left == IF x.holes > 0 /\ a \notin x.set THEN x.holes - 1 ELSE x.holes
<1>1. left \in Nat
  BY DEF DistanceSet
<1>2. Insert(x, a) = [x EXCEPT !.holes = left, !.set = x.set \cup {a}]
  BY DEF Insert, DistanceSet
<1>3. x.set \cup {a} \in SUBSET Address
  BY DEF DistanceSet
<1>4. \A S \in SUBSET Address, n \in Nat :
        LET y == [x EXCEPT !.holes = n, !.set = S] IN
        SameSet(x, y) /\ y.finalize = x.finalize
  BY RefillType
<1> HIDE DEF left
<1>5. LET y == [x EXCEPT !.holes = left, !.set = x.set \cup {a}] IN
      SameSet(x, y) /\ y.finalize = x.finalize
  BY <1>1, <1>3, <1>4, Zenon
<1> QED
  BY <1>2, <1>5, Zenon

LEMMA TouchType ==
  ASSUME NEW x \in DistanceSet, NEW d, NEW t, NEW a \in Address
  PROVE  SameSet(x, Touch(x, d, t, a)) /\ Touch(x, d, t, a).finalize = x.finalize
<1>1. SameSet(x, [x EXCEPT !.touched = @ \cup {a}])
  BY DEF DistanceSet, SameSet
<1>2. SameSet(x, x)
  BY DEF SameSet
<1>3. [x EXCEPT !.touched = @ \cup {a}].finalize = x.finalize
  BY DEF DistanceSet
<1>4. Touch(x, d, t, a) = [x EXCEPT !.touched = @ \cup {a}] \/ Touch(x, d, t, a) = x
  BY DEF Touch
<1> QED
  BY <1>1, <1>2, <1>3, <1>4

LEMMA AbsorbType ==
  ASSUME NEW x \in DistanceSet, NEW S \in SUBSET Address
  PROVE  SameSet(x, Absorb(x, S)) /\ Absorb(x, S).finalize = x.finalize
<1>1. x.set \cap S \in SUBSET Address
  BY DEF DistanceSet
<1>2. Cardinality(x.set \cap S) \in Nat
  BY <1>1, BlocksFinite
<1>3. x.holes + Cardinality(x.set \cap S) \in Nat
  BY <1>2 DEF DistanceSet
<1> QED
  BY <1>3 DEF Absorb, DistanceSet, SameSet

LEMMA MarkType ==
  ASSUME NEW x \in DistanceSet, NEW status \in FinalizeStatus
  PROVE  /\ SameSet(x, [x EXCEPT !.finalize = status])
         /\ [x EXCEPT !.finalize = status].finalize = status
  BY DEF DistanceSet, SameSet

LEMMA PullType ==
  ASSUME NEW x \in DistanceSet, NEW S \in SUBSET Address, NEW b \in BOOLEAN
  PROVE  LET y == [x EXCEPT !.chain = @ \cup S, !.pulled = b] IN
         SameSet(x, y) /\ y.finalize = x.finalize
  BY DEF DistanceSet, SameSet

LEMMA HeadsType ==
  ASSUME TypeOK, NEW d \in DsId, ~Missing(d)
  PROVE  Heads(d) \in SUBSET Address
<1>1. ASSUME NEW i \in Others(d) PROVE Head(write_sets_[i][d]) \in SUBSET Address
  <2>1. InQueue \subseteq Thread
    BY QueueType DEF TypeOK
  <2>2. i \in Thread
    BY <2>1 DEF Others
  <2>3. write_sets_[i][d] \in Seq(SUBSET Address)
    BY <2>2 DEF TypeOK, SampleTypeOK
  <2>4. write_sets_[i][d] # <<>>
    BY DEF Missing
  <2> QED
    BY <2>3, <2>4
<1> QED
  BY <1>1 DEF Heads

\* All distance sets that there were and are, and the same that there were and are not.
SetsGoOn ==
  /\ ds' \in [DsId -> DistanceSet \cup NoDistanceSet]
  /\ \A d \in DsId :
       IF Exists(d) THEN Exists(d)' /\ ds'[d].owner = ds[d].owner ELSE ds'[d] = ds[d]

LEMMA ExistsType ==
  ASSUME TypeOK, NEW d \in DsId
  PROVE  Exists(d) <=> ds[d] \in DistanceSet
  BY StatusOf DEF TypeOK, SampleTypeOK, Exists

LEMMA LinkedExist ==
  ASSUME TypeOK, Samples, NEW u \in Thread, NEW d \in Linked(u)
  PROVE  d \in DsId /\ Exists(d) /\ ds[d].owner = u
  BY LinkedType DEF Samples

\* What Access does to the distance sets and to the write sets.
LEMMA AccessSamples ==
  ASSUME TypeOK, Calls, Samples, NEW t \in Thread, Access(t), ~Stays
  PROVE  SetsGoOn /\ write_sets_' \in [Thread -> [DsId -> Seq(SUBSET Address)]]
<1> DEFINE a == ref[t][1]
           w == ref[t][2]
           reused == {d \in Linked(t) : ds[d].addr = a}
           hit == {d \in Watched(t, w) : ds[d].addr = a}
           missed == Watched(t, w) \ hit
           left(d) == IF d \in Linked(t) THEN Insert(ds[d], a) ELSE ds[d]
<1>1. /\ pc[t] = "access" /\ AccessSets(t, a, w)
      /\ \A d \in Watched(t, w) : ds[d].addr = a => Exists(d)
  BY AccessStep
<1>2. a \in Address
  <2>1. ref[t] # <<>>
    BY <1>1 DEF Calls, OneCall
  <2> QED
    BY <2>1 DEF TypeOK, ControlTypeOK
<1>3. ds' = [d \in DsId |->
       IF d \in hit THEN [ds[d] EXCEPT !.finalize = RemoteFinalize]
       ELSE IF d \in reused THEN [ds[d] EXCEPT !.finalize = "kReuseFinalize"]
       ELSE IF Exists(d) THEN Touch(left(d), d, t, a) ELSE ds[d]]
  BY <1>1 DEF AccessSets
<1>4. write_sets_' = [write_sets_ EXCEPT ![t] = [d \in DsId |->
        IF d \in missed THEN [i \in DOMAIN write_sets_[t][d] |-> write_sets_[t][d][i] \cup {a}]
                        ELSE write_sets_[t][d]]]
  BY <1>1 DEF AccessSets, TypeOK, SampleTypeOK
<1>5. \A d \in hit : Exists(d)
  BY <1>1
<1>6. \A d \in reused : Exists(d)
  BY LinkedExist
<1>7. RemoteFinalize \in FinalizeStatus /\ "kReuseFinalize" \in FinalizeStatus
  BY DEF RemoteFinalize, FinalizeStatus
<1> HIDE DEF hit, reused, missed, a
<1>8. ASSUME NEW d \in DsId
      PROVE  /\ ds'[d] \in DistanceSet \cup NoDistanceSet
             /\ IF Exists(d) THEN Exists(d)' /\ ds'[d].owner = ds[d].owner ELSE ds'[d] = ds[d]
  <2>1. ds[d] \in DistanceSet \cup NoDistanceSet
    BY DEF TypeOK, SampleTypeOK
  <2>2. CASE d \in hit
    <3>1. ds[d] \in DistanceSet /\ ds'[d] = [ds[d] EXCEPT !.finalize = RemoteFinalize]
      BY <1>3, <1>5, <2>2, ExistsType
    <3> QED
      BY <1>5, <1>7, <2>2, <3>1, MarkType DEF SameSet, Exists
  <2>3. CASE d \notin hit /\ d \in reused
    <3>1. ds[d] \in DistanceSet /\ ds'[d] = [ds[d] EXCEPT !.finalize = "kReuseFinalize"]
      BY <1>3, <1>6, <2>3, ExistsType
    <3> QED
      BY <1>6, <1>7, <2>3, <3>1, MarkType DEF SameSet, Exists
  <2>4. CASE d \notin hit /\ d \notin reused /\ Exists(d)
    <3>1. ds[d] \in DistanceSet /\ ds'[d] = Touch(left(d), d, t, a)
      BY <1>3, <2>4, ExistsType
    <3>2. left(d) \in DistanceSet /\ left(d).owner = ds[d].owner /\ left(d).finalize = ds[d].finalize
      BY <1>2, <3>1, InsertType DEF SameSet
    <3> HIDE DEF left
    <3>3. ds'[d] \in DistanceSet /\ ds'[d].owner = ds[d].owner /\ ds'[d].finalize = ds[d].finalize
      BY <1>2, <3>1, <3>2, TouchType DEF SameSet
    <3> QED
      BY <2>4, <3>3 DEF Exists
  <2>5. CASE d \notin hit /\ d \notin reused /\ ~Exists(d)
    BY <1>3, <2>1, <2>5
  <2> QED
    BY <2>2, <2>3, <2>4, <2>5
<1>9. ASSUME NEW d \in DsId
      PROVE  (IF d \in missed THEN [i \in DOMAIN write_sets_[t][d] |-> write_sets_[t][d][i] \cup {a}]
                              ELSE write_sets_[t][d]) \in Seq(SUBSET Address)
  <2>1. write_sets_[t][d] \in Seq(SUBSET Address)
    BY DEF TypeOK, SampleTypeOK
  <2>2. [i \in DOMAIN write_sets_[t][d] |-> write_sets_[t][d][i] \cup {a}] \in Seq(SUBSET Address)
    <3>1. DOMAIN write_sets_[t][d] = 1 .. Len(write_sets_[t][d]) /\ Len(write_sets_[t][d]) \in Nat
      BY <2>1
    <3>2. \A i \in 1 .. Len(write_sets_[t][d]) : write_sets_[t][d][i] \cup {a} \in SUBSET Address
      BY <1>2, <2>1
    <3> QED
      BY <3>1, <3>2
  <2> QED
    BY <2>1, <2>2
<1>10. write_sets_' \in [Thread -> [DsId -> Seq(SUBSET Address)]]
  BY <1>4, <1>9 DEF TypeOK, SampleTypeOK
<1>11. ds' \in [DsId -> DistanceSet \cup NoDistanceSet]
  BY <1>3, <1>8
<1> QED
  BY <1>8, <1>10, <1>11 DEF SetsGoOn

LEMMA NewSample ==
  ASSUME TypeOK, Calls, Samples, NEW t \in Thread, NewSampledAddress(t)
  PROVE  /\ created + 1 \in DsId /\ ~Exists(created + 1)
         /\ created' = created + 1
         /\ ds' = [ds EXCEPT ![created + 1] = Fresh(t, ref[t][1])]
         /\ Fresh(t, ref[t][1]) \in DistanceSet
         /\ newDS[t] = NoDs /\ newDS' = [newDS EXCEPT ![t] = created + 1]
<1>1. created + 1 \in DsId
  <2>1. setup.samples \in 0 .. MaxSamples /\ created \in 0 .. MaxSamples /\ MaxSamples \in Nat
    BY SetupType, SamplerAssumption DEF TypeOK, ControlTypeOK, SampleTypeOK
  <2>2. created < setup.samples
    BY DEF NewSampledAddress
  <2> QED
    BY <2>1, <2>2 DEF DsId
<1>2. ~Exists(created + 1)
  <2>1. created + 1 > created
    BY DEF TypeOK, SampleTypeOK
  <2> QED
    BY <1>1, <2>1 DEF Samples, Exists, FinalizeStatus
<1>3. Fresh(t, ref[t][1]) \in DistanceSet
  <2>1. pc[t] = "sample"
    BY DEF NewSampledAddress
  <2>2. ref[t] # <<>>
    BY <2>1 DEF Calls, OneCall
  <2>3. ref[t][1] \in Address
    BY <2>2 DEF TypeOK, ControlTypeOK
  <2> QED
    BY <2>3 DEF Fresh, DistanceSet, FinalizeStatus
<1>4. newDS[t] = NoDs
  BY DEF Calls, OneCall, NewSampledAddress, InRound
<1> QED
  BY <1>1, <1>2, <1>3, <1>4 DEF NewSampledAddress

LEMMA PruneSamples ==
  ASSUME TypeOK, Samples, Oldest, NEW t \in Thread, Prune(t)
  PROVE  SetsGoOn
<1> DEFINE o == oldest_distance_set_[t]
<1>1. ds' = [ds EXCEPT ![o].finalize = "kPruneFinalize"]
  BY DEF Prune
<1>2. o = NoDs \/ o \in Linked(t)
  <2>1. distance_sets_[t] \in Seq(DsId)
    BY DEF TypeOK, SampleTypeOK
  <2> QED
    BY <2>1, ListElements DEF Oldest, OldestOf, Linked
<1>3. CASE o = NoDs
  <2>1. NoDs \notin DsId
    BY DEF NoDs, DsId
  <2>2. ds' = ds
    BY <1>1, <1>3, <2>1 DEF TypeOK, SampleTypeOK
  <2> QED
    BY <2>2 DEF SetsGoOn, TypeOK, SampleTypeOK, Exists
<1>4. CASE o \in Linked(t)
  <2>1. o \in DsId /\ Exists(o) /\ ds[o] \in DistanceSet
    BY <1>4, LinkedExist, ExistsType
  <2> DEFINE y == [ds[o] EXCEPT !.finalize = "kPruneFinalize"]
  <2>2. y \in DistanceSet /\ y.owner = ds[o].owner /\ y.finalize \in FinalizeStatus
    <3>1. "kPruneFinalize" \in FinalizeStatus
      BY DEF FinalizeStatus
    <3> QED
      BY <2>1, <3>1, MarkType DEF SameSet
  <2>3. ds' = [ds EXCEPT ![o] = y]
    BY <1>1
  <2> HIDE DEF y, o
  <2> QED
    BY <2>1, <2>2, <2>3 DEF SetsGoOn, Exists, TypeOK, SampleTypeOK
<1> QED
  BY <1>2, <1>3, <1>4

LEMMA RemovedType ==
  ASSUME TypeOK, NEW t \in Thread, NEW todo
  PROVE  Removed(t, todo) \subseteq AllLinked
<1>1. Walk(t, todo.end, thread_count) \subseteq InQueue
  <2>1. thread_count \in Nat /\ t \in Int
    BY SamplerAssumption DEF TypeOK, ControlTypeOK, Thread
  <2> QED
    BY <2>1, WalkInQueue DEF InQueue
<1> QED
  BY <1>1 DEF Removed, LinkedOf, AllLinked

LEMMA AllLinkedExist ==
  ASSUME TypeOK, Samples, NEW d \in AllLinked
  PROVE  d \in DsId /\ Exists(d) /\ ds[d] \in DistanceSet /\ ds[d].owner \in InQueue
<1>1. PICK u \in InQueue : d \in Linked(u)
  BY DEF AllLinked
<1>2. u \in Thread
  BY QueueType DEF TypeOK
<1> QED
  BY <1>1, <1>2, LinkedExist, ExistsType

\* What the first stage does to a thread's write sets for a sample.
Cut(t, todo, i, d) ==
  IF d \in Removed(t, todo) /\ i \in Others(d) THEN Tail(write_sets_[i][d])
                                               ELSE write_sets_[i][d]
Adds(t, i, d) == i \in InQueue /\ d \in Pushed(t, i) \cup Populated(t, i)

LEMMA FirstStageSamples ==
  ASSUME TypeOK, Samples, NEW t \in Thread, NEW todo,
         \A d \in Removed(t, todo) : ~Missing(d), FirstStage(t, todo)
  PROVE  /\ SetsGoOn
         /\ write_sets_' \in [Thread -> [DsId -> Seq(SUBSET Address)]]
         /\ \A i \in Thread, d \in DsId :
              write_sets_'[i][d] = IF Adds(t, i, d) THEN Cons({}, Cut(t, todo, i, d))
                                                    ELSE Cut(t, todo, i, d)
<1> DEFINE removed == Removed(t, todo)
           pulled(d) == [ds[d] EXCEPT !.chain = @ \cup Heads(d), !.pulled = Others(d) # {}]
           new(i, d) == IF Adds(t, i, d) THEN Cons({}, Cut(t, todo, i, d))
                                         ELSE Cut(t, todo, i, d)
<1>1. ds' = [d \in DsId |-> IF d \in removed THEN pulled(d) ELSE ds[d]]
  BY DEF FirstStage
<1>2. write_sets_' = [i \in Thread |-> [d \in DsId |-> new(i, d)]]
  BY DEF FirstStage, Adds, Cut
<1>3. removed \subseteq AllLinked
  BY RemovedType
<1>4. ASSUME NEW d \in removed
      PROVE  /\ d \in DsId /\ Exists(d)
             /\ pulled(d) \in DistanceSet /\ pulled(d).owner = ds[d].owner
             /\ pulled(d).finalize = ds[d].finalize
  <2>1. d \in DsId /\ Exists(d) /\ ds[d] \in DistanceSet
    BY <1>3, AllLinkedExist
  <2>2. Heads(d) \in SUBSET Address
    BY <2>1, HeadsType
  <2>3. (Others(d) # {}) \in BOOLEAN
    OBVIOUS
  <2>4. \A S \in SUBSET Address, b \in BOOLEAN :
          LET y == [ds[d] EXCEPT !.chain = @ \cup S, !.pulled = b] IN
          SameSet(ds[d], y) /\ y.finalize = ds[d].finalize
    BY <2>1, PullType
  <2>5. SameSet(ds[d], pulled(d)) /\ pulled(d).finalize = ds[d].finalize
    BY <2>2, <2>3, <2>4
  <2> HIDE DEF pulled
  <2> QED
    BY <2>1, <2>5 DEF SameSet
<1>5. ASSUME NEW i \in Thread, NEW d \in DsId
      PROVE  Cut(t, todo, i, d) \in Seq(SUBSET Address)
  <2>1. write_sets_[i][d] \in Seq(SUBSET Address)
    BY DEF TypeOK, SampleTypeOK
  <2>2. d \in removed /\ i \in Others(d) => write_sets_[i][d] # <<>>
    BY DEF Missing
  <2> QED
    BY <2>1, <2>2 DEF Cut
<1>6. ASSUME NEW i \in Thread, NEW d \in DsId
      PROVE  new(i, d) \in Seq(SUBSET Address)
  <2>1. {} \in SUBSET Address
    OBVIOUS
  <2>2. Cons({}, Cut(t, todo, i, d)) \in Seq(SUBSET Address)
    BY <1>5, <2>1, ListPrepend
  <2> QED
    BY <1>5, <2>2
<1> HIDE DEF removed, pulled, new
<1>7. write_sets_' \in [Thread -> [DsId -> Seq(SUBSET Address)]]
  BY <1>2, <1>6
<1>8. SetsGoOn
  <2>1. ds' \in [DsId -> DistanceSet \cup NoDistanceSet]
    BY <1>1, <1>4 DEF TypeOK, SampleTypeOK
  <2> QED
    BY <1>1, <1>4, <2>1 DEF SetsGoOn, Exists
<1>9. \A i \in Thread, d \in DsId : write_sets_'[i][d] = new(i, d)
  BY <1>2
<1> QED
  BY <1>7, <1>8, <1>9 DEF new

\* What the second stage does: samples that die leave the list of their owner, the
\* others go on.
LEMMA SecondStageSamples ==
  ASSUME TypeOK, Samples, NEW t \in Thread, SecondStage(t, SyncedOf(t), ServedOf(t)),
         plan[t].merge => \A d \in LinkedOf(ServedOf(t)) \ DyingOf(t) : ~Missing(d)
  PROVE  /\ ds' \in [DsId -> DistanceSet \cup NoDistanceSet]
         /\ \A d \in DsId \ DyingOf(t) :
              IF Exists(d) THEN Exists(d)' /\ ds'[d].owner = ds[d].owner ELSE ds'[d] = ds[d]
         /\ \A d \in DyingOf(t) : Exists(d) /\ ds'[d].finalize = "deleted"
         /\ write_sets_' \in [Thread -> [DsId -> Seq(SUBSET Address)]]
         /\ distance_sets_' \in [Thread -> Seq(DsId)]
         /\ \A u \in Thread : distance_sets_'[u] = Unlink(distance_sets_[u], DyingOf(t))
         /\ cold_samples' \in [Thread -> Nat]
<1> DEFINE dying == DyingOf(t)
           merged == IF plan[t].merge THEN LinkedOf(ServedOf(t)) \ dying ELSE {}
<1>1. /\ ds' = [d \in DsId |-> IF d \in dying THEN Finalized(ds[d])
                               ELSE IF d \in merged THEN Absorb(ds[d], Heads(d))
                               ELSE ds[d]]
      /\ write_sets_' = [i \in Thread |-> [d \in DsId |->
           IF d \in merged /\ i \in Others(d) THEN ReplaceAt(write_sets_[i][d], 1, {})
                                              ELSE write_sets_[i][d]]]
      /\ distance_sets_' = [u \in Thread |-> Unlink(distance_sets_[u], dying)]
      /\ cold_samples' = [u \in Thread |-> cold_samples[u] + Cardinality(
           {d \in dying : ds[d].owner = u /\ ds[d].finalize = "kPruneFinalize"})]
  BY DEF SecondStage, DyingOf
<1>2. dying \subseteq AllLinked /\ merged \subseteq AllLinked /\ dying \subseteq DsId
  BY DyingType
<1>3. \A d \in merged : d \notin dying /\ ~Missing(d)
  OBVIOUS
<1> HIDE DEF dying, merged
<1>4. ASSUME NEW d \in DsId
      PROVE  /\ ds'[d] \in DistanceSet \cup NoDistanceSet
             /\ d \in dying => Exists(d) /\ ds'[d].finalize = "deleted"
             /\ d \notin dying => IF Exists(d) THEN Exists(d)' /\ ds'[d].owner = ds[d].owner
                                               ELSE ds'[d] = ds[d]
  <2>1. CASE d \in dying
    <3>1. ds[d] \in DistanceSet /\ Exists(d) /\ ds'[d] = Finalized(ds[d])
      BY <1>1, <1>2, <2>1, AllLinkedExist
    <3> QED
      BY <2>1, <3>1 DEF Finalized, DistanceSet, NoDistanceSet
  <2>2. CASE d \in merged
    <3>1. ds[d] \in DistanceSet /\ Exists(d) /\ ds'[d] = Absorb(ds[d], Heads(d))
      BY <1>1, <1>2, <1>3, <2>2, AllLinkedExist
    <3>2. Heads(d) \in SUBSET Address
      BY <1>3, <2>2, HeadsType
    <3>3. SameSet(ds[d], ds'[d]) /\ ds'[d].finalize = ds[d].finalize
      BY <3>1, <3>2, AbsorbType
    <3> QED
      BY <1>3, <2>2, <3>1, <3>3 DEF SameSet, Exists
  <2>3. CASE d \notin dying /\ d \notin merged
    BY <1>1, <2>3 DEF TypeOK, SampleTypeOK, Exists
  <2> QED
    BY <1>3, <2>1, <2>2, <2>3
<1>5. ds' \in [DsId -> DistanceSet \cup NoDistanceSet]
  BY <1>1, <1>4
<1>6. write_sets_' \in [Thread -> [DsId -> Seq(SUBSET Address)]]
  <2>1. ASSUME NEW i \in Thread, NEW d \in DsId
        PROVE  ReplaceAt(write_sets_[i][d], 1, {}) \in Seq(SUBSET Address)
    <3>1. write_sets_[i][d] \in Seq(SUBSET Address) /\ {} \in SUBSET Address
      BY DEF TypeOK, SampleTypeOK
    <3> QED
      BY <3>1, ListReplace
  <2> QED
    BY <1>1, <2>1 DEF TypeOK, SampleTypeOK
<1>7. distance_sets_' \in [Thread -> Seq(DsId)]
  <2>1. \A u \in Thread : Unlink(distance_sets_[u], dying) \in Seq(DsId)
    BY Unlinked DEF TypeOK, SampleTypeOK
  <2> QED
    BY <1>1, <2>1
<1>8. cold_samples' \in [Thread -> Nat]
  <2>1. ASSUME NEW u \in Thread
        PROVE  Cardinality({d \in dying : ds[d].owner = u /\ ds[d].finalize = "kPruneFinalize"}) \in Nat
    <3>1. {d \in dying : ds[d].owner = u /\ ds[d].finalize = "kPruneFinalize"} \in SUBSET DsId
      BY <1>2
    <3> QED
      BY <3>1, SamplesFinite
  <2> DEFINE C(u) == Cardinality({d \in dying : ds[d].owner = u /\ ds[d].finalize = "kPruneFinalize"})
  <2>2. cold_samples' = [u \in Thread |-> cold_samples[u] + C(u)] /\ \A u \in Thread : C(u) \in Nat
    BY <1>1, <2>1
  <2> HIDE DEF C
  <2> QED
    BY <2>2 DEF TypeOK, SampleTypeOK
<1>9. \A u \in Thread : distance_sets_'[u] = Unlink(distance_sets_[u], dying)
  BY <1>1
<1>10. \A d \in DsId \ dying :
         IF Exists(d) THEN Exists(d)' /\ ds'[d].owner = ds[d].owner ELSE ds'[d] = ds[d]
  BY <1>4
<1>11. \A d \in dying : Exists(d) /\ ds'[d].finalize = "deleted"
  BY <1>2, <1>4
<1> QED
  BY <1>5, <1>6, <1>7, <1>8, <1>9, <1>10, <1>11 DEF dying

LEMMA LinkOne ==
  \A list \in Seq(DsId), d \in DsId : ToSet(Cons(d, list)) = ToSet(list) \cup {d}
<1> SUFFICES ASSUME NEW list \in Seq(DsId), NEW d \in DsId
             PROVE  ToSet(Cons(d, list)) = ToSet(list) \cup {d}
  OBVIOUS
<1> QED
  BY ListPrepend

\* The variables that the samples' invariants are about.
sampleVars == <<ds, created, distance_sets_, oldest_distance_set_, write_sets_, prune_count_,
                cold_samples, newDS, thread_count>>

LEMMA OtherStepsSamples ==
  ASSUME NEW t \in Thread, ThreadStep(t)
  PROVE  \/ UNCHANGED sampleVars
         \/ JoinQueue(t)
         \/ Access(t) /\ ~Stays
         \/ NewSampledAddress(t) \/ Prune(t)
         \/ Stage1(t) /\ ~Stays
         \/ Stage2(t) /\ ~Stays
         \/ Leave(t)
<1> USE DEF sampleVars, barrierVars, globalVars, listVars, setVars, statVars, callVars
<1>1. CASE Stays
  BY <1>1 DEF Stays
<1>2. CASE JoinBarrier(t) \/ SetThreadEnable(t)
  BY <1>2 DEF JoinBarrier, SetThreadEnable
<1>3. CASE WaitStart(t)
  BY <1>1, <1>3, WaitStartStep
<1>4. CASE Sleep(t)
  BY <1>1, <1>4, SleepStep
<1>5. CASE Wake(t) \/ SampleTrigger(t) \/ AccessDisabled(t)
  BY <1>5 DEF Wake, SampleTrigger, AccessDisabled
<1>6. CASE \E a \in setup.blocks, is_write \in BOOLEAN : SampledMemRef(t, a, is_write)
  BY <1>6 DEF SampledMemRef
<1>7. CASE AccessChecks(t)
  BY <1>1, <1>7, AccessChecksStep
<1>8. CASE NotSampled(t) \/ SampleRefused(t) \/ MergeAllSamples(t)
  BY <1>8 DEF NotSampled, SampleRefused, MergeAllSamples
<1> QED
  BY <1>1, <1>2, <1>3, <1>4, <1>5, <1>6, <1>7, <1>8 DEF ThreadStep

LEMMA SampleTypes ==
  ASSUME TypeOK, BornInOrder, Calls, Samples, Oldest, NEW t \in Thread, ThreadStep(t)
  PROVE  SampleTypeOK'
<1>0. SampleTypeOK
  BY DEF TypeOK
<1>1. CASE UNCHANGED sampleVars
  BY <1>0, <1>1 DEF SampleTypeOK, sampleVars
<1>2. CASE JoinQueue(t)
  <2>1. UNCHANGED <<ds, created, distance_sets_, oldest_distance_set_, write_sets_,
                    prune_count_, cold_samples, newDS>>
    BY <1>2 DEF JoinQueue, listVars, setVars, statVars, callVars
  <2> QED
    BY <1>0, <2>1 DEF SampleTypeOK
<1>3. CASE Access(t) /\ ~Stays
  <2>1. SetsGoOn /\ write_sets_' \in [Thread -> [DsId -> Seq(SUBSET Address)]]
    BY <1>3, AccessSamples
  <2>2. UNCHANGED <<distance_sets_, oldest_distance_set_, created, statVars, newDS>>
    BY <1>3, AccessStep
  <2> QED
    BY <1>0, <2>1, <2>2 DEF SampleTypeOK, SetsGoOn, statVars
<1>4. CASE NewSampledAddress(t)
  <2>1. UNCHANGED <<listVars, statVars>>
    BY <1>4 DEF NewSampledAddress
  <2>2. PICK n \in DsId :
             /\ n = created + 1 /\ created' = n
             /\ \E x \in DistanceSet : ds' = [ds EXCEPT ![n] = x]
             /\ newDS' = [newDS EXCEPT ![t] = n]
    BY <1>4, NewSample
  <2>4. ds' \in [DsId -> DistanceSet \cup NoDistanceSet]
    BY <1>0, <2>2 DEF SampleTypeOK
  <2>5. newDS' \in [Thread -> DsId \cup {NoDs}]
    BY <1>0, <2>2 DEF SampleTypeOK
  <2>3. created' \in 0 .. MaxSamples
    BY <2>2 DEF DsId
  <2> QED
    BY <1>0, <2>1, <2>3, <2>4, <2>5 DEF SampleTypeOK, listVars, statVars
<1>5. CASE Prune(t)
  <2>1. SetsGoOn
    BY <1>5, PruneSamples
  <2>2. prune_count_' = [prune_count_ EXCEPT ![t] = @ + 1]
    BY <1>5 DEF Prune
  <2>3. UNCHANGED <<listVars, created, cold_samples, callVars>>
    BY <1>5 DEF Prune
  <2>4. prune_count_' \in [Thread -> Nat]
    BY <1>0, <2>2 DEF SampleTypeOK
  <2> QED
    BY <1>0, <2>1, <2>3, <2>4 DEF SampleTypeOK, SetsGoOn, listVars, callVars
<1>6. CASE Stage1(t) /\ ~Stays
  <2>1. FirstStage(t, TodoOf(t)) /\ \A d \in Removed(t, TodoOf(t)) : ~Missing(d)
    BY <1>6, Stage1Step
  <2>2. SetsGoOn /\ write_sets_' \in [Thread -> [DsId -> Seq(SUBSET Address)]]
    BY <2>1, FirstStageSamples
  <2>3. UNCHANGED <<distance_sets_, oldest_distance_set_, created, statVars, newDS>>
    BY <2>1 DEF FirstStage
  <2> QED
    BY <1>0, <2>2, <2>3 DEF SampleTypeOK, SetsGoOn, statVars
<1>7. CASE Stage2(t) /\ ~Stays
  <2>1. /\ SecondStage(t, SyncedOf(t), ServedOf(t))
        /\ plan[t].merge => \A d \in LinkedOf(ServedOf(t)) \ DyingOf(t) : ~Missing(d)
    BY <1>7, Stage2Step
  <2>2. /\ ds' \in [DsId -> DistanceSet \cup NoDistanceSet]
        /\ write_sets_' \in [Thread -> [DsId -> Seq(SUBSET Address)]]
        /\ distance_sets_' \in [Thread -> Seq(DsId)]
        /\ cold_samples' \in [Thread -> Nat]
    BY <2>1, SecondStageSamples
  <2>3. oldest_distance_set_' \in [Thread -> DsId \cup {NoDs}]
    <3>1. oldest_distance_set_' = [u \in Thread |->
            IF oldest_distance_set_[u] \in DyingOf(t) THEN OldestOf(distance_sets_'[u])
                                                      ELSE oldest_distance_set_[u]]
      BY <2>1 DEF SecondStage, DyingOf
    <3>2. \A u \in Thread : OldestOf(distance_sets_'[u]) \in DsId \cup {NoDs}
      BY <2>2, ListElements DEF OldestOf
    <3> QED
      BY <1>0, <3>1, <3>2 DEF SampleTypeOK
  <2>4. UNCHANGED <<created, prune_count_, newDS>>
    BY <2>1 DEF SecondStage
  <2> QED
    BY <1>0, <2>2, <2>3, <2>4 DEF SampleTypeOK
<1>8. CASE Leave(t)
  <2>1. /\ distance_sets_' = IF action[t] = "kNewSampledAddress"
             THEN [distance_sets_ EXCEPT ![t] = Cons(newDS[t], distance_sets_[t])]
             ELSE distance_sets_
        /\ \/ oldest_distance_set_' = [oldest_distance_set_ EXCEPT ![t] = newDS[t]]
           \/ oldest_distance_set_' = oldest_distance_set_
        /\ newDS' = [newDS EXCEPT ![t] = NoDs]
        /\ UNCHANGED <<write_sets_, setVars, statVars>>
    BY <1>8 DEF Leave
  <2>2. action[t] = "kNewSampledAddress" => newDS[t] \in DsId
    BY <1>0 DEF Calls, OneCall, SampleTypeOK
  <2>3. action[t] = "kNewSampledAddress" => Cons(newDS[t], distance_sets_[t]) \in Seq(DsId)
    BY <1>0, <2>2, ListPrepend DEF SampleTypeOK
  <2>4. distance_sets_' \in [Thread -> Seq(DsId)]
    BY <1>0, <2>1, <2>3 DEF SampleTypeOK
  <2>5. /\ oldest_distance_set_' \in [Thread -> DsId \cup {NoDs}]
        /\ newDS' \in [Thread -> DsId \cup {NoDs}]
    BY <1>0, <2>1 DEF SampleTypeOK
  <2> QED
    BY <1>0, <2>1, <2>4, <2>5 DEF SampleTypeOK, setVars, statVars
<1> QED
  BY <1>1, <1>2, <1>3, <1>4, <1>5, <1>6, <1>7, <1>8, OtherStepsSamples

LEMMA SamplesStep ==
  ASSUME TypeOK, BornInOrder, Calls, Samples, Oldest, NEW t \in Thread, ThreadStep(t)
  PROVE  Samples'
<1> DEFINE Outside(u) == u \notin InQueue => distance_sets_[u] = <<>>
           Listed(u) == \A d \in Linked(u) : Exists(d) /\ ds[d].owner = u /\ d # newDS[u]
           New(u) == newDS[u] # NoDs => Exists(newDS[u]) /\ ds[newDS[u]].owner = u
           Home(d) == Exists(d) => d \in Linked(ds[d].owner) \/ newDS[ds[d].owner] = d
<1>0. /\ \A d \in DsId : d > created => ds[d].finalize = "none"
      /\ \A d \in DsId : Home(d)
      /\ \A u \in Thread : Outside(u) /\ Listed(u) /\ New(u)
  BY DEF Samples
<1>u. SUFFICES /\ \A d \in DsId : d > created' => ds'[d].finalize = "none"
               /\ \A d \in DsId : Home(d)'
               /\ \A u \in Thread : Outside(u)' /\ Listed(u)' /\ New(u)'
  BY DEF Samples
<1>t. /\ \A u \in Thread : Linked(u) \subseteq DsId
      /\ \A u \in Thread : newDS[u] \in DsId \cup {NoDs}
      /\ \A d \in DsId : Exists(d) => ds[d].owner \in Thread
  BY LinkedType, ExistsType DEF TypeOK, SampleTypeOK, DistanceSet
<1>1. CASE UNCHANGED sampleVars
  BY <1>0, <1>1 DEF sampleVars, InQueue, Linked, Exists
<1>2. CASE JoinQueue(t)
  <2>1. UNCHANGED <<ds, created, distance_sets_, newDS>>
    BY <1>2 DEF JoinQueue, listVars, setVars, callVars
  <2>2. InQueue \subseteq InQueue'
    <3>1. thread_count \in Nat /\ thread_count' = thread_count + 1
      BY <1>2, SamplerAssumption DEF JoinQueue, TypeOK, ControlTypeOK
    <3> QED
      BY <3>1 DEF InQueue
  <2> QED
    BY <1>0, <2>1, <2>2 DEF Linked, Exists
<1>k. ASSUME SetsGoOn, UNCHANGED <<created, distance_sets_, newDS, thread_count>>
      PROVE  /\ \A d \in DsId : d > created' => ds'[d].finalize = "none"
             /\ \A d \in DsId : Home(d)'
             /\ \A u \in Thread : Outside(u)' /\ Listed(u)' /\ New(u)'
  <2>1. \A d \in DsId : Exists(d)' <=> Exists(d)
    BY <1>k DEF SetsGoOn, Exists
  <2>2. \A d \in DsId : Exists(d) => ds'[d].owner = ds[d].owner
    BY <1>k DEF SetsGoOn
  <2>3. \A d \in DsId : ds[d].finalize = "none" => ds'[d].finalize = "none"
    BY <1>k DEF SetsGoOn, Exists, FinalizeStatus
  <2>4. \A u \in Thread : Linked(u)' = Linked(u) /\ newDS'[u] = newDS[u]
    BY <1>k DEF Linked
  <2>5. \A u \in Thread : Outside(u)'
    BY <1>0, <1>k DEF InQueue
  <2>6. \A u \in Thread : Listed(u)'
    BY <1>0, <1>t, <2>1, <2>2, <2>4
  <2>7. \A u \in Thread : New(u)'
    BY <1>0, <1>t, <2>1, <2>2, <2>4
  <2>8. \A d \in DsId : Home(d)'
    BY <1>0, <1>t, <2>1, <2>2, <2>4
  <2> QED
    BY <1>0, <1>k, <2>3, <2>5, <2>6, <2>7, <2>8
<1>3. CASE Access(t) /\ ~Stays
  <2>1. SetsGoOn
    BY <1>3, AccessSamples
  <2>2. UNCHANGED <<created, distance_sets_, newDS, thread_count>>
    BY <1>3, AccessStep
  <2> QED
    BY <1>k, <2>1, <2>2
<1>4. CASE NewSampledAddress(t)
  <2>0. PICK n \in DsId : n = created + 1
    BY <1>4, NewSample
  <2>1. /\ n \in DsId /\ ~Exists(n) /\ created' = n
        /\ ds' = [ds EXCEPT ![n] = Fresh(t, ref[t][1])]
        /\ newDS[t] = NoDs /\ newDS' = [newDS EXCEPT ![t] = n]
    BY <1>4, <2>0, NewSample
  <2>2. UNCHANGED <<distance_sets_, thread_count>>
    BY <1>4 DEF NewSampledAddress, listVars
  <2>3. ds'[n].finalize \in FinalizeStatus /\ ds'[n].owner = t
    BY <2>1 DEF Fresh, FinalizeStatus, TypeOK, SampleTypeOK
  <2>4. \A d \in DsId : d # n => ds'[d] = ds[d]
    BY <2>1 DEF TypeOK, SampleTypeOK
  <2>5. newDS'[t] = n /\ \A u \in Thread \ {t} : newDS'[u] = newDS[u]
    BY <2>1 DEF TypeOK, SampleTypeOK
  <2>6. created \in Int /\ n = created + 1 /\ n # NoDs
    BY <2>0 DEF TypeOK, SampleTypeOK, DsId, NoDs
  <2>7. \A d \in DsId : d > created' => d > created /\ d # n
    BY <2>1, <2>6 DEF DsId
  <2>8. \A u \in Thread : Linked(u)' = Linked(u) /\ n \notin Linked(u) /\ newDS[u] # n
    BY <1>0, <2>1, <2>2, <2>6 DEF Linked
  <2>9. \A u \in Thread : Outside(u)'
    BY <1>0, <2>2 DEF InQueue
  <2>10. \A u \in Thread : Listed(u)'
    BY <1>0, <1>t, <2>4, <2>5, <2>8 DEF Exists
  <2>11. \A u \in Thread : New(u)'
    BY <1>0, <1>t, <2>3, <2>4, <2>5, <2>8 DEF Exists
  <2>12. \A d \in DsId : Home(d)'
    <3>1. Home(n)'
      BY <2>3, <2>5
    <3>2. ASSUME NEW d \in DsId, d # n PROVE Home(d)'
      <4>1. \/ ~Exists(d)
            \/ Home(d) /\ ds'[d] = ds[d] /\ Linked(ds[d].owner)' = Linked(ds[d].owner)
        BY <1>0, <1>t, <2>4, <2>8, <3>2
      <4>2. Exists(d)' => Exists(d)
        BY <2>4, <3>2 DEF Exists
      <4>3. Exists(d) /\ newDS[ds[d].owner] = d => newDS'[ds[d].owner] = d
        <5>1. d \in DsId /\ NoDs \notin DsId
          BY DEF NoDs, DsId
        <5> QED
          BY <1>t, <2>1, <2>5, <5>1
      <4> QED
        BY <4>1, <4>2, <4>3
    <3> QED
      BY <3>1, <3>2
  <2>13. \A d \in DsId : d > created' => ds'[d].finalize = "none"
    BY <1>0, <2>4, <2>7
  <2> QED
    BY <2>9, <2>10, <2>11, <2>12, <2>13
<1>5. CASE Prune(t)
  <2>1. SetsGoOn
    BY <1>5, PruneSamples
  <2>2. UNCHANGED <<created, distance_sets_, newDS, thread_count>>
    BY <1>5 DEF Prune, listVars, callVars
  <2> QED
    BY <1>k, <2>1, <2>2
<1>6. CASE Stage1(t) /\ ~Stays
  <2>1. FirstStage(t, TodoOf(t)) /\ \A d \in Removed(t, TodoOf(t)) : ~Missing(d)
    BY <1>6, Stage1Step
  <2>2. SetsGoOn
    BY <2>1, FirstStageSamples
  <2>3. UNCHANGED <<created, distance_sets_, newDS, thread_count>>
    BY <2>1 DEF FirstStage, globalVars
  <2> QED
    BY <1>k, <2>2, <2>3
<1>7. CASE Stage2(t) /\ ~Stays
  <2> DEFINE dying == DyingOf(t)
  <2>1. /\ SecondStage(t, SyncedOf(t), ServedOf(t))
        /\ plan[t].merge => \A d \in LinkedOf(ServedOf(t)) \ DyingOf(t) : ~Missing(d)
    BY <1>7, Stage2Step
  <2>2. /\ \A d \in DsId \ dying :
             IF Exists(d) THEN Exists(d)' /\ ds'[d].owner = ds[d].owner ELSE ds'[d] = ds[d]
        /\ \A d \in dying : Exists(d) /\ ds'[d].finalize = "deleted"
        /\ \A u \in Thread : distance_sets_'[u] = Unlink(distance_sets_[u], dying)
    BY <2>1, SecondStageSamples
  <2>3. UNCHANGED <<created, newDS, thread_count>>
    BY <2>1 DEF SecondStage
  <2>4. dying \subseteq AllLinked /\ dying \subseteq DsId
    BY DyingType
  <2> HIDE DEF dying
  <2>5. \A u \in Thread : Linked(u)' = Linked(u) \ dying
    <3>1. \A u \in Thread : distance_sets_[u] \in Seq(DsId)
      BY DEF TypeOK, SampleTypeOK
    <3> QED
      BY <2>2, <3>1, Unlinked DEF Linked
  <2>6. \A u \in Thread : newDS[u] \notin dying
    <3>1. ASSUME NEW u \in Thread, newDS[u] \in dying PROVE FALSE
      <4>1. PICK v \in InQueue : newDS[u] \in Linked(v)
        BY <2>4, <3>1 DEF AllLinked
      <4>2. v \in Thread
        BY QueueType DEF TypeOK
      <4>3. newDS[u] # NoDs
        BY <1>t, <4>1, <4>2 DEF NoDs, DsId
      <4> QED
        BY <1>0, <4>1, <4>2, <4>3
    <3> QED
      BY <3>1
  <2>7. \A d \in DsId : Exists(d)' <=> Exists(d) /\ d \notin dying
    BY <2>2 DEF Exists, FinalizeStatus
  <2>8. \A d \in DsId : d \notin dying /\ Exists(d) => ds'[d].owner = ds[d].owner
    BY <2>2
  <2>9. \A u \in Thread : Outside(u)'
    <3>1. \A u \in Thread : distance_sets_[u] = <<>> => Unlink(distance_sets_[u], dying) = <<>>
      <4>1. ASSUME NEW u \in Thread, distance_sets_[u] = <<>>
            PROVE  Unlink(distance_sets_[u], dying) = <<>>
        <5>1. distance_sets_[u] \in Seq(DsId)
          BY DEF TypeOK, SampleTypeOK
        <5>2. Unlink(distance_sets_[u], dying) \in Seq(DsId)
          BY <5>1, Unlinked
        <5>3. ToSet(Unlink(distance_sets_[u], dying)) = ToSet(distance_sets_[u]) \ dying
          BY <5>1, Unlinked
        <5>4. ToSet(distance_sets_[u]) = {}
          BY <4>1, <5>1, ListElements
        <5> QED
          BY <5>2, <5>3, <5>4, ListElements
      <4> QED
        BY <4>1
    <3> QED
      BY <1>0, <2>2, <2>3, <3>1 DEF InQueue
  <2>10. \A u \in Thread : Listed(u)'
    BY <1>0, <1>t, <2>3, <2>5, <2>7, <2>8
  <2>11. \A u \in Thread : New(u)'
    BY <1>0, <1>t, <2>3, <2>6, <2>7, <2>8
  <2>12. \A d \in DsId : Home(d)'
    BY <1>0, <1>t, <2>3, <2>5, <2>7, <2>8
  <2>13. \A d \in DsId : d > created' => ds'[d].finalize = "none"
    <3>1. \A d \in DsId : ds[d].finalize = "none" => ~Exists(d) /\ d \notin dying
      BY <2>2 DEF Exists, FinalizeStatus
    <3> QED
      BY <1>0, <2>2, <2>3, <3>1
  <2> QED
    BY <2>9, <2>10, <2>11, <2>12, <2>13
<1>8. CASE Leave(t)
  <2>1. /\ distance_sets_' = IF action[t] = "kNewSampledAddress"
             THEN [distance_sets_ EXCEPT ![t] = Cons(newDS[t], distance_sets_[t])]
             ELSE distance_sets_
        /\ newDS' = [newDS EXCEPT ![t] = NoDs]
        /\ pc[t] = "leave"
        /\ UNCHANGED <<globalVars, setVars>>
    BY <1>8 DEF Leave
  <2>2. action[t] = "kNewSampledAddress" <=> newDS[t] # NoDs
    BY DEF Calls, OneCall
  <2>3. Linked(t)' = IF newDS[t] # NoDs THEN Linked(t) \cup {newDS[t]} ELSE Linked(t)
    <3>1. CASE newDS[t] # NoDs
      <4>1. newDS[t] \in DsId /\ distance_sets_[t] \in Seq(DsId)
        BY <1>t, <3>1 DEF TypeOK, SampleTypeOK
      <4>2. distance_sets_'[t] = Cons(newDS[t], distance_sets_[t])
        BY <2>1, <2>2, <3>1 DEF TypeOK, SampleTypeOK
      <4>3. ToSet(Cons(newDS[t], distance_sets_[t])) = ToSet(distance_sets_[t]) \cup {newDS[t]}
        BY <4>1, LinkOne
      <4> QED
        BY <3>1, <4>2, <4>3 DEF Linked
    <3>2. CASE newDS[t] = NoDs
      BY <2>1, <2>2, <3>2 DEF Linked
    <3> QED
      BY <3>1, <3>2
  <2>4. \A u \in Thread \ {t} :
          Linked(u)' = Linked(u) /\ distance_sets_'[u] = distance_sets_[u] /\ newDS'[u] = newDS[u]
    BY <2>1 DEF Linked, TypeOK, SampleTypeOK
  <2>5. newDS'[t] = NoDs
    BY <2>1 DEF TypeOK, SampleTypeOK
  <2>6. t \in InQueue
    BY <2>1, InTheQueue DEF TypeOK
  <2>7. UNCHANGED <<ds, created, thread_count>>
    BY <2>1 DEF globalVars, setVars
  <2>8. \A u \in Thread : Outside(u)'
    BY <1>0, <2>4, <2>6, <2>7 DEF InQueue
  <2>9. \A u \in Thread : Listed(u)'
    <3>1. Listed(t)'
      <4>1. \A d \in Linked(t)' : Exists(d) /\ ds[d].owner = t /\ d # NoDs
        <5>1. \A d \in Linked(t) : d # NoDs
          BY <1>t DEF DsId, NoDs
        <5> QED
          BY <1>0, <2>3, <5>1
      <4> QED
        BY <2>5, <2>7, <4>1 DEF Exists
    <3>2. \A u \in Thread \ {t} : Listed(u)'
      BY <1>0, <2>4, <2>7 DEF Exists
    <3> QED
      BY <3>1, <3>2
  <2>10. \A u \in Thread : New(u)'
    BY <1>0, <2>4, <2>5, <2>7 DEF Exists
  <2>11. \A d \in DsId : Home(d)'
    <3>1. ASSUME NEW d \in DsId, Exists(d) PROVE Home(d)'
      <4>1. PICK u \in Thread : u = ds[d].owner
        BY <1>t, <3>1
      <4>2. d \in Linked(u) \/ newDS[u] = d
        BY <1>0, <3>1, <4>1
      <4>3. NoDs # d
        BY DEF NoDs, DsId
      <4>4. d \in Linked(u)' \/ newDS'[u] = d
        <5>1. CASE u = t
          BY <2>3, <4>2, <4>3, <5>1
        <5>2. CASE u # t
          BY <2>4, <4>2, <5>2
        <5> QED
          BY <5>1, <5>2
      <4>5. ds'[d].owner = u
        BY <2>7, <4>1
      <4> QED
        BY <4>4, <4>5 DEF Linked
    <3> QED
      BY <2>7, <3>1 DEF Exists
  <2>12. \A d \in DsId : d > created' => ds'[d].finalize = "none"
    BY <1>0, <2>7
  <2> QED
    BY <2>8, <2>9, <2>10, <2>11, <2>12
<1> QED
  BY <1>1, <1>2, <1>3, <1>4, <1>5, <1>6, <1>7, <1>8, OtherStepsSamples

LEMMA OldestStep ==
  ASSUME TypeOK, Calls, Samples, Oldest, NEW t \in Thread, ThreadStep(t)
  PROVE  Oldest'
<1>0. \A u \in Thread : distance_sets_[u] \in Seq(DsId)
  BY DEF TypeOK, SampleTypeOK
<1>1. CASE UNCHANGED <<distance_sets_, oldest_distance_set_>>
  BY <1>1 DEF Oldest
<1>2. CASE UNCHANGED sampleVars \/ JoinQueue(t) \/ NewSampledAddress(t) \/ Prune(t)
  BY <1>1, <1>2 DEF sampleVars, JoinQueue, NewSampledAddress, Prune, listVars
<1>3. CASE Access(t) /\ ~Stays
  BY <1>1, <1>3, AccessStep
<1>4. CASE Stage1(t) /\ ~Stays
  <2>1. FirstStage(t, TodoOf(t))
    BY <1>4, Stage1Step
  <2> QED
    BY <1>1, <2>1 DEF FirstStage
<1>5. CASE Stage2(t) /\ ~Stays
  <2> DEFINE dying == DyingOf(t)
             Kept(u) == Unlink(distance_sets_[u], dying)
  <2>1. SecondStage(t, SyncedOf(t), ServedOf(t))
    BY <1>5, Stage2Step
  <2>2. /\ \A u \in Thread : distance_sets_'[u] = Kept(u)
        /\ oldest_distance_set_' = [u \in Thread |->
             IF oldest_distance_set_[u] \in dying THEN OldestOf(Kept(u))
                                                  ELSE oldest_distance_set_[u]]
    BY <2>1 DEF SecondStage, DyingOf
  <2>3. ASSUME NEW u \in Thread
        PROVE  oldest_distance_set_'[u] = OldestOf(distance_sets_'[u])
    <3> DEFINE list == distance_sets_[u]
    <3>1. list \in Seq(DsId) /\ oldest_distance_set_[u] = OldestOf(list)
      BY <1>0 DEF Oldest
    <3>2. CASE oldest_distance_set_[u] \in dying
      BY <2>2, <3>2
    <3>3. CASE oldest_distance_set_[u] \notin dying /\ list = <<>>
      <4>1. ToSet(Kept(u)) = ToSet(list) \ dying /\ Kept(u) \in Seq(DsId)
        BY <3>1, Unlinked
      <4>2. ToSet(list) = {}
        BY <3>1, <3>3, ListElements
      <4>3. Kept(u) = <<>>
        BY <4>1, <4>2, ListElements
      <4> QED
        BY <2>2, <3>1, <3>3, <4>3 DEF OldestOf
    <3>4. CASE oldest_distance_set_[u] \notin dying /\ list # <<>>
      <4>1. Last(list) \notin dying /\ oldest_distance_set_[u] = Last(list)
        BY <3>1, <3>4 DEF OldestOf
      <4>2. Kept(u) # <<>> /\ Last(Kept(u)) = Last(list)
        BY <3>1, <3>4, <4>1, Unlinked
      <4> QED
        BY <2>2, <3>4, <4>1, <4>2 DEF OldestOf
    <3> QED
      BY <3>2, <3>3, <3>4
  <2> QED
    BY <2>3 DEF Oldest
<1>6. CASE Leave(t)
  <2>1. /\ distance_sets_' = IF action[t] = "kNewSampledAddress"
             THEN [distance_sets_ EXCEPT ![t] = Cons(newDS[t], distance_sets_[t])]
             ELSE distance_sets_
        /\ oldest_distance_set_' =
             IF action[t] = "kNewSampledAddress" /\ distance_sets_[t] = <<>>
             THEN [oldest_distance_set_ EXCEPT ![t] = newDS[t]] ELSE oldest_distance_set_
    BY <1>6 DEF Leave
  <2>2. CASE action[t] = "kNewSampledAddress"
    <3>1. newDS[t] \in DsId
      BY <2>2 DEF Calls, OneCall, TypeOK, SampleTypeOK
    <3>2. /\ Cons(newDS[t], distance_sets_[t]) # <<>>
          /\ Last(Cons(newDS[t], distance_sets_[t])) =
               IF distance_sets_[t] = <<>> THEN newDS[t] ELSE Last(distance_sets_[t])
      BY <1>0, <3>1, ListPrepend
    <3>3. /\ distance_sets_'[t] = Cons(newDS[t], distance_sets_[t])
          /\ \A u \in Thread \ {t} : distance_sets_'[u] = distance_sets_[u]
      BY <2>1, <2>2 DEF TypeOK, SampleTypeOK
    <3>4. /\ oldest_distance_set_'[t] = IF distance_sets_[t] = <<>> THEN newDS[t]
                                                                 ELSE oldest_distance_set_[t]
          /\ \A u \in Thread \ {t} : oldest_distance_set_'[u] = oldest_distance_set_[u]
      BY <2>1, <2>2 DEF TypeOK, SampleTypeOK
    <3>5. oldest_distance_set_'[t] = OldestOf(distance_sets_'[t])
      BY <3>2, <3>3, <3>4 DEF Oldest, OldestOf
    <3>6. \A u \in Thread \ {t} : oldest_distance_set_'[u] = OldestOf(distance_sets_'[u])
      BY <3>3, <3>4 DEF Oldest, OldestOf
    <3> QED
      BY <3>5, <3>6 DEF Oldest
  <2>3. CASE action[t] # "kNewSampledAddress"
    BY <1>1, <2>1, <2>3
  <2> QED
    BY <2>2, <2>3
<1> QED
  BY <1>2, <1>3, <1>4, <1>5, <1>6, OtherStepsSamples

-----------------------------------------------------------------------------
(* The count of active samples                                             *)

LEMMA AnnouncedFinite == IsFiniteSet(Announced) /\ Cardinality(Announced) \in Nat
<1>1. IsFiniteSet(Thread) /\ IsFiniteSet(1 .. MaxPending)
  BY ThreadsFinite, SamplerAssumption, FS_Interval
<1>2. IsFiniteSet(Thread \X (1 .. MaxPending))
  BY <1>1, FS_Product
<1>3. Announced \in SUBSET (Thread \X (1 .. MaxPending))
  BY DEF Announced
<1> QED
  BY <1>2, <1>3, FS_Subset, FS_CardinalityType

\* One more announced trigger.
LEMMA AnnounceOne ==
  ASSUME TypeOK, NEW t \in Thread, is_samplechoice[t] < MaxPending,
         is_samplechoice' = [is_samplechoice EXCEPT ![t] = @ + 1]
  PROVE  Cardinality(Announced') = Cardinality(Announced) + 1
<1> DEFINE one == <<t, is_samplechoice[t] + 1>>
<1>0. is_samplechoice \in [Thread -> 0 .. MaxPending] /\ MaxPending \in Nat
  BY SamplerAssumption DEF TypeOK, ControlTypeOK
<1>1. /\ is_samplechoice'[t] = is_samplechoice[t] + 1
      /\ \A u \in Thread \ {t} : is_samplechoice'[u] = is_samplechoice[u]
  BY <1>0
<1>2. ASSUME NEW u \in Thread, NEW n \in 1 .. MaxPending
      PROVE  n <= is_samplechoice'[u] <=> n <= is_samplechoice[u] \/ <<u, n>> = one
  BY <1>0, <1>1
<1>3. one \in Thread \X (1 .. MaxPending) /\ one \notin Announced
  BY <1>0 DEF Announced
<1> HIDE DEF one
<1>4. Announced' = Announced \cup {one}
  BY <1>2, <1>3 DEF Announced
<1> QED
  BY <1>3, <1>4, AnnouncedFinite, FS_AddElement

\* One announced trigger less.
LEMMA RetractOne ==
  ASSUME TypeOK, NEW t \in Thread, is_samplechoice[t] > 0,
         is_samplechoice' = [is_samplechoice EXCEPT ![t] = @ - 1]
  PROVE  Cardinality(Announced') = Cardinality(Announced) - 1
<1> DEFINE one == <<t, is_samplechoice[t]>>
<1>0. is_samplechoice \in [Thread -> 0 .. MaxPending] /\ MaxPending \in Nat
  BY SamplerAssumption DEF TypeOK, ControlTypeOK
<1>1. /\ is_samplechoice'[t] = is_samplechoice[t] - 1
      /\ \A u \in Thread \ {t} : is_samplechoice'[u] = is_samplechoice[u]
  BY <1>0
<1>2. ASSUME NEW u \in Thread, NEW n \in 1 .. MaxPending
      PROVE  n <= is_samplechoice'[u] <=> n <= is_samplechoice[u] /\ <<u, n>> # one
  BY <1>0, <1>1
<1>3. one \in Announced
  BY <1>0 DEF Announced
<1> HIDE DEF one
<1>4. Announced' = Announced \ {one}
  BY <1>2, <1>3 DEF Announced
<1> QED
  BY <1>3, <1>4, AnnouncedFinite, FS_RemoveElement

LEMMA LinkedFinite ==
  ASSUME TypeOK
  PROVE  IsFiniteSet(AllLinked) /\ Cardinality(AllLinked) \in Nat
<1>1. AllLinked \subseteq DsId
  BY LinkedType, QueueType DEF AllLinked, TypeOK
<1> QED
  BY <1>1, SamplesFinite

LEMMA AccountingStep ==
  ASSUME TypeOK, BornInOrder, Calls, Samples, Oldest, SampleAccounting,
         NEW t \in Thread, ThreadStep(t)
  PROVE  SampleAccounting'
<1>0. ASSUME UNCHANGED <<active_sample_count, is_samplechoice, distance_sets_, thread_count>>
      PROVE  SampleAccounting'
  BY <1>0 DEF SampleAccounting, Announced, AllLinked, Linked, InQueue
<1>t. active_sample_count \in Int /\ IsFiniteSet(AllLinked) /\ Cardinality(AllLinked) \in Nat
  BY LinkedFinite DEF TypeOK, ControlTypeOK
<1>c. Cardinality(Announced) \in Nat
  BY AnnouncedFinite
<1>1. CASE Stays \/ JoinBarrier(t) \/ SetThreadEnable(t) \/ Wake(t) \/ AccessDisabled(t)
  BY <1>0, <1>1 DEF Stays, JoinBarrier, SetThreadEnable, Wake, AccessDisabled,
                    globalVars, listVars, callVars
<1>2. CASE JoinQueue(t)
  <2>1. pc[t] = "joining" /\ thread_count' = thread_count + 1
    BY <1>2 DEF JoinQueue
  <2>2. t = thread_count /\ thread_count \in Nat
    BY <2>1, JoinFits, SamplerAssumption DEF TypeOK, ControlTypeOK
  <2>3. InQueue' = InQueue \cup {t} /\ t \notin InQueue
    BY <2>1, <2>2 DEF InQueue
  <2>4. distance_sets_[t] = <<>> /\ distance_sets_[t] \in Seq(DsId)
    BY <2>3 DEF Samples, TypeOK, SampleTypeOK
  <2>5. Linked(t) = {}
    BY <2>4, ListElements DEF Linked
  <2>6. UNCHANGED <<active_sample_count, is_samplechoice, distance_sets_>>
    BY <1>2 DEF JoinQueue, listVars, callVars
  <2>7. AllLinked' = AllLinked
    <3>1. \A u \in Thread : Linked(u)' = Linked(u)
      BY <2>6 DEF Linked
    <3>2. AllLinked' = UNION {Linked(u) : u \in InQueue'}
      BY <2>6 DEF AllLinked, Linked
    <3> QED
      BY <2>3, <2>5, <3>2 DEF AllLinked
  <2> QED
    BY <2>6, <2>7 DEF SampleAccounting, Announced
<1>3. CASE WaitStart(t) /\ ~Stays
  BY <1>0, <1>3, WaitStartStep DEF globalVars, listVars, callVars
<1>4. CASE Sleep(t) /\ ~Stays
  BY <1>0, <1>4, SleepStep DEF globalVars, listVars, callVars
<1>5. CASE SampleTrigger(t)
  <2>1. /\ is_samplechoice[t] < MaxPending
        /\ is_samplechoice' = [is_samplechoice EXCEPT ![t] = @ + 1]
        /\ active_sample_count' = active_sample_count + 1
        /\ UNCHANGED <<distance_sets_, thread_count>>
    BY <1>5 DEF SampleTrigger, listVars
  <2>2. Cardinality(Announced') = Cardinality(Announced) + 1
    BY <2>1, AnnounceOne
  <2>3. Cardinality(AllLinked') = Cardinality(AllLinked)
    BY <2>1 DEF AllLinked, Linked, InQueue
  <2> QED
    BY <1>t, <1>c, <2>1, <2>2, <2>3 DEF SampleAccounting
<1>6. CASE \E a \in setup.blocks, is_write \in BOOLEAN : SampledMemRef(t, a, is_write)
  BY <1>0, <1>6 DEF SampledMemRef, globalVars, listVars
<1>7. CASE Access(t) /\ ~Stays
  BY <1>0, <1>7, AccessStep
<1>8. CASE AccessChecks(t) /\ ~Stays
  BY <1>0, <1>8, AccessChecksStep DEF globalVars, listVars
<1>9. CASE NotSampled(t) \/ NewSampledAddress(t) \/ Prune(t) \/ MergeAllSamples(t)
  BY <1>0, <1>9 DEF NotSampled, NewSampledAddress, Prune, MergeAllSamples,
                    globalVars, listVars, callVars
<1>10. CASE SampleRefused(t)
  <2>1. /\ is_samplechoice[t] > 0
        /\ is_samplechoice' = [is_samplechoice EXCEPT ![t] = @ - 1]
        /\ active_sample_count' = active_sample_count - 1
        /\ UNCHANGED <<distance_sets_, thread_count>>
    BY <1>10 DEF SampleRefused, listVars
  <2>2. Cardinality(Announced') = Cardinality(Announced) - 1
    BY <2>1, RetractOne
  <2>3. Cardinality(AllLinked') = Cardinality(AllLinked)
    BY <2>1 DEF AllLinked, Linked, InQueue
  <2> QED
    BY <1>t, <1>c, <2>1, <2>2, <2>3 DEF SampleAccounting
<1>11. CASE Stage1(t) /\ ~Stays
  <2>1. FirstStage(t, TodoOf(t))
    BY <1>11, Stage1Step
  <2> QED
    BY <1>0, <2>1 DEF FirstStage, globalVars
<1>12. CASE Stage2(t) /\ ~Stays
  <2> DEFINE dying == DyingOf(t)
  <2>1. /\ SecondStage(t, SyncedOf(t), ServedOf(t))
        /\ plan[t].merge => \A d \in LinkedOf(ServedOf(t)) \ DyingOf(t) : ~Missing(d)
    BY <1>12, Stage2Step
  <2>2. /\ active_sample_count' = active_sample_count - Cardinality(dying)
        /\ UNCHANGED <<is_samplechoice, thread_count>>
    BY <2>1 DEF SecondStage, DyingOf
  <2>3. \A u \in Thread : distance_sets_'[u] = Unlink(distance_sets_[u], dying)
    BY <2>1, SecondStageSamples
  <2>4. dying \subseteq AllLinked /\ Cardinality(dying) \in Nat
    BY DyingType
  <2> HIDE DEF dying
  <2>5. \A u \in Thread : Linked(u)' = Linked(u) \ dying
    <3>1. \A u \in Thread : distance_sets_[u] \in Seq(DsId)
      BY DEF TypeOK, SampleTypeOK
    <3> QED
      BY <2>3, <3>1, Unlinked DEF Linked
  <2>6. AllLinked' = AllLinked \ dying
    <3>1. InQueue \subseteq Thread /\ InQueue' = InQueue
      BY <2>2, QueueType DEF InQueue, TypeOK
    <3>2. AllLinked' = UNION {Linked(u)' : u \in InQueue'}
      BY DEF AllLinked, Linked
    <3> QED
      BY <2>5, <3>1, <3>2 DEF AllLinked
  <2>7. Cardinality(AllLinked') = Cardinality(AllLinked) - Cardinality(dying)
    <3>1. AllLinked \cap dying = dying
      BY <2>4
    <3> QED
      BY <1>t, <2>6, <3>1, FS_Difference
  <2>8. Cardinality(Announced') = Cardinality(Announced)
    BY <2>2 DEF Announced
  <2> QED
    BY <1>t, <1>c, <2>2, <2>4, <2>7, <2>8 DEF SampleAccounting
<1>13. CASE Leave(t)
  <2>1. /\ pc[t] = "leave"
        /\ distance_sets_' = IF action[t] = "kNewSampledAddress"
             THEN [distance_sets_ EXCEPT ![t] = Cons(newDS[t], distance_sets_[t])]
             ELSE distance_sets_
        /\ is_samplechoice' = IF action[t] = "kNewSampledAddress"
             THEN [is_samplechoice EXCEPT ![t] = @ - 1] ELSE is_samplechoice
        /\ UNCHANGED globalVars
    BY <1>13 DEF Leave
  <2>2. UNCHANGED <<active_sample_count, thread_count>>
    BY <2>1 DEF globalVars
  <2>3. CASE action[t] # "kNewSampledAddress"
    BY <1>0, <2>1, <2>2, <2>3
  <2>4. CASE action[t] = "kNewSampledAddress"
    <3>1. newDS[t] \in DsId /\ newDS[t] # NoDs /\ is_samplechoice[t] > 0
      BY <2>4 DEF Calls, OneCall, TypeOK, SampleTypeOK
    <3>2. Cardinality(Announced') = Cardinality(Announced) - 1
      BY <2>1, <2>4, <3>1, RetractOne
    <3>3. t \in InQueue /\ InQueue' = InQueue /\ InQueue \subseteq Thread
      BY <2>1, <2>2, InTheQueue, QueueType DEF TypeOK, InQueue
    <3>4. newDS[t] \notin AllLinked
      <4>1. ASSUME NEW u \in InQueue, newDS[t] \in Linked(u) PROVE FALSE
        <5>1. u \in Thread /\ ds[newDS[t]].owner = t
          BY <3>1, <3>3 DEF Samples
        <5>2. ds[newDS[t]].owner = u /\ newDS[t] # newDS[u]
          BY <4>1, <5>1 DEF Samples
        <5> QED
          BY <5>1, <5>2
      <4> QED
        BY <4>1 DEF AllLinked
    <3>5. /\ distance_sets_'[t] = Cons(newDS[t], distance_sets_[t])
          /\ \A u \in Thread \ {t} : distance_sets_'[u] = distance_sets_[u]
      BY <2>1, <2>4 DEF TypeOK, SampleTypeOK
    <3>6. ToSet(Cons(newDS[t], distance_sets_[t])) = ToSet(distance_sets_[t]) \cup {newDS[t]}
      <4>1. distance_sets_[t] \in Seq(DsId)
        BY DEF TypeOK, SampleTypeOK
      <4> QED
        BY <3>1, <4>1, LinkOne
    <3>7. /\ Linked(t)' = Linked(t) \cup {newDS[t]}
          /\ \A u \in Thread \ {t} : Linked(u)' = Linked(u)
      BY <3>5, <3>6 DEF Linked
    <3>8. AllLinked' = AllLinked \cup {newDS[t]}
      <4>1. AllLinked' = UNION {Linked(u)' : u \in InQueue'}
        BY DEF AllLinked, Linked
      <4> QED
        BY <3>3, <3>7, <4>1 DEF AllLinked
    <3>9. Cardinality(AllLinked') = Cardinality(AllLinked) + 1
      BY <1>t, <3>4, <3>8, FS_AddElement
    <3> QED
      BY <1>t, <1>c, <2>2, <3>2, <3>9 DEF SampleAccounting
  <2> QED
    BY <2>3, <2>4
<1> QED
  BY <1>1, <1>2, <1>3, <1>4, <1>5, <1>6, <1>7, <1>8, <1>9, <1>10, <1>11, <1>12, <1>13
     DEF ThreadStep

-----------------------------------------------------------------------------
(* The theorems                                                            *)

LEMMA InitHolds == Init => IInv
<1> SUFFICES ASSUME Init PROVE IInv
  OBVIOUS
<1>0. /\ ThreadCount \in Nat /\ MaxSamples \in Nat /\ MaxPending \in Nat
      /\ setup.founders \in 0 .. ThreadCount
  BY SamplerAssumption, SetupType DEF Init
<1>1. ControlTypeOK
  <2>1. pc \in [Thread -> Control]
    BY DEF Init, Control
  <2>2. 0 .. setup.founders - 1 \subseteq Thread
    BY <1>0 DEF Thread
  <2>3. new_thread_ \in [Thread -> BOOLEAN] /\ enabled_ \in [Thread -> BOOLEAN]
    BY DEF Init
  <2>4. action \in [Thread -> Action]
    BY DEF Init, Action
  <2>5. is_samplechoice \in [Thread -> 0 .. MaxPending]
    BY <1>0 DEF Init
  <2>6. /\ stage_ = 0 /\ threads_ = 0 /\ awake = 0 .. setup.founders - 1
        /\ total_threads_ = setup.founders /\ thread_count = setup.founders
        /\ synchronize = FALSE /\ finalize_needed = FALSE /\ merge_needed = FALSE
        /\ active_sample_count = 0 /\ setup \in Setups
    BY DEF Init
  <2>7. ref \in [Thread -> (Address \X BOOLEAN) \cup {<<>>}]
    BY DEF Init
  <2>8. plan \in [Thread -> Todo \cup {<<>>}]
    BY DEF Init
  <2>9. ll1 \in [Thread -> Int]
    BY DEF Init
  <2>10. /\ setup \in Setups
         /\ stage_ \in 0 .. 2 /\ threads_ \in Int /\ awake \subseteq Thread
         /\ total_threads_ \in Nat /\ thread_count \in 0 .. ThreadCount
         /\ active_sample_count \in Int
    BY <1>0, <2>2, <2>6
  <2> QED
    BY <2>1, <2>3, <2>4, <2>5, <2>6, <2>7, <2>8, <2>9, <2>10, Zenon DEF ControlTypeOK
<1>2. SampleTypeOK
  <2>1. [finalize |-> "none"] \in NoDistanceSet
    BY DEF NoDistanceSet
  <2>2. <<>> \in Seq(DsId) /\ <<>> \in Seq(SUBSET Address)
    OBVIOUS
  <2> QED
    BY <1>0, <2>1, <2>2 DEF Init, SampleTypeOK
<1>3. BornInOrder
  <2>1. \A t \in Thread : pc[t] = IF t < setup.founders THEN "app" ELSE "unborn"
    BY DEF Init
  <2>2. thread_count = setup.founders
    BY DEF Init
  <2>3. \A t \in Thread : t \in Nat
    BY DEF Thread
  <2> QED
    BY <1>0, <2>1, <2>2, <2>3 DEF BornInOrder
<1>4. Calls
  <2>1. \A t \in Thread : /\ pc[t] \in {"app", "unborn"} /\ action[t] = "kNoAction"
                          /\ newDS[t] = NoDs
    BY DEF Init
  <2> QED
    BY <2>1 DEF Calls, OneCall, InRound
<1>5. \A t \in Thread : distance_sets_[t] = <<>> /\ Linked(t) = {}
  BY DEF Init, Linked, ToSet
<1>6. Samples
  BY <1>5 DEF Init, Samples, Exists, FinalizeStatus
<1>7. Oldest
  BY DEF Init, Oldest, OldestOf
<1>8. SampleAccounting
  <2>1. AllLinked = {}
    BY <1>1, <1>5, QueueType DEF AllLinked
  <2>2. Announced = {}
    BY DEF Init, Announced
  <2>3. active_sample_count = 0
    BY DEF Init
  <2> QED
    BY <2>1, <2>2, <2>3, FS_EmptySet DEF SampleAccounting
<1> QED
  BY <1>1, <1>2, <1>3, <1>4, <1>6, <1>7, <1>8 DEF IInv, TypeOK

LEMMA ReportKeeps == ASSUME IInv, DumpStatsPython, UNCHANGED setup PROVE IInv'
<1>1. UNCHANGED <<setup, barrierVars, globalVars, listVars, setVars, prune_count_, callVars,
                  enabled_, pc>>
  BY DEF DumpStatsPython
<1>2. cold_samples' \in [Thread -> Nat]
  <2>1. \A t \in Thread : cold_samples[t] \in Nat /\ Len(distance_sets_[t]) \in Nat
    BY DEF IInv, TypeOK, SampleTypeOK
  <2> QED
    BY <2>1 DEF DumpStatsPython
<1> USE DEF barrierVars, globalVars, listVars, setVars, callVars, IInv
<1>3. ControlTypeOK'
  BY <1>1 DEF TypeOK, ControlTypeOK
<1>4. SampleTypeOK'
  BY <1>1, <1>2 DEF TypeOK, SampleTypeOK
<1>5. BornInOrder' /\ Calls'
  BY <1>1 DEF BornInOrder, Calls, OneCall
<1>6. Samples' /\ Oldest'
  BY <1>1 DEF Samples, Oldest, Exists, Linked, InQueue
<1>7. SampleAccounting'
  BY <1>1 DEF SampleAccounting, Announced, AllLinked, Linked, InQueue
<1> QED
  BY <1>3, <1>4, <1>5, <1>6, <1>7 DEF TypeOK

LEMMA StutterKeeps == ASSUME IInv, UNCHANGED vars PROVE IInv'
<1> USE DEF vars, barrierVars, globalVars, listVars, setVars, statVars, callVars, IInv
<1>1. TypeOK'
  BY DEF TypeOK, ControlTypeOK, SampleTypeOK
<1>2. BornInOrder' /\ Calls'
  BY DEF BornInOrder, Calls, OneCall
<1>3. Samples' /\ Oldest'
  BY DEF Samples, Oldest, Exists, Linked, InQueue
<1>4. SampleAccounting'
  BY DEF SampleAccounting, Announced, AllLinked, Linked, InQueue
<1> QED
  BY <1>1, <1>2, <1>3, <1>4

LEMMA StepKeeps == IInv /\ [Next]_vars => IInv'
<1> SUFFICES ASSUME IInv, [Next]_vars PROVE IInv'
  OBVIOUS
<1>1. CASE UNCHANGED vars
  BY <1>1, StutterKeeps
<1>2. CASE DumpStatsPython /\ UNCHANGED setup
  BY <1>2, ReportKeeps
<1>3. ASSUME NEW t \in Thread, ThreadStep(t), UNCHANGED setup
      PROVE  IInv'
  <2>1. ControlTypeOK'
    BY <1>3, ControlTypes DEF IInv
  <2>2. SampleTypeOK'
    BY <1>3, SampleTypes DEF IInv
  <2>3. BornInOrder'
    BY <1>3, BornStep DEF IInv, TypeOK
  <2>4. Calls'
    BY <1>3, CallsStep DEF IInv
  <2>5. Samples'
    BY <1>3, SamplesStep DEF IInv
  <2>6. Oldest'
    BY <1>3, OldestStep DEF IInv
  <2>7. SampleAccounting'
    BY <1>3, AccountingStep DEF IInv
  <2> QED
    BY <2>1, <2>2, <2>3, <2>4, <2>5, <2>6, <2>7 DEF IInv, TypeOK
<1> QED
  BY <1>1, <1>2, <1>3 DEF Next, Running

\* The inductive invariant holds in every state: the variables keep their types, a
\* distance set exists exactly as long as its owner has linked it or carries it to be
\* linked, and the reason for a round stays what it was until the round is left.
THEOREM Invariance == Spec => []IInv
  BY InitHolds, StepKeeps, PTL DEF Spec

\* CheckOldestSample looks at the last sample of the list, whoever unlinked samples from
\* it, and also while threads join.
THEOREM OldestIsAlwaysLast == Spec => []OldestIsLast
<1>1. IInv => OldestIsLast
  BY QueueType DEF IInv, TypeOK, Oldest, OldestOf, OldestIsLast
<1> QED
  BY <1>1, Invariance, PTL

\* The count that decides if references are instrumented at all is exact: it is the
\* number of triggers that wait to become a sample plus that of the samples linked,
\* for any number of threads, with threads that join, sleep, refuse or prune samples.
THEOREM SamplesAreAccounted == Spec => []SampleAccounting
<1>1. IInv => SampleAccounting
  BY DEF IInv
<1> QED
  BY <1>1, Invariance, PTL
=============================================================================
