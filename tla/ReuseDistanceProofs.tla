------------------------ MODULE ReuseDistanceProofs ------------------------
(***************************************************************************)
(* Theorems about the tools of ReuseDistance, for any programs, threads,   *)
(* sizes and prefetchers: their arbiters keep their promises, their        *)
(* statistics add up, and what StackHolderProofs shows of the stacks holds *)
(* of them under the tools.                                                *)
(***************************************************************************)
EXTENDS ReuseDistance, StackHolderProofs

-----------------------------------------------------------------------------
(* Lists without some of their members                                     *)

\* The members of r are those of the list that are not erased, each once.
IsRest(r, list, erased, m) ==
  /\ m \in [DOMAIN r -> DOMAIN list]
  /\ \A i \in DOMAIN r : r[i] = list[m[i]] /\ r[i] \notin erased
  /\ \A i, j \in DOMAIN r : m[i] = m[j] => i = j
  /\ \A j \in DOMAIN list : list[j] \notin erased => \E i \in DOMAIN r : m[i] = j

LEMMA WithoutEffect ==
  ASSUME NEW X, NEW list \in Seq(X), NEW erased
  PROVE  /\ Without(list, erased) \in Seq(X)
         /\ \E m : IsRest(Without(list, erased), list, erased, m)
<1> DEFINE T == DOMAIN list
           R == Seq(X)
           next(kept, r) == IF r \in erased THEN kept ELSE Append(kept, r)
           Body(f) == [u \in SUBSET T |->
                         IF u = {} THEN <<>> ELSE next(f[u \ {Max(u)}], list[Max(u)])]
           iter == CHOOSE f : f = Body(f)
<1>2. IsFiniteSet(T) /\ \A u \in SUBSET T : u # {} => Max(u) \in u
  <2>1. Len(list) \in Nat /\ T = 1 .. Len(list)
    OBVIOUS
  <2> QED
    BY <2>1, PickMax
<1>3. \A i \in T : list[i] \in X
  OBVIOUS
<1>4. Without(list, erased) = iter[T]
  BY DEF Without, FoldLeft, MapThenFoldSet
<1> HIDE DEF T
<1>0. \A x \in T, r \in R : next(r, list[x]) \in R
  BY <1>3
<1>5. iter = Body(iter)
  <2> HIDE DEF R, next
  <2> DEFINE step == [x \in T \X R |-> next(x[2], list[x[1]])]
             pick == [u \in SUBSET T |-> Max(u)]
  <2>1. \A x \in T, r \in R : step[<<x, r>>] = next(r, list[x])
    OBVIOUS
  <2>2. \A x \in T, r \in R : step[<<x, r>>] \in R
    BY <1>0, <2>1
  <2>3. \A u \in SUBSET T : pick[u] = Max(u)
    OBVIOUS
  <2>4. \A u \in SUBSET T : u # {} => pick[u] \in u
    BY <1>2, <2>3
  <2> HIDE DEF step, pick
  <2>5. PICK f : IsFold(f, T, R, <<>>, step, pick)
    <3>1. IsFiniteSet(T)
      BY <1>2
    <3>2. <<>> \in R
      BY DEF R
    <3> QED
      BY <2>2, <2>4, <3>1, <3>2, FoldExists
  <2>6. ASSUME NEW u \in SUBSET T
        PROVE  f[u] = IF u = {} THEN <<>> ELSE next(f[u \ {Max(u)}], list[Max(u)])
    <3>1. CASE u = {}
      BY <2>5, <3>1 DEF IsFold
    <3>2. CASE u # {}
      <4>1. Max(u) \in T /\ u \ {Max(u)} \in SUBSET T
        BY <1>2, <3>2
      <4>2. f[u \ {Max(u)}] \in R
        BY <2>5, <4>1 DEF IsFold
      <4>3. f[u] = step[<<Max(u), f[u \ {Max(u)}]>>]
        BY <2>3, <2>5, <3>2 DEF IsFold
      <4> QED
        BY <2>1, <3>2, <4>1, <4>2, <4>3
    <3> QED
      BY <3>1, <3>2
  <2>7. f = Body(f)
    <3>1. f \in [SUBSET T -> R]
      BY <2>5 DEF IsFold
    <3> QED
      BY <2>6, <3>1
  <2> HIDE DEF Body
  <2> QED
    BY <2>7
<1> HIDE DEF iter
<1>6. \A u \in SUBSET T :
        iter[u] = IF u = {} THEN <<>> ELSE next(iter[u \ {Max(u)}], list[Max(u)])
  <2> HIDE DEF next
  <2> QED
    BY <1>5
<1> DEFINE Rest(r, u, m) ==
             /\ m \in [DOMAIN r -> u]
             /\ \A i \in DOMAIN r : r[i] = list[m[i]] /\ r[i] \notin erased
             /\ \A i, j \in DOMAIN r : m[i] = m[j] => i = j
             /\ \A j \in u : list[j] \notin erased => \E i \in DOMAIN r : m[i] = j
           Good == {u \in SUBSET T : iter[u] \in Seq(X) /\ \E m : Rest(iter[u], u, m)}
<1>7. {} \in Good
  <2>1. iter[{}] = <<>>
    BY <1>6
  <2>2. Rest(<<>>, {}, <<>>)
    OBVIOUS
  <2>3. <<>> \in Seq(X)
    OBVIOUS
  <2> HIDE DEF Rest
  <2> QED
    BY <2>1, <2>2, <2>3
<1>8. ASSUME NEW u \in SUBSET T, u # {}, u \ {Max(u)} \in Good PROVE u \in Good
  <2> DEFINE x == Max(u)
             r == iter[u \ {x}]
  <2>1. x \in u /\ x \in T /\ list[x] \in X
    BY <1>2, <1>3, <1>8
  <2> HIDE DEF x
  <2>2. r \in Seq(X) /\ \E m : Rest(r, u \ {x}, m)
    BY <1>8 DEF x
  <2>3. PICK m : Rest(r, u \ {x}, m)
    BY <2>2
  <2>4. iter[u] = next(r, list[x])
    BY <1>6, <1>8 DEF x
  <2> HIDE DEF r
  <2>5. CASE list[x] \in erased
    <3>1. Rest(r, u, m)
      BY <2>1, <2>3, <2>5
    <3>2. iter[u] = r
      BY <2>4, <2>5
    <3> HIDE DEF Rest
    <3> QED
      BY <2>2, <3>1, <3>2
  <2>6. CASE list[x] \notin erased
    <3> DEFINE q == Append(r, list[x])
               n == Len(r) + 1
               k == [i \in 1 .. n |-> IF i = n THEN x ELSE m[i]]
    <3>1. /\ q \in Seq(X) /\ Len(r) \in Nat /\ DOMAIN q = 1 .. n /\ DOMAIN r = 1 .. Len(r)
          /\ q[n] = list[x] /\ \A i \in DOMAIN r : q[i] = r[i]
      BY <2>1, <2>2
    <3>2. n \in DOMAIN q /\ DOMAIN q = DOMAIN r \cup {n} /\ n \notin DOMAIN r
      BY <3>1
    <3>3. k[n] = x /\ (\A i \in DOMAIN r : k[i] = m[i]) /\ k = [i \in DOMAIN q |-> k[i]]
      BY <3>1, <3>2
    <3> HIDE DEF q, k, n
    <3>4. k \in [DOMAIN q -> u]
      BY <2>1, <2>3, <3>2, <3>3
    <3>5. \A i \in DOMAIN q : q[i] = list[k[i]] /\ q[i] \notin erased
      BY <2>3, <2>6, <3>1, <3>2, <3>3
    <3>6. \A i, j \in DOMAIN q : k[i] = k[j] => i = j
      BY <2>3, <3>2, <3>3
    <3>7. \A j \in u : list[j] \notin erased => \E i \in DOMAIN q : k[i] = j
      BY <2>3, <3>2, <3>3
    <3>8. Rest(q, u, k)
      BY <3>4, <3>5, <3>6, <3>7
    <3>9. iter[u] = q
      BY <2>4, <2>6 DEF q
    <3> HIDE DEF Rest
    <3> QED
      BY <3>1, <3>8, <3>9
  <2> QED
    BY <2>5, <2>6
<1>9. T \in Good
  <2> HIDE DEF Good
  <2>1. \A s \in SUBSET T : s # {} => \E x \in s : s \ {x} \in Good => s \in Good
    BY <1>2, <1>8
  <2> QED
    BY <1>2, <1>7, <2>1, Members
<1> QED
  BY <1>4, <1>9 DEF IsRest, T

-----------------------------------------------------------------------------
(* The prefetchers                                                         *)

StrideEntry == [missAddr : Int, stride : Int, confidence : Int]
StrideTables == UNION {[D -> StrideEntry] : D \in SUBSET Int}
Stream == [last_miss : Int, stride : Int, last_stride : Int, confidence : Nat]

DCUPrefetcher == [kind : {"dcu"}, recent_accesses_ : Seq(Int), asks : Int]
StridePrefetcher ==
  [kind : {"stride"}, prefetch_record_ : SUBSET Int, stride_table_ : StrideTables, asks : Int]
StreamPrefetcher ==
  [kind : {"stream"}, prefetch_record_ : SUBSET Int, streams_ : Seq(Stream), asks : Int]

Prefetcher == DCUPrefetcher \cup StridePrefetcher \cup StreamPrefetcher

LEMMA LeastOfTwo ==
  \A a, b \in Int : /\ Min({a, b}) \in {a, b} /\ Min({a}) = a
                    /\ Max({a, b}) \in {a, b} /\ Max({a, b}) >= b
<1> SUFFICES ASSUME NEW a \in Int, NEW b \in Int
             PROVE  /\ Min({a, b}) \in {a, b} /\ Min({a}) = a
                    /\ Max({a, b}) \in {a, b} /\ Max({a, b}) >= b
  OBVIOUS
<1>1. \E x \in {a, b} : \A y \in {a, b} : x <= y
  OBVIOUS
<1>2. \E x \in {a, b} : \A y \in {a, b} : x >= y
  OBVIOUS
<1>3. Min({a}) = a
  BY DEF Min
<1> QED
  BY <1>1, <1>2, <1>3 DEF Min, Max

LEMMA LeastIsMember ==
  ASSUME NEW T, T \subseteq Nat, T # {}
  PROVE  Min(T) \in T
<1>1. \E x \in T : \A y \in T : x <= y
  BY LeastOf
<1> QED
  BY <1>1 DEF Min

LEMMA NewPrefetchers == {NewDCU, NewStride, NewStream} \subseteq Prefetcher
<1>1. NewDCU \in DCUPrefetcher
  BY DEF NewDCU, DCUPrefetcher, kAddressMax
<1>2. <<>> \in StrideTables
  <2>1. <<>> \in [{} -> StrideEntry]
    OBVIOUS
  <2> QED
    BY <2>1 DEF StrideTables
<1>3. NewStride \in StridePrefetcher
  BY <1>2 DEF NewStride, StridePrefetcher, kAddressMax
<1>4. NewStream \in StreamPrefetcher
  BY DEF NewStream, StreamPrefetcher, kAddressMax
<1> QED
  BY <1>1, <1>3, <1>4 DEF Prefetcher

LEMMA DCUKeepsType ==
  ASSUME NEW p \in DCUPrefetcher, NEW addr \in Int
  PROVE  DCUAccess(p, addr) \in DCUPrefetcher
<1>1. /\ p.recent_accesses_ \in Seq(Int)
      /\ p = [kind |-> "dcu", recent_accesses_ |-> p.recent_accesses_, asks |-> p.asks]
  BY DEF DCUPrefetcher
<1> DEFINE kept == IF Len(p.recent_accesses_) < kRequestProximity THEN p.recent_accesses_
                   ELSE Tail(p.recent_accesses_)
           next == Append(kept, addr)
           asks == IF addr \in ToSet(p.recent_accesses_) THEN addr + 1 ELSE kAddressMax
<1>2. next \in Seq(Int)
  <2>1. CASE Len(p.recent_accesses_) < kRequestProximity
    BY <1>1, <2>1
  <2>2. CASE ~(Len(p.recent_accesses_) < kRequestProximity)
    <3>1. p.recent_accesses_ # <<>>
      BY <2>2, PrefetcherAssumption
    <3> QED
      BY <1>1, <2>2, <3>1
  <2> QED
    BY <2>1, <2>2
<1>3. asks \in Int
  BY DEF kAddressMax
<1>4. DCUAccess(p, addr) = [p EXCEPT !.recent_accesses_ = next, !.asks = asks]
  BY DEF DCUAccess
<1> HIDE DEF next, asks
<1> QED
  BY <1>2, <1>3, <1>4 DEF DCUPrefetcher

LEMMA StrideKeepsType ==
  ASSUME NEW p \in StridePrefetcher, NEW addr \in Int, NEW PC \in Int, NEW dist
  PROVE  StrideAccess(p, addr, PC, dist) \in StridePrefetcher
<1> DEFINE table == p.stride_table_
<1>1. p.prefetch_record_ \in SUBSET Int /\ table \in StrideTables /\ p.asks \in Int
  BY DEF StridePrefetcher
<1>2. PICK D \in SUBSET Int : table \in [D -> StrideEntry]
  BY <1>1 DEF StrideTables
<1> HIDE DEF table
<1>0. /\ \A E \in SUBSET Int : \A f : f \in [E -> StrideEntry] => f \in StrideTables
      /\ D = DOMAIN table
  BY <1>2 DEF StrideTables
<1>4. StrideMiss(table, addr, PC) \in StrideTables
  <2> DEFINE kept == IF Cardinality(DOMAIN table) < kStrideTableSize THEN table
                     ELSE Restrict(table, DOMAIN table \ {StrideVictim(table)})
             new == [missAddr |-> addr, stride |-> 0, confidence |-> 0]
  <2>1. new \in StrideEntry
    BY DEF StrideEntry
  <2>2. kept \in [DOMAIN kept -> StrideEntry] /\ DOMAIN kept \subseteq D
    BY <1>2 DEF Restrict
  <2>3. StrideMiss(table, addr, PC)
          = [pc_ \in DOMAIN kept \cup {PC} |-> IF pc_ = PC THEN new ELSE kept[pc_]]
    BY DEF StrideMiss
  <2> HIDE DEF kept, new
  <2>4. StrideMiss(table, addr, PC) \in [DOMAIN kept \cup {PC} -> StrideEntry]
    BY <2>1, <2>2, <2>3
  <2>5. DOMAIN kept \cup {PC} \in SUBSET Int
    BY <2>2
  <2> QED
    BY <1>0, <2>4, <2>5
<1>5. ASSUME NEW e \in StrideEntry PROVE StrideHit(e, addr) \in StrideEntry
  <2>1. e.confidence \in Int /\ e.missAddr \in Int /\ e.stride \in Int
    BY DEF StrideEntry
  <2>2. e.confidence + 1 \in Int /\ Max_Conf \in Int /\ addr - e.missAddr \in Int
    BY <2>1 DEF Max_Conf
  <2>3. Min({e.confidence + 1, Max_Conf}) \in Int
    BY <2>2, LeastOfTwo
  <2> QED
    BY <2>2, <2>3 DEF StrideHit, StrideEntry
<1>6. CASE ~is_miss(dist) /\ addr \notin p.prefetch_record_
  <2>1. StrideAccess(p, addr, PC, dist) = [p EXCEPT !.asks = kAddressMax]
    BY <1>6 DEF StrideAccess
  <2> QED
    BY <2>1 DEF StridePrefetcher, kAddressMax
<1>7. CASE ~(~is_miss(dist) /\ addr \notin p.prefetch_record_) /\ PC \notin D
  <2> DEFINE record == p.prefetch_record_ \ {addr}
  <2>3. StrideAccess(p, addr, PC, dist) =
          [p EXCEPT !.stride_table_ = StrideMiss(table, addr, PC), !.asks = kAddressMax,
                    !.prefetch_record_ = record]
    BY <1>0, <1>7 DEF StrideAccess, table
  <2>2. p.prefetch_record_ \ {addr} \in SUBSET Int /\ kAddressMax \in Int
    BY <1>1 DEF kAddressMax
  <2> QED
    <3> DEFINE t == StrideMiss(table, addr, PC)
    <3>1. t \in StrideTables
      BY <1>4
    <3> HIDE DEF t, record
    <3>2. StrideAccess(p, addr, PC, dist) =
            [p EXCEPT !.stride_table_ = t, !.asks = kAddressMax, !.prefetch_record_ = record]
      BY <2>3 DEF t
    <3>3. record \in SUBSET Int /\ kAddressMax \in Int
      BY <2>2 DEF record
    <3> QED
      BY <3>1, <3>2, <3>3 DEF StridePrefetcher
<1>8. CASE ~(~is_miss(dist) /\ addr \notin p.prefetch_record_) /\ PC \in D
  <2> DEFINE entry == StrideHit(table[PC], addr)
             asked == IF entry.confidence <= 0 THEN {} ELSE {addr + entry.stride}
             asks == IF asked = {} THEN kAddressMax ELSE Min(asked)
             record == (p.prefetch_record_ \ {addr}) \cup asked
  <2>1. entry \in StrideEntry
    BY <1>2, <1>5, <1>8
  <2>2. StrideAccess(p, addr, PC, dist) =
          [p EXCEPT !.stride_table_[PC] = entry, !.prefetch_record_ = record, !.asks = asks]
    BY <1>0, <1>8 DEF StrideAccess, table
  <2> HIDE DEF entry
  <2>3. entry.confidence \in Int /\ addr + entry.stride \in Int
    BY <2>1 DEF StrideEntry
  <2>4. asked \in SUBSET Int
    BY <2>3
  <2>5. asks \in Int
    <3>1. CASE asked = {}
      BY <3>1 DEF kAddressMax
    <3>2. CASE asked # {}
      <4>1. asked = {addr + entry.stride} /\ Min({addr + entry.stride}) = addr + entry.stride
        BY <2>3, <3>2, LeastOfTwo
      <4> QED
        BY <2>3, <4>1
    <3> QED
      BY <3>1, <3>2
  <2>6. record \in SUBSET Int
    BY <1>1, <2>4
  <2> HIDE DEF asked, asks, record
  <2>7. [table EXCEPT ![PC] = entry] \in [D -> StrideEntry]
    BY <1>2, <1>8, <2>1
  <2>8. [table EXCEPT ![PC] = entry] \in StrideTables
    BY <1>0, <2>7
  <2>9. StrideAccess(p, addr, PC, dist) =
          [p EXCEPT !.stride_table_ = [table EXCEPT ![PC] = entry], !.asks = asks,
                    !.prefetch_record_ = record]
    BY <2>2 DEF table, StridePrefetcher
  <2> QED
    <3> DEFINE t == [table EXCEPT ![PC] = entry]
    <3>1. t \in StrideTables
      BY <2>8
    <3> HIDE DEF t
    <3>2. StrideAccess(p, addr, PC, dist) =
            [p EXCEPT !.stride_table_ = t, !.asks = asks, !.prefetch_record_ = record]
      BY <2>9 DEF t
    <3> QED
      BY <2>5, <2>6, <3>1, <3>2 DEF StridePrefetcher
<1> QED
  BY <1>6, <1>7, <1>8

LEMMA MatchedEffect ==
  ASSUME NEW s \in Stream, NEW addr \in Int
  PROVE  Matched(s, addr).stream \in Stream /\ Matched(s, addr).asks \in Int
<1> DEFINE confidence == Min({s.confidence + 1, kMaxConfidence})
           sure == confidence >= kPrefetchConfidenceThreshold
           strides == IF Follows(s, addr) THEN s
                      ELSE [s EXCEPT !.last_stride = s.stride, !.stride = addr - s.last_miss]
           stream == [strides EXCEPT !.confidence = confidence,
                                     !.last_miss = IF sure THEN addr ELSE @]
<1>1. s.stride \in Int /\ s.last_miss \in Int /\ s.confidence \in Nat
  BY DEF Stream
<1>2. confidence \in Nat
  <2>1. s.confidence + 1 \in Nat /\ kMaxConfidence \in Nat
    BY <1>1 DEF kMaxConfidence
  <2> QED
    <3>1. Min({s.confidence + 1, kMaxConfidence}) \in {s.confidence + 1, kMaxConfidence}
      <4>1. s.confidence + 1 \in Int /\ kMaxConfidence \in Int
        BY <2>1
      <4> QED
        BY <4>1, LeastOfTwo, Zenon
    <3> QED
      BY <2>1, <3>1
<1> HIDE DEF confidence
<1>3. strides \in Stream
  <2>1. addr - s.last_miss \in Int
    BY <1>1
  <2> QED
    BY <1>1, <2>1 DEF Stream
<1> HIDE DEF strides, sure
<1>4. stream \in Stream
  BY <1>2, <1>3 DEF Stream
<1>5. (IF sure THEN addr + s.stride ELSE kAddressMax) \in Int
  BY <1>1 DEF kAddressMax
<1>6. Matched(s, addr) = [ stream |-> stream, done |-> TRUE,
                           asks |-> IF sure THEN addr + s.stride ELSE kAddressMax ]
  BY DEF Matched, stream, strides, sure, confidence
<1> HIDE DEF stream
<1> QED
  BY <1>4, <1>5, <1>6

LEMMA NearedEffect ==
  ASSUME NEW s \in Stream, NEW addr \in Int
  PROVE  /\ Neared(s, addr).stream \in Stream /\ Neared(s, addr).asks \in Int
         /\ Neared(s, addr).done \in BOOLEAN
<1> DEFINE moved == [s EXCEPT !.stride = addr - s.last_miss, !.last_miss = addr]
           confidence == Max({s.confidence - 1, 0})
           sure == confidence > kPrefetchConfidenceThreshold
           more == [moved EXCEPT !.confidence = @ + 1]
           shifted == [moved EXCEPT !.last_stride = s.stride]
           less == [s EXCEPT !.confidence = confidence, !.last_miss = IF sure THEN addr ELSE @]
<1>1. s.stride \in Int /\ s.last_miss \in Int /\ s.confidence \in Nat
  BY DEF Stream
<1>2. confidence \in Nat
  <2>1. s.confidence - 1 \in Int /\ 0 \in Int
    BY <1>1
  <2>2. confidence \in {s.confidence - 1, 0} /\ confidence >= 0
    BY <2>1, LeastOfTwo, Zenon
  <2> QED
    BY <2>1, <2>2
<1> HIDE DEF confidence
<1>3. moved \in Stream
  <2>1. addr - s.last_miss \in Int
    BY <1>1
  <2> QED
    BY <1>1, <2>1 DEF Stream
<1> HIDE DEF moved
<1>4. more \in Stream
  <2>1. moved.confidence + 1 \in Nat
    BY <1>3 DEF Stream
  <2> QED
    BY <1>3, <2>1 DEF Stream
<1>5. shifted \in Stream
  BY <1>1, <1>3 DEF Stream
<1> HIDE DEF sure
<1>6. less \in Stream
  BY <1>1, <1>2 DEF Stream
<1>7. kAddressMax \in Int /\ addr + s.stride \in Int /\ sure \in BOOLEAN
  BY <1>1 DEF kAddressMax, sure
<1>8. Neared(s, addr) =
        IF s.stride = 0 THEN [stream |-> more, asks |-> kAddressMax, done |-> TRUE]
        ELSE IF s.last_stride = 0 THEN [stream |-> shifted, asks |-> kAddressMax, done |-> TRUE]
        ELSE [ stream |-> less, asks |-> IF sure THEN addr + s.stride ELSE kAddressMax,
               done |-> sure ]
  BY DEF Neared, moved, more, shifted, less, sure, confidence
<1> HIDE DEF more, shifted, less
<1>9. CASE s.stride = 0
  BY <1>4, <1>7, <1>8, <1>9
<1>10. CASE s.stride # 0 /\ s.last_stride = 0
  BY <1>5, <1>7, <1>8, <1>10
<1>11. CASE s.stride # 0 /\ s.last_stride # 0
  <2>1. Neared(s, addr) =
          [ stream |-> less, asks |-> IF sure THEN addr + s.stride ELSE kAddressMax, done |-> sure ]
    BY <1>8, <1>11
  <2>2. Neared(s, addr).done \in BOOLEAN
    BY <1>7, <2>1
  <2>3. Neared(s, addr).stream = less
    BY <2>1
  <2>4. Neared(s, addr).asks = IF sure THEN addr + s.stride ELSE kAddressMax
    BY <2>1
  <2> QED
    BY <1>6, <1>7, <2>2, <2>3, <2>4
<1> QED
  BY <1>9, <1>10, <1>11

NearResult == [streams : Seq(Stream), asks : Int, done : BOOLEAN]

LEMMA NearStreamEffect ==
  ASSUME NEW streams \in Seq(Stream), NEW addr \in Int, NEW acc \in NearResult,
         NEW i \in DOMAIN streams
  PROVE  NearStream(streams, addr, acc, i) \in NearResult
<1> DEFINE n == Neared(streams[i], addr)
           next == [streams |-> [acc.streams EXCEPT ![i] = n.stream], asks |-> n.asks, done |-> n.done]
<1>1. streams[i] \in Stream /\ acc.streams \in Seq(Stream)
  BY DEF NearResult
<1>2. n.stream \in Stream /\ n.asks \in Int /\ n.done \in BOOLEAN
  BY <1>1, NearedEffect
<1>3. NearStream(streams, addr, acc, i) = IF acc.done \/ ~IsNear(streams[i], addr) THEN acc ELSE next
  BY DEF NearStream
<1> HIDE DEF n
<1>4. [acc.streams EXCEPT ![i] = n.stream] \in Seq(Stream)
  <2>1. Len(acc.streams) \in Nat /\ acc.streams \in [1 .. Len(acc.streams) -> Stream]
    BY <1>1
  <2>2. [acc.streams EXCEPT ![i] = n.stream] \in [1 .. Len(acc.streams) -> Stream]
    BY <1>2, <2>1
  <2> QED
    BY <2>1, <2>2
<1>5. next \in NearResult
  <2> DEFINE q == [acc.streams EXCEPT ![i] = n.stream]
  <2> HIDE DEF q
  <2>1. q \in Seq(Stream)
    BY <1>4 DEF q
  <2>2. [streams |-> q, asks |-> n.asks, done |-> n.done] \in NearResult
    BY <1>2, <2>1, Zenon DEF NearResult
  <2> QED
    BY <2>2 DEF q
<1> HIDE DEF next
<1> QED
  BY <1>3, <1>5

LEMMA NearStreamsEffect ==
  ASSUME NEW streams \in Seq(Stream), NEW addr \in Int
  PROVE  NearStreams(streams, addr) \in NearResult
<1> DEFINE list == [i \in DOMAIN streams |-> i]
           T == DOMAIN list
           R == NearResult
           base == [streams |-> streams, asks |-> kAddressMax, done |-> FALSE]
           next(r, x) == NearStream(streams, addr, r, x)
           Body(f) == [u \in SUBSET T |->
                         IF u = {} THEN base ELSE next(f[u \ {Max(u)}], list[Max(u)])]
           iter == CHOOSE f : f = Body(f)
<1>1. IsFiniteSet(T) /\ \A u \in SUBSET T : u # {} => Max(u) \in u
  <2>1. list \in Seq(DOMAIN streams)
    OBVIOUS
  <2> HIDE DEF list
  <2>2. Len(list) \in Nat /\ T = 1 .. Len(list)
    BY <2>1
  <2> QED
    BY <2>2, PickMax
<1>2. \A i \in T : list[i] \in DOMAIN streams
  OBVIOUS
<1>3. NearStreams(streams, addr) = iter[T]
  BY DEF NearStreams, FoldLeft, MapThenFoldSet
<1> HIDE DEF T, list
<1>4. base \in R
  BY DEF NearResult, kAddressMax
<1>5. \A i \in T, r \in R : next(r, list[i]) \in R
  BY <1>2, NearStreamEffect
<1>6. iter = Body(iter)
  <2> HIDE DEF R, next, base
  <2> DEFINE step == [x \in T \X R |-> next(x[2], list[x[1]])]
             pick == [u \in SUBSET T |-> Max(u)]
  <2>1. \A x \in T, r \in R : step[<<x, r>>] = next(r, list[x])
    OBVIOUS
  <2>2. \A x \in T, r \in R : step[<<x, r>>] \in R
    BY <1>5, <2>1
  <2>3. \A u \in SUBSET T : pick[u] = Max(u)
    OBVIOUS
  <2>4. \A u \in SUBSET T : u # {} => pick[u] \in u
    BY <1>1, <2>3
  <2> HIDE DEF step, pick
  <2>5. PICK f : IsFold(f, T, R, base, step, pick)
    <3>1. IsFiniteSet(T)
      BY <1>1
    <3> QED
      BY <1>4, <2>2, <2>4, <3>1, FoldExists
  <2>6. ASSUME NEW u \in SUBSET T
        PROVE  f[u] = IF u = {} THEN base ELSE next(f[u \ {Max(u)}], list[Max(u)])
    <3>1. CASE u = {}
      BY <2>5, <3>1 DEF IsFold
    <3>2. CASE u # {}
      <4>1. Max(u) \in T /\ u \ {Max(u)} \in SUBSET T
        BY <1>1, <3>2
      <4>2. f[u \ {Max(u)}] \in R
        BY <2>5, <4>1 DEF IsFold
      <4>3. f[u] = step[<<Max(u), f[u \ {Max(u)}]>>]
        BY <2>3, <2>5, <3>2 DEF IsFold
      <4> QED
        BY <2>1, <3>2, <4>1, <4>2, <4>3
    <3> QED
      BY <3>1, <3>2
  <2>7. f = Body(f)
    <3>1. f \in [SUBSET T -> R]
      BY <2>5 DEF IsFold
    <3> QED
      BY <2>6, <3>1
  <2> HIDE DEF Body
  <2> QED
    BY <2>7
<1> HIDE DEF iter, R, next, base
<1>7. \A u \in SUBSET T :
        iter[u] = IF u = {} THEN base ELSE next(iter[u \ {Max(u)}], list[Max(u)])
  BY <1>6
<1> DEFINE Good == {u \in SUBSET T : iter[u] \in R}
<1>8. {} \in Good
  BY <1>4, <1>7
<1>9. ASSUME NEW u \in SUBSET T, u # {} PROVE \E x \in u : u \ {x} \in Good => u \in Good
  <2>1. Max(u) \in u /\ Max(u) \in T
    BY <1>1, <1>9
  <2>2. iter[u \ {Max(u)}] \in R => iter[u] \in R
    BY <1>5, <1>7, <1>9, <2>1
  <2> QED
    BY <2>1, <2>2
<1>10. T \in Good
  <2> HIDE DEF Good
  <2> QED
    BY <1>1, <1>8, <1>9, Members
<1> QED
  BY <1>3, <1>10 DEF R

LEMMA WithStreamEffect ==
  ASSUME NEW streams \in Seq(Stream), NEW addr \in Int
  PROVE  WithStream(streams, addr) \in Seq(Stream)
<1> DEFINE confidences == {streams[i].confidence : i \in DOMAIN streams}
           least == Min(confidences)
           victims == {i \in DOMAIN streams : streams[i].confidence = least}
           kept == IF Len(streams) < kStreamTableSize THEN streams
                   ELSE RemoveAt(streams, Min(victims))
           new == [last_miss |-> addr, stride |-> 0, last_stride |-> 0, confidence |-> 0]
<1>0. \A i \in DOMAIN streams : streams[i] \in Stream /\ i \in Nat
  OBVIOUS
<1>1. \A i \in DOMAIN streams : streams[i].confidence \in Nat /\ i \in Nat
  BY <1>0 DEF Stream
<1>2. ASSUME ~(Len(streams) < kStreamTableSize) PROVE RemoveAt(streams, Min(victims)) \in Seq(Stream)
  <2>1. 1 \in DOMAIN streams
    <3>1. Len(streams) \in Nat /\ DOMAIN streams = 1 .. Len(streams)
      OBVIOUS
    <3> QED
      BY <1>2, <3>1, PrefetcherAssumption
  <2>2. confidences \subseteq Nat /\ confidences # {}
    BY <1>1, <2>1
  <2>3. least \in confidences
    BY <2>2, LeastIsMember
  <2>4. victims \subseteq Nat /\ victims # {}
    BY <1>1, <2>3
  <2>5. Min(victims) \in victims
    BY <2>4, LeastIsMember
  <2>6. Min(victims) \in DOMAIN streams
    BY <2>5
  <2> QED
    BY <2>6, RemoveAtValue
<1>3. kept \in Seq(Stream)
  BY <1>2
<1>4. new \in Stream
  BY DEF Stream
<1>5. WithStream(streams, addr) = Append(kept, new)
  BY DEF WithStream
<1> HIDE DEF kept, new
<1> QED
  BY <1>3, <1>4, <1>5

LEMMA StreamKeepsType ==
  ASSUME NEW p \in StreamPrefetcher, NEW addr \in Int, NEW dist, NEW write
  PROVE  StreamAccess(p, addr, dist, write) \in StreamPrefetcher
<1> DEFINE streams == p.streams_
           matches == {i \in DOMAIN streams : Follows(streams[i], addr) \/ Alternates(streams[i], addr)}
           first == Min(matches)
           matched == Matched(streams[first], addr)
           near == NearStreams(streams, addr)
           result ==
             IF matches # {} THEN [streams |-> [streams EXCEPT ![first] = matched.stream],
                                   asks |-> matched.asks]
             ELSE IF \E i \in DOMAIN streams : IsNear(streams[i], addr)
               THEN [streams |-> near.streams, asks |-> near.asks]
             ELSE [streams |-> WithStream(streams, addr), asks |-> kAddressMax]
           record == (p.prefetch_record_ \ {addr}) \cup ({result.asks} \ {kAddressMax})
           ignored == write \/ (~is_miss(dist) /\ addr \notin p.prefetch_record_)
<1>1. p.prefetch_record_ \in SUBSET Int /\ streams \in Seq(Stream) /\ p.asks \in Int
  BY DEF StreamPrefetcher
<1>2. StreamAccess(p, addr, dist, write) =
        IF ignored THEN [p EXCEPT !.asks = kAddressMax]
        ELSE [p EXCEPT !.streams_ = result.streams, !.asks = result.asks, !.prefetch_record_ = record]
  BY DEF StreamAccess
<1>3. kAddressMax \in Int
  BY DEF kAddressMax
<1> HIDE DEF streams, ignored
<1>4. ASSUME matches # {} PROVE result.streams \in Seq(Stream) /\ result.asks \in Int
  <2>1. matches \subseteq Nat
    BY <1>1
  <2>2. first \in matches
    BY <1>4, <2>1, LeastIsMember
  <2>3. first \in DOMAIN streams /\ streams[first] \in Stream
    BY <1>1, <2>2
  <2>4. matched.stream \in Stream /\ matched.asks \in Int
    BY <2>3, MatchedEffect
  <2> HIDE DEF matches, first, matched
  <2>5. [streams EXCEPT ![first] = matched.stream] \in Seq(Stream)
    BY <1>1, <2>3, <2>4
  <2> QED
    BY <1>4, <2>4, <2>5
<1>5. near.streams \in Seq(Stream) /\ near.asks \in Int
  <2>1. near \in NearResult
    BY <1>1, NearStreamsEffect
  <2> HIDE DEF near
  <2> QED
    BY <2>1 DEF NearResult
<1>6. WithStream(streams, addr) \in Seq(Stream)
  BY <1>1, WithStreamEffect
<1> HIDE DEF near
<1>7. result.streams \in Seq(Stream) /\ result.asks \in Int
  <2>1. CASE matches # {}
    BY <1>4, <2>1
  <2>2. CASE matches = {}
    <3> HIDE DEF matches, first, matched
    <3> QED
      BY <1>3, <1>5, <1>6, <2>2
  <2> QED
    BY <2>1, <2>2
<1> HIDE DEF result
<1>8. record \in SUBSET Int
  BY <1>1, <1>7
<1> HIDE DEF record
<1> QED
  BY <1>2, <1>3, <1>7, <1>8 DEF StreamPrefetcher

LEMMA PrefetcherKeepsType ==
  ASSUME NEW p \in Prefetcher, NEW addr \in Int, NEW PC \in Int, NEW dist, NEW write
  PROVE  PrefetcherAccess(p, addr, PC, dist, write) \in Prefetcher
<1>1. CASE p \in DCUPrefetcher
  <2>1. p.kind = "dcu"
    BY <1>1 DEF DCUPrefetcher
  <2>2. PrefetcherAccess(p, addr, PC, dist, write) = DCUAccess(p, addr)
    BY <2>1 DEF PrefetcherAccess
  <2> QED
    BY <1>1, <2>2, DCUKeepsType DEF Prefetcher
<1>2. CASE p \in StridePrefetcher
  <2>1. p.kind = "stride"
    BY <1>2 DEF StridePrefetcher
  <2>2. PrefetcherAccess(p, addr, PC, dist, write) = StrideAccess(p, addr, PC, dist)
    BY <2>1 DEF PrefetcherAccess
  <2> QED
    BY <1>2, <2>2, StrideKeepsType DEF Prefetcher
<1>3. CASE p \in StreamPrefetcher
  <2>1. p.kind = "stream"
    BY <1>3 DEF StreamPrefetcher
  <2>2. PrefetcherAccess(p, addr, PC, dist, write) = StreamAccess(p, addr, dist, write)
    BY <2>1 DEF PrefetcherAccess
  <2> QED
    BY <1>3, <2>2, StreamKeepsType DEF Prefetcher
<1> QED
  BY <1>1, <1>2, <1>3 DEF Prefetcher

-----------------------------------------------------------------------------
(* The arbiter                                                             *)

Request == [addr : Addr, time : Nat]
RecentPrefetch == [addr : Addr, expire_time : Nat]

Arbiter ==
  [ kPrefetchDelay : Nat, prefetchers_ : Seq(Prefetcher), current_time_ : Nat,
    prefetch_queue_ : Seq(Request), recent_prefetches_ : Seq(RecentPrefetch),
    recent_prefetch_addrs_ : SUBSET Addr, prefetched_addrs_ : SUBSET Addr,
    issued : Seq(Addr \X Nat) ]

\* The recent requests are for different blocks, those in the set.
RecentAgree(a) ==
  /\ \A i, j \in DOMAIN a.recent_prefetches_ :
       a.recent_prefetches_[i].addr = a.recent_prefetches_[j].addr => i = j
  /\ a.recent_prefetch_addrs_ = {r.addr : r \in ToSet(a.recent_prefetches_)}

\* The queue has what is due after this time.
QueueWaits(a, last) == \A i \in DOMAIN a.prefetch_queue_ : last < a.prefetch_queue_[i].time

QueueIsSpaced(a) ==
  \A i, j \in DOMAIN a.prefetch_queue_ :
    i # j /\ a.prefetch_queue_[i].addr = a.prefetch_queue_[j].addr =>
      \/ a.prefetch_queue_[i].time + kPrefetchRepeatFrequency <= a.prefetch_queue_[j].time
      \/ a.prefetch_queue_[j].time + kPrefetchRepeatFrequency <= a.prefetch_queue_[i].time

QueueFollows(a) ==
  \A i \in DOMAIN a.prefetch_queue_, j \in DOMAIN a.issued :
    a.prefetch_queue_[i].addr = a.issued[j][1] =>
      a.issued[j][2] + kPrefetchRepeatFrequency <= a.prefetch_queue_[i].time

IssuedAreSpaced(a) ==
  \A i, j \in DOMAIN a.issued :
    i < j /\ a.issued[i][1] = a.issued[j][1] =>
      a.issued[i][2] + kPrefetchRepeatFrequency <= a.issued[j][2]

IssuedBy(a, last) == \A j \in DOMAIN a.issued : a.issued[j][2] <= last

\* A request for addr that is due at this time does not come too early for the next one,
\* or is remembered until then.
Remembered(a, addr, time) ==
  \/ time + kPrefetchRepeatFrequency <= a.current_time_ + a.kPrefetchDelay
  \/ \E r \in ToSet(a.recent_prefetches_) :
       r.addr = addr /\ time + kPrefetchRepeatFrequency <= r.expire_time + a.kPrefetchDelay

AllRemembered(a) ==
  /\ \A i \in DOMAIN a.prefetch_queue_ :
       Remembered(a, a.prefetch_queue_[i].addr, a.prefetch_queue_[i].time)
  /\ \A j \in DOMAIN a.issued : Remembered(a, a.issued[j][1], a.issued[j][2])

\* What is true of an arbiter that has made the requests due until then.
Spaced(a, last) ==
  /\ RecentAgree(a) /\ QueueWaits(a, last) /\ QueueIsSpaced(a) /\ QueueFollows(a)
  /\ IssuedAreSpaced(a) /\ IssuedBy(a, last) /\ AllRemembered(a)

SpacedArbiter == {a \in Arbiter : Spaced(a, a.current_time_)}

\* In the middle of an access.
BusyArbiter == {a \in Arbiter : a.current_time_ > 0 /\ Spaced(a, a.current_time_ - 1)}

LEMMA NewArbiterIsSpaced ==
  ASSUME NEW delay \in Nat, NEW prefetchers \in Seq(Prefetcher)
  PROVE  NewArbiter(delay, prefetchers) \in SpacedArbiter
<1> DEFINE a == NewArbiter(delay, prefetchers)
<1>1. /\ a.prefetch_queue_ = <<>> /\ a.recent_prefetches_ = <<>> /\ a.issued = <<>>
      /\ a.recent_prefetch_addrs_ = {}
  BY DEF NewArbiter
<1>2. a \in Arbiter
  BY DEF NewArbiter, Arbiter
<1> HIDE DEF a
<1>3. Spaced(a, a.current_time_)
  BY <1>1 DEF Spaced, RecentAgree, QueueWaits, QueueIsSpaced, QueueFollows, IssuedAreSpaced,
     IssuedBy, AllRemembered, ToSet
<1> QED
  BY <1>2, <1>3 DEF SpacedArbiter, a

LEMMA ArbiterFields ==
  ASSUME NEW a \in Arbiter
  PROVE  /\ a.kPrefetchDelay \in Nat /\ a.prefetchers_ \in Seq(Prefetcher)
         /\ a.current_time_ \in Nat /\ a.prefetch_queue_ \in Seq(Request)
         /\ a.recent_prefetches_ \in Seq(RecentPrefetch)
         /\ a.recent_prefetch_addrs_ \in SUBSET Addr /\ a.prefetched_addrs_ \in SUBSET Addr
         /\ a.issued \in Seq(Addr \X Nat)
         /\ \A i \in DOMAIN a.prefetch_queue_ : /\ a.prefetch_queue_[i].addr \in Addr
                                                /\ a.prefetch_queue_[i].time \in Nat
         /\ \A i \in DOMAIN a.recent_prefetches_ : a.recent_prefetches_[i].expire_time \in Nat
         /\ \A i \in DOMAIN a.issued : a.issued[i][2] \in Nat
<1>1. /\ a.kPrefetchDelay \in Nat /\ a.prefetchers_ \in Seq(Prefetcher)
      /\ a.current_time_ \in Nat /\ a.prefetch_queue_ \in Seq(Request)
      /\ a.recent_prefetches_ \in Seq(RecentPrefetch)
      /\ a.recent_prefetch_addrs_ \in SUBSET Addr /\ a.prefetched_addrs_ \in SUBSET Addr
      /\ a.issued \in Seq(Addr \X Nat)
  BY DEF Arbiter
<1>2. \A i \in DOMAIN a.prefetch_queue_ : a.prefetch_queue_[i] \in Request
  BY <1>1
<1>3. \A i \in DOMAIN a.recent_prefetches_ : a.recent_prefetches_[i] \in RecentPrefetch
  BY <1>1
<1>4. \A i \in DOMAIN a.issued : a.issued[i] \in Addr \X Nat
  BY <1>1
<1> QED
  BY <1>1, <1>2, <1>3, <1>4 DEF Request, RecentPrefetch

\* Requests that are cancelled or dropped leave the others as they were.
LEMMA FewerRequests ==
  ASSUME NEW a \in Arbiter, NEW b \in Arbiter, NEW last \in Int, Spaced(a, last), NEW erased,
         b.prefetch_queue_ = Without(a.prefetch_queue_, erased),
         b.recent_prefetches_ = a.recent_prefetches_,
         b.recent_prefetch_addrs_ = a.recent_prefetch_addrs_,
         b.issued = a.issued, b.kPrefetchDelay = a.kPrefetchDelay,
         b.current_time_ >= a.current_time_
  PROVE  Spaced(b, last)
<1>1. PICK m : IsRest(b.prefetch_queue_, a.prefetch_queue_, erased, m)
  BY ArbiterFields, WithoutEffect
<1>2. /\ m \in [DOMAIN b.prefetch_queue_ -> DOMAIN a.prefetch_queue_]
      /\ \A i \in DOMAIN b.prefetch_queue_ : b.prefetch_queue_[i] = a.prefetch_queue_[m[i]]
      /\ \A i, j \in DOMAIN b.prefetch_queue_ : m[i] = m[j] => i = j
  BY <1>1 DEF IsRest
<1>3. QueueWaits(b, last)
  BY <1>2 DEF Spaced, QueueWaits
<1>4. QueueIsSpaced(b)
  <2> SUFFICES ASSUME NEW i \in DOMAIN b.prefetch_queue_, NEW j \in DOMAIN b.prefetch_queue_, i # j,
                      b.prefetch_queue_[i].addr = b.prefetch_queue_[j].addr
               PROVE  \/ b.prefetch_queue_[i].time + kPrefetchRepeatFrequency <= b.prefetch_queue_[j].time
                      \/ b.prefetch_queue_[j].time + kPrefetchRepeatFrequency <= b.prefetch_queue_[i].time
    BY DEF QueueIsSpaced
  <2>1. m[i] # m[j] /\ m[i] \in DOMAIN a.prefetch_queue_ /\ m[j] \in DOMAIN a.prefetch_queue_
    BY <1>2
  <2>2. b.prefetch_queue_[i] = a.prefetch_queue_[m[i]] /\ b.prefetch_queue_[j] = a.prefetch_queue_[m[j]]
    BY <1>2
  <2> QED
    BY <2>1, <2>2 DEF Spaced, QueueIsSpaced
<1>5. QueueFollows(b)
  BY <1>2 DEF Spaced, QueueFollows
<1>6. \A addr : \A time \in Int : Remembered(a, addr, time) => Remembered(b, addr, time)
  <2>1. a.current_time_ \in Nat /\ b.current_time_ \in Nat /\ a.kPrefetchDelay \in Nat
        /\ kPrefetchRepeatFrequency \in Nat
    BY ArbiterFields, PrefetcherAssumption
  <2> QED
    BY <2>1 DEF Remembered
<1>7. AllRemembered(b)
  <2>1. \A i \in DOMAIN b.prefetch_queue_ : b.prefetch_queue_[i].time \in Nat
    BY ArbiterFields
  <2>2. \A i \in DOMAIN b.issued : b.issued[i][2] \in Nat
    BY ArbiterFields
  <2> QED
    BY <1>2, <1>6, <2>1, <2>2 DEF Spaced, AllRemembered
<1> QED
  BY <1>3, <1>4, <1>5, <1>7 DEF Spaced, RecentAgree, IssuedAreSpaced, IssuedBy


\* Requests that have expired are forgotten.
LEMMA ExpiredRequests ==
  ASSUME NEW a \in Arbiter, NEW b \in Arbiter, Spaced(a, a.current_time_ - 1),
         NEW expired,
         expired = {r \in ToSet(a.recent_prefetches_) : r.expire_time <= a.current_time_},
         b.recent_prefetches_ = Without(a.recent_prefetches_, expired),
         b.recent_prefetch_addrs_ = a.recent_prefetch_addrs_ \ {r.addr : r \in expired},
         b.prefetch_queue_ = a.prefetch_queue_, b.issued = a.issued,
         b.kPrefetchDelay = a.kPrefetchDelay, b.current_time_ = a.current_time_
  PROVE  Spaced(b, b.current_time_ - 1)
<1> DEFINE old == a.recent_prefetches_
           recent == b.recent_prefetches_
<1>1. /\ a.current_time_ \in Nat /\ a.kPrefetchDelay \in Nat /\ kPrefetchRepeatFrequency \in Nat
      /\ \A i \in DOMAIN old : old[i].expire_time \in Nat
  BY ArbiterFields, PrefetcherAssumption
<1>2. PICK m : IsRest(recent, old, expired, m)
  <2>1. old \in Seq(RecentPrefetch)
    BY ArbiterFields
  <2>2. \A e : \E m : IsRest(Without(old, e), old, e, m)
    BY <2>1, WithoutEffect
  <2>3. recent = Without(old, expired)
    OBVIOUS
  <2> HIDE DEF old, recent
  <2> QED
    BY <2>2, <2>3
<1>3. /\ m \in [DOMAIN recent -> DOMAIN old]
      /\ \A i \in DOMAIN recent : recent[i] = old[m[i]] /\ recent[i] \notin expired
      /\ \A i, j \in DOMAIN recent : m[i] = m[j] => i = j
      /\ \A j \in DOMAIN old : old[j] \notin expired => \E i \in DOMAIN recent : m[i] = j
  BY <1>2 DEF IsRest
<1>4. ToSet(old) = {old[i] : i \in DOMAIN old} /\ ToSet(recent) = {recent[i] : i \in DOMAIN recent}
  BY DEF ToSet
<1>5. \A i, j \in DOMAIN old : old[i].addr = old[j].addr => i = j
  BY DEF Spaced, RecentAgree
<1>6. a.recent_prefetch_addrs_ = {r.addr : r \in ToSet(old)}
  BY DEF Spaced, RecentAgree
<1>7. ToSet(recent) = ToSet(old) \ expired
  <2>1. ASSUME NEW i \in DOMAIN recent PROVE recent[i] \in ToSet(old) \ expired
    <3>1. m[i] \in DOMAIN old /\ recent[i] = old[m[i]] /\ recent[i] \notin expired
      BY <1>3, <2>1
    <3> QED
      BY <1>4, <3>1, Zenon
  <2>2. ASSUME NEW j \in DOMAIN old, old[j] \notin expired PROVE old[j] \in ToSet(recent)
    <3>1. PICK i \in DOMAIN recent : m[i] = j
      BY <1>3, <2>2
    <3>2. recent[i] = old[j]
      BY <1>3, <3>1
    <3> QED
      BY <1>4, <3>2, Zenon
  <2> HIDE DEF old, recent
  <2>3. ToSet(recent) \subseteq ToSet(old) \ expired
    BY <1>4, <2>1
  <2>4. ToSet(old) \ expired \subseteq ToSet(recent)
    BY <1>4, <2>2
  <2> QED
    BY <2>3, <2>4
<1>8. expired \subseteq ToSet(old)
  OBVIOUS
<1>9. \A r, e \in ToSet(old) : r.addr = e.addr => r = e
  BY <1>4, <1>5
<1>10. RecentAgree(b)
  <2>1. \A i, j \in DOMAIN recent : recent[i].addr = recent[j].addr => i = j
    BY <1>3, <1>5
  <2>2. b.recent_prefetch_addrs_ = {r.addr : r \in ToSet(recent)}
    BY <1>6, <1>7, <1>8, <1>9
  <2> QED
    BY <2>1, <2>2 DEF RecentAgree
<1>11. \A addr : \A time \in Int : Remembered(a, addr, time) => Remembered(b, addr, time)
  <2> SUFFICES ASSUME NEW addr, NEW time \in Int, Remembered(a, addr, time)
               PROVE  Remembered(b, addr, time)
    OBVIOUS
  <2>1. CASE time + kPrefetchRepeatFrequency <= a.current_time_ + a.kPrefetchDelay
    BY <2>1 DEF Remembered
  <2>2. CASE \E r \in ToSet(old) :
               r.addr = addr /\ time + kPrefetchRepeatFrequency <= r.expire_time + a.kPrefetchDelay
    <3>1. PICK r \in ToSet(old) :
            r.addr = addr /\ time + kPrefetchRepeatFrequency <= r.expire_time + a.kPrefetchDelay
      BY <2>2
    <3>2. r.expire_time \in Nat
      BY <1>1, <1>4, <3>1
    <3>3. CASE r \in expired
      <4>1. r.expire_time <= a.current_time_
        BY <3>3
      <4>2. time + kPrefetchRepeatFrequency <= a.current_time_ + a.kPrefetchDelay
        BY <1>1, <3>1, <3>2, <4>1
      <4> QED
        BY <4>2 DEF Remembered
    <3>4. CASE r \notin expired
      <4>1. r \in ToSet(recent)
        BY <1>7, <3>1, <3>4
      <4> QED
        BY <3>1, <4>1 DEF Remembered
    <3> QED
      BY <3>3, <3>4
  <2> QED
    BY <2>1, <2>2 DEF Remembered
<1>12. AllRemembered(b)
  <2>1. \A i \in DOMAIN b.prefetch_queue_ : b.prefetch_queue_[i].time \in Nat
    BY ArbiterFields
  <2>2. \A i \in DOMAIN b.issued : b.issued[i][2] \in Nat
    BY ArbiterFields
  <2> QED
    BY <1>11, <2>1, <2>2 DEF Spaced, AllRemembered
<1> QED
  BY <1>10, <1>12 DEF Spaced, QueueWaits, QueueIsSpaced, QueueFollows, IssuedAreSpaced, IssuedBy

LEMMA AppendEffect ==
  ASSUME NEW X, NEW s \in Seq(X), NEW x
  PROVE  LET r == Append(s, x) IN
         /\ DOMAIN s = 1 .. Len(s) /\ Len(s) \in Nat /\ DOMAIN r = 1 .. Len(s) + 1
         /\ \A i \in DOMAIN s : i \in DOMAIN r /\ r[i] = s[i]
         /\ r[Len(s) + 1] = x
         /\ \A i \in DOMAIN r : (i \in DOMAIN s /\ r[i] = s[i]) \/ (i = Len(s) + 1 /\ r[i] = x)
<1> DEFINE r == Append(s, x)
<1>1. DOMAIN s = 1 .. Len(s) /\ Len(s) \in Nat
  OBVIOUS
<1>2. s \in Seq(X \cup {x})
  OBVIOUS
<1>3. DOMAIN r = 1 .. Len(s) + 1 /\ r[Len(s) + 1] = x /\ \A i \in DOMAIN s : r[i] = s[i]
  BY <1>1, <1>2
<1> HIDE DEF r
<1>4. \A i \in DOMAIN r : i \in DOMAIN s \/ i = Len(s) + 1
  BY <1>1, <1>3
<1>5. DOMAIN s \subseteq DOMAIN r
  BY <1>1, <1>3
<1>6. /\ DOMAIN s = 1 .. Len(s) /\ Len(s) \in Nat /\ DOMAIN r = 1 .. Len(s) + 1
      /\ \A i \in DOMAIN s : i \in DOMAIN r /\ r[i] = s[i]
      /\ r[Len(s) + 1] = x
      /\ \A i \in DOMAIN r : (i \in DOMAIN s /\ r[i] = s[i]) \/ (i = Len(s) + 1 /\ r[i] = x)
  BY <1>1, <1>3, <1>4, <1>5
<1> QED
  BY <1>6 DEF r

\* A request is queued for a block of which no recent one is remembered.
LEMMA QueuedRequest ==
  ASSUME NEW a \in Arbiter, NEW b \in Arbiter, Spaced(a, a.current_time_ - 1),
         NEW addr \in Addr, addr \notin a.recent_prefetch_addrs_,
         b.prefetch_queue_ = Append(a.prefetch_queue_,
           [addr |-> addr, time |-> a.current_time_ + a.kPrefetchDelay]),
         b.recent_prefetches_ = Append(a.recent_prefetches_,
           [addr |-> addr, expire_time |-> a.current_time_ + kPrefetchRepeatFrequency]),
         b.recent_prefetch_addrs_ = a.recent_prefetch_addrs_ \cup {addr},
         b.issued = a.issued,
         b.kPrefetchDelay = a.kPrefetchDelay, b.current_time_ = a.current_time_
  PROVE  Spaced(b, b.current_time_ - 1)
<1> DEFINE time == a.current_time_ + a.kPrefetchDelay
           expire == a.current_time_ + kPrefetchRepeatFrequency
           old == a.recent_prefetches_
           recent == b.recent_prefetches_
           queue == a.prefetch_queue_
           longer == b.prefetch_queue_
<1>0. old \in Seq(RecentPrefetch) /\ queue \in Seq(Request)
  BY ArbiterFields
<1>1. /\ a.current_time_ \in Nat /\ a.kPrefetchDelay \in Nat /\ kPrefetchRepeatFrequency \in Nat
      /\ \A i \in DOMAIN queue : queue[i].time \in Nat
      /\ \A i \in DOMAIN a.issued : a.issued[i][2] \in Nat
  BY ArbiterFields, PrefetcherAssumption
<1>2. time \in Nat /\ expire \in Nat
  BY <1>1
<1>3. /\ \A i \in DOMAIN longer :
           \/ i \in DOMAIN queue /\ longer[i] = queue[i]
           \/ i = Len(queue) + 1 /\ longer[i] = [addr |-> addr, time |-> time]
      /\ DOMAIN queue = 1 .. Len(queue) /\ Len(queue) \in Nat
  BY <1>0, AppendEffect
<1>4. /\ \A i \in DOMAIN recent :
           \/ i \in DOMAIN old /\ recent[i] = old[i]
           \/ i = Len(old) + 1 /\ recent[i] = [addr |-> addr, expire_time |-> expire]
      /\ DOMAIN recent = 1 .. Len(old) + 1
      /\ \A i \in DOMAIN old : i \in DOMAIN recent /\ recent[i] = old[i]
      /\ recent[Len(old) + 1] = [addr |-> addr, expire_time |-> expire]
      /\ Len(old) \in Nat /\ DOMAIN old = 1 .. Len(old)
  BY <1>0, AppendEffect
<1> HIDE DEF time, expire, longer, recent
<1>5. ToSet(old) = {old[i] : i \in DOMAIN old} /\ ToSet(recent) = {recent[i] : i \in DOMAIN recent}
  BY DEF ToSet
<1>6. ToSet(recent) = ToSet(old) \cup {[addr |-> addr, expire_time |-> expire]}
  <2>1. ToSet(recent) \subseteq ToSet(old) \cup {[addr |-> addr, expire_time |-> expire]}
    BY <1>4, <1>5
  <2>2. ToSet(old) \subseteq ToSet(recent)
    BY <1>4, <1>5
  <2>3. Len(old) + 1 \in DOMAIN recent
    BY <1>4
  <2>4. [addr |-> addr, expire_time |-> expire] \in ToSet(recent)
    BY <1>4, <1>5, <2>3
  <2> QED
    BY <2>1, <2>2, <2>4
<1>7. a.recent_prefetch_addrs_ = {r.addr : r \in ToSet(old)}
  BY DEF Spaced, RecentAgree
<1>8. \A i \in DOMAIN old : old[i].addr # addr
  BY <1>5, <1>7
<1>9. RecentAgree(b)
  <2>1. \A i, j \in DOMAIN recent : recent[i].addr = recent[j].addr => i = j
    <3>1. \A i, j \in DOMAIN old : old[i].addr = old[j].addr => i = j
      BY DEF Spaced, RecentAgree
    <3> QED
      BY <1>4, <1>8, <3>1
  <2>2. b.recent_prefetch_addrs_ = {r.addr : r \in ToSet(recent)}
    <3>1. [addr |-> addr, expire_time |-> expire].addr = addr
      OBVIOUS
    <3> QED
      BY <1>6, <1>7, <3>1
  <2> QED
    BY <2>1, <2>2 DEF RecentAgree, recent
<1>10. \A other \in Int : Remembered(a, addr, other) => other + kPrefetchRepeatFrequency <= time
  BY <1>5, <1>8 DEF Remembered, time
<1>11. \A i \in DOMAIN queue : Remembered(a, queue[i].addr, queue[i].time)
  BY DEF Spaced, AllRemembered
<1>12. \A j \in DOMAIN a.issued : Remembered(a, a.issued[j][1], a.issued[j][2])
  BY DEF Spaced, AllRemembered
<1>13. QueueWaits(b, b.current_time_ - 1)
  <2>1. \A i \in DOMAIN queue : a.current_time_ - 1 < queue[i].time
    BY DEF Spaced, QueueWaits
  <2>2. a.current_time_ - 1 < time
    BY <1>1 DEF time
  <2>3. \A i \in DOMAIN longer : a.current_time_ - 1 < longer[i].time
    BY <1>3, <2>1, <2>2
  <2> QED
    BY <2>3 DEF QueueWaits, longer
<1>14. QueueIsSpaced(b)
  <2> DEFINE Apart(i, j) ==
               \/ longer[i].time + kPrefetchRepeatFrequency <= longer[j].time
               \/ longer[j].time + kPrefetchRepeatFrequency <= longer[i].time
  <2>1. ASSUME NEW i \in DOMAIN longer, NEW j \in DOMAIN longer, i # j,
               longer[i].addr = longer[j].addr
        PROVE  Apart(i, j)
    <3>1. CASE i \in DOMAIN queue /\ j \in DOMAIN queue
      <4>1. longer[i] = queue[i] /\ longer[j] = queue[j]
        BY <1>3, <3>1
      <4> QED
        BY <2>1, <3>1, <4>1 DEF Spaced, QueueIsSpaced
    <3>2. CASE i \in DOMAIN queue /\ j \notin DOMAIN queue
      <4>1. longer[i] = queue[i] /\ longer[j] = [addr |-> addr, time |-> time]
        BY <1>3, <2>1, <3>2
      <4>2. queue[i].addr = addr /\ longer[j].time = time
        BY <2>1, <4>1
      <4>4. queue[i].time \in Int
        BY <1>1, <3>2
      <4>3. Remembered(a, addr, queue[i].time)
        BY <1>11, <3>2, <4>2
      <4> QED
        BY <1>10, <4>1, <4>2, <4>3, <4>4
    <3>3. CASE j \in DOMAIN queue /\ i \notin DOMAIN queue
      <4>1. longer[j] = queue[j] /\ longer[i] = [addr |-> addr, time |-> time]
        BY <1>3, <2>1, <3>3
      <4>2. queue[j].addr = addr /\ longer[i].time = time
        BY <2>1, <4>1
      <4>4. queue[j].time \in Int
        BY <1>1, <3>3
      <4>3. Remembered(a, addr, queue[j].time)
        BY <1>11, <3>3, <4>2
      <4> QED
        BY <1>10, <4>1, <4>2, <4>3, <4>4
    <3> QED
      BY <1>3, <2>1, <3>1, <3>2, <3>3
  <2> QED
    BY <2>1 DEF QueueIsSpaced, longer
<1>15. QueueFollows(b)
  <2>1. ASSUME NEW i \in DOMAIN longer, NEW j \in DOMAIN a.issued, longer[i].addr = a.issued[j][1]
        PROVE  a.issued[j][2] + kPrefetchRepeatFrequency <= longer[i].time
    <3>1. CASE i \in DOMAIN queue
      <4>1. longer[i] = queue[i]
        BY <1>3, <3>1
      <4> QED
        BY <2>1, <3>1, <4>1 DEF Spaced, QueueFollows
    <3>2. CASE i \notin DOMAIN queue
      <4>1. longer[i] = [addr |-> addr, time |-> time]
        BY <1>3, <2>1, <3>2
      <4>2. a.issued[j][1] = addr /\ longer[i].time = time
        BY <2>1, <4>1
      <4>3. a.issued[j][2] \in Int
        BY <1>1, <2>1
      <4>4. Remembered(a, addr, a.issued[j][2])
        BY <1>12, <2>1, <4>2
      <4> QED
        BY <1>10, <4>2, <4>3, <4>4
    <3> QED
      BY <3>1, <3>2
  <2> QED
    BY <2>1 DEF QueueFollows, longer
<1>16. \A block : \A other \in Int : Remembered(a, block, other) => Remembered(b, block, other)
  BY <1>6 DEF Remembered, recent
<1>17. Remembered(b, addr, time)
  <2> DEFINE r == [addr |-> addr, expire_time |-> expire]
  <2>1. r \in ToSet(recent) /\ r.addr = addr /\ r.expire_time = expire
    BY <1>6
  <2>2. time + kPrefetchRepeatFrequency <= expire + b.kPrefetchDelay
    BY <1>1 DEF time, expire
  <2> HIDE DEF r
  <2> QED
    BY <2>1, <2>2 DEF Remembered, recent
<1>18. AllRemembered(b)
  <2>1. \A i \in DOMAIN longer : Remembered(b, longer[i].addr, longer[i].time)
    <3> SUFFICES ASSUME NEW i \in DOMAIN longer
                 PROVE  Remembered(b, longer[i].addr, longer[i].time)
      OBVIOUS
    <3>1. CASE i \in DOMAIN queue
      <4>1. longer[i] = queue[i]
        BY <1>3, <3>1
      <4>2. Remembered(a, queue[i].addr, queue[i].time)
        BY <1>11, <3>1
      <4>3. queue[i].time \in Int
        BY <1>1, <3>1
      <4> QED
        BY <1>16, <4>1, <4>2, <4>3
    <3>2. CASE i \notin DOMAIN queue
      <4>1. longer[i].addr = addr /\ longer[i].time = time
        BY <1>3, <3>2
      <4> QED
        BY <1>17, <4>1
    <3> QED
      BY <3>1, <3>2
  <2>2. \A j \in DOMAIN b.issued : Remembered(b, b.issued[j][1], b.issued[j][2])
    BY <1>1, <1>12, <1>16
  <2> QED
    BY <2>1, <2>2 DEF AllRemembered, longer
<1> QED
  BY <1>9, <1>13, <1>14, <1>15, <1>18 DEF Spaced, IssuedAreSpaced, IssuedBy

\* Arbiters during the access at the beginning of which there was this one.
Midway(base) ==
  {a \in BusyArbiter : /\ a.current_time_ = base.current_time_ /\ a.issued = base.issued
                       /\ a.prefetched_addrs_ = base.prefetched_addrs_
                       /\ Len(a.prefetchers_) = Len(base.prefetchers_)}

LEMMA RequestKeepsSpaced ==
  ASSUME NEW base, NEW a \in Midway(base), NEW addr \in Addr
  PROVE  SetRequestInput(a, addr) \in Midway(base)
<1> DEFINE now == a.current_time_
           expired == {r \in ToSet(a.recent_prefetches_) : r.expire_time <= now}
           recent == Without(a.recent_prefetches_, expired)
           addrs == a.recent_prefetch_addrs_ \ {r.addr : r \in expired}
           aged == [a EXCEPT !.recent_prefetches_ = recent, !.recent_prefetch_addrs_ = addrs]
           request == [addr |-> addr, time |-> now + a.kPrefetchDelay]
           entry == [addr |-> addr, expire_time |-> now + kPrefetchRepeatFrequency]
           queued == [aged EXCEPT !.prefetch_queue_ = Append(@, request),
                                  !.recent_prefetches_ = Append(@, entry),
                                  !.recent_prefetch_addrs_ = @ \cup {addr}]
<1>1. a \in Arbiter /\ now > 0 /\ Spaced(a, now - 1)
  BY DEF Midway, BusyArbiter
<1>2. a.recent_prefetches_ \in Seq(RecentPrefetch) /\ addrs \subseteq Addr
      /\ now \in Nat /\ a.kPrefetchDelay \in Nat /\ kPrefetchRepeatFrequency \in Nat
      /\ a.prefetch_queue_ \in Seq(Request)
  BY <1>1, ArbiterFields, PrefetcherAssumption
<1>3. recent \in Seq(RecentPrefetch)
  BY <1>2, WithoutEffect
<1>4. SetRequestInput(a, addr) = IF addr \in addrs THEN aged ELSE queued
  BY <1>2 DEF SetRequestInput
<1>5. request \in Request /\ entry \in RecentPrefetch
  <2>1. now + a.kPrefetchDelay \in Nat /\ now + kPrefetchRepeatFrequency \in Nat
    BY <1>2
  <2> QED
    BY <2>1 DEF Request, RecentPrefetch
<1>6. /\ expired = {r \in ToSet(a.recent_prefetches_) : r.expire_time <= a.current_time_}
      /\ recent = Without(a.recent_prefetches_, expired)
      /\ addrs = a.recent_prefetch_addrs_ \ {r.addr : r \in expired}
      /\ request = [addr |-> addr, time |-> a.current_time_ + a.kPrefetchDelay]
      /\ entry = [addr |-> addr, expire_time |-> a.current_time_ + kPrefetchRepeatFrequency]
  OBVIOUS
<1> HIDE DEF expired, recent, addrs, request, entry
<1>7. /\ aged \in Arbiter
      /\ aged.recent_prefetches_ = recent /\ aged.recent_prefetch_addrs_ = addrs
      /\ aged.prefetch_queue_ = a.prefetch_queue_ /\ aged.issued = a.issued
      /\ aged.kPrefetchDelay = a.kPrefetchDelay /\ aged.current_time_ = now
      /\ aged.prefetched_addrs_ = a.prefetched_addrs_ /\ aged.prefetchers_ = a.prefetchers_
  BY <1>1, <1>2, <1>3 DEF Arbiter
<1> HIDE DEF aged
<1>8. Spaced(aged, aged.current_time_ - 1)
  BY <1>1, <1>6, <1>7, ExpiredRequests
<1>9. aged \in Midway(base)
  BY <1>1, <1>7, <1>8 DEF Midway, BusyArbiter
<1>10. ASSUME addr \notin addrs PROVE queued \in Midway(base)
  <2> DEFINE queue == Append(aged.prefetch_queue_, request)
             longer == Append(aged.recent_prefetches_, entry)
             more == aged.recent_prefetch_addrs_ \cup {addr}
  <2>1. queue \in Seq(Request) /\ longer \in Seq(RecentPrefetch) /\ more \in SUBSET Addr
    BY <1>2, <1>3, <1>5, <1>7
  <2>2. queued = [aged EXCEPT !.prefetch_queue_ = queue, !.recent_prefetches_ = longer,
                              !.recent_prefetch_addrs_ = more]
    OBVIOUS
  <2>3. /\ queue = Append(aged.prefetch_queue_, request)
        /\ longer = Append(aged.recent_prefetches_, entry)
        /\ more = aged.recent_prefetch_addrs_ \cup {addr}
    OBVIOUS
  <2> HIDE DEF queue, longer, more, queued
  <2>4. /\ queued \in Arbiter
        /\ queued.recent_prefetches_ = longer /\ queued.recent_prefetch_addrs_ = more
        /\ queued.prefetch_queue_ = queue /\ queued.issued = aged.issued
        /\ queued.kPrefetchDelay = aged.kPrefetchDelay /\ queued.current_time_ = aged.current_time_
        /\ queued.prefetched_addrs_ = aged.prefetched_addrs_
        /\ queued.prefetchers_ = aged.prefetchers_
    BY <1>7, <2>1, <2>2 DEF Arbiter
  <2>5. /\ request = [addr |-> addr, time |-> aged.current_time_ + aged.kPrefetchDelay]
        /\ entry = [addr |-> addr, expire_time |-> aged.current_time_ + kPrefetchRepeatFrequency]
        /\ addr \notin aged.recent_prefetch_addrs_
    BY <1>6, <1>7, <1>10
  <2>6. Spaced(queued, queued.current_time_ - 1)
    BY <1>7, <1>8, <2>3, <2>4, <2>5, QueuedRequest
  <2> QED
    BY <1>1, <1>7, <1>9, <2>4, <2>6 DEF Midway, BusyArbiter
<1> HIDE DEF queued
<1> QED
  BY <1>4, <1>9, <1>10

LEMMA TurnKeepsSpaced ==
  ASSUME NEW base, NEW a \in Midway(base), NEW i \in 1 .. Len(base.prefetchers_),
         NEW addr \in Int, NEW PC \in Int, NEW dist, NEW write
  PROVE  Turn(a, i, addr, PC, dist, write) \in Midway(base)
<1> DEFINE p == PrefetcherAccess(a.prefetchers_[i], addr, PC, dist, write)
           all == [a.prefetchers_ EXCEPT ![i] = p]
           turned == [a EXCEPT !.prefetchers_[i] = p]
<1>1. a \in Arbiter /\ a.current_time_ > 0 /\ Spaced(a, a.current_time_ - 1)
      /\ Len(a.prefetchers_) = Len(base.prefetchers_)
  BY DEF Midway, BusyArbiter
<1>2. a.prefetchers_ \in Seq(Prefetcher) /\ a.current_time_ \in Nat
  BY <1>1, ArbiterFields
<1>3. a.prefetchers_[i] \in Prefetcher /\ Len(a.prefetchers_) \in Nat
      /\ i \in 1 .. Len(a.prefetchers_)
  BY <1>1, <1>2
<1>4. p \in Prefetcher
  BY <1>3, PrefetcherKeepsType
<1>5. p.asks \in Int
  BY <1>4 DEF Prefetcher, DCUPrefetcher, StridePrefetcher, StreamPrefetcher
<1>6. Turn(a, i, addr, PC, dist, write)
        = IF p.asks = kAddressMax THEN turned ELSE SetRequestInput(turned, p.asks)
  BY DEF Turn
<1> HIDE DEF p
<1>7. all \in Seq(Prefetcher) /\ Len(all) = Len(a.prefetchers_)
  <2>1. a.prefetchers_ \in [1 .. Len(a.prefetchers_) -> Prefetcher]
    BY <1>2
  <2>2. all \in [1 .. Len(a.prefetchers_) -> Prefetcher]
    BY <1>3, <1>4, <2>1
  <2> QED
    BY <1>3, <2>2
<1>8. turned = [a EXCEPT !.prefetchers_ = all]
  BY <1>1 DEF Arbiter
<1> HIDE DEF all, turned
<1>9. /\ turned \in Arbiter /\ turned.prefetchers_ = all
      /\ turned.recent_prefetches_ = a.recent_prefetches_
      /\ turned.recent_prefetch_addrs_ = a.recent_prefetch_addrs_
      /\ turned.prefetch_queue_ = a.prefetch_queue_ /\ turned.issued = a.issued
      /\ turned.kPrefetchDelay = a.kPrefetchDelay /\ turned.current_time_ = a.current_time_
      /\ turned.prefetched_addrs_ = a.prefetched_addrs_
  BY <1>1, <1>7, <1>8 DEF Arbiter
<1>10. Spaced(turned, a.current_time_ - 1)
  BY <1>1, <1>9 DEF Spaced, RecentAgree, QueueWaits, QueueIsSpaced, QueueFollows, IssuedAreSpaced,
     IssuedBy, AllRemembered, Remembered
<1>11. turned \in Midway(base)
  BY <1>1, <1>7, <1>9, <1>10 DEF Midway, BusyArbiter
<1>12. p.asks # kAddressMax => p.asks \in Addr
  BY <1>5 DEF kAddressMax, Addr, Hole
<1>13. p.asks # kAddressMax => SetRequestInput(turned, p.asks) \in Midway(base)
  BY <1>11, <1>12, RequestKeepsSpaced
<1> QED
  BY <1>6, <1>11, <1>13

\* The turns of these prefetchers, one after the other.
Turns(timed, prefetchers, addr, PC, dist, write) ==
  FoldLeft(LAMBDA a, i : Turn(a, i, addr, PC, dist, write), timed, [i \in DOMAIN prefetchers |-> i])

LEMMA TurnsKeepSpaced ==
  ASSUME NEW timed \in BusyArbiter, NEW prefetchers \in Seq(Prefetcher),
         timed.prefetchers_ = prefetchers,
         NEW addr \in Int, NEW PC \in Int, NEW dist, NEW write
  PROVE  Turns(timed, prefetchers, addr, PC, dist, write) \in Midway(timed)
<1> DEFINE list == [i \in DOMAIN prefetchers |-> i]
           T == DOMAIN list
           R == Midway(timed)
           base == timed
           next(r, x) == Turn(r, x, addr, PC, dist, write)
           Body(f) == [u \in SUBSET T |->
                         IF u = {} THEN base ELSE next(f[u \ {Max(u)}], list[Max(u)])]
           iter == CHOOSE f : f = Body(f)
<1>1. IsFiniteSet(T) /\ \A u \in SUBSET T : u # {} => Max(u) \in u
  <2>1. list \in Seq(DOMAIN prefetchers)
    OBVIOUS
  <2> HIDE DEF list
  <2>2. Len(list) \in Nat /\ T = 1 .. Len(list)
    BY <2>1
  <2> QED
    BY <2>2, PickMax
<1>2. \A i \in T : list[i] \in DOMAIN prefetchers
  OBVIOUS
<1>3. Turns(timed, prefetchers, addr, PC, dist, write) = iter[T]
  BY DEF Turns, FoldLeft, MapThenFoldSet
<1> HIDE DEF T, list
<1>4. base \in R
  BY DEF Midway
<1>5. \A i \in T, r \in R : next(r, list[i]) \in R
  <2>1. \A x \in 1 .. Len(timed.prefetchers_), r \in Midway(timed) :
          Turn(r, x, addr, PC, dist, write) \in Midway(timed)
    BY TurnKeepsSpaced
  <2>2. \A i \in T : list[i] \in 1 .. Len(timed.prefetchers_)
    <3>1. DOMAIN prefetchers = 1 .. Len(prefetchers)
      OBVIOUS
    <3> QED
      BY <1>2, <3>1
  <2> QED
    BY <2>1, <2>2
<1>6. iter = Body(iter)
  <2> HIDE DEF R, next, base
  <2> DEFINE step == [x \in T \X R |-> next(x[2], list[x[1]])]
             pick == [u \in SUBSET T |-> Max(u)]
  <2>1. \A x \in T, r \in R : step[<<x, r>>] = next(r, list[x])
    OBVIOUS
  <2>2. \A x \in T, r \in R : step[<<x, r>>] \in R
    BY <1>5, <2>1
  <2>3. \A u \in SUBSET T : pick[u] = Max(u)
    OBVIOUS
  <2>4. \A u \in SUBSET T : u # {} => pick[u] \in u
    BY <1>1, <2>3
  <2> HIDE DEF step, pick
  <2>5. PICK f : IsFold(f, T, R, base, step, pick)
    <3>1. IsFiniteSet(T)
      BY <1>1
    <3> QED
      BY <1>4, <2>2, <2>4, <3>1, FoldExists
  <2>6. ASSUME NEW u \in SUBSET T
        PROVE  f[u] = IF u = {} THEN base ELSE next(f[u \ {Max(u)}], list[Max(u)])
    <3>1. CASE u = {}
      BY <2>5, <3>1 DEF IsFold
    <3>2. CASE u # {}
      <4>1. Max(u) \in T /\ u \ {Max(u)} \in SUBSET T
        BY <1>1, <3>2
      <4>2. f[u \ {Max(u)}] \in R
        BY <2>5, <4>1 DEF IsFold
      <4>3. f[u] = step[<<Max(u), f[u \ {Max(u)}]>>]
        BY <2>3, <2>5, <3>2 DEF IsFold
      <4> QED
        BY <2>1, <3>2, <4>1, <4>2, <4>3
    <3> QED
      BY <3>1, <3>2
  <2>7. f = Body(f)
    <3>1. f \in [SUBSET T -> R]
      BY <2>5 DEF IsFold
    <3> QED
      BY <2>6, <3>1
  <2> HIDE DEF Body
  <2> QED
    BY <2>7
<1> HIDE DEF iter, R, next, base
<1>7. \A u \in SUBSET T :
        iter[u] = IF u = {} THEN base ELSE next(iter[u \ {Max(u)}], list[Max(u)])
  BY <1>6
<1> DEFINE Good == {u \in SUBSET T : iter[u] \in R}
<1>8. {} \in Good
  BY <1>4, <1>7
<1>9. ASSUME NEW u \in SUBSET T, u # {} PROVE \E x \in u : u \ {x} \in Good => u \in Good
  <2>1. Max(u) \in u /\ Max(u) \in T
    BY <1>1, <1>9
  <2>2. iter[u \ {Max(u)}] \in R => iter[u] \in R
    BY <1>5, <1>7, <1>9, <2>1
  <2> QED
    BY <2>1, <2>2
<1>10. T \in Good
  <2> HIDE DEF Good
  <2> QED
    BY <1>1, <1>8, <1>9, Members
<1> QED
  BY <1>3, <1>10 DEF R

\* The requests that are due are made or dropped.
LEMMA OutputIsSpaced ==
  ASSUME NEW a \in BusyArbiter
  PROVE  LET b == GetRequestOutput(a) IN
         /\ b \in SpacedArbiter
         /\ b.current_time_ = a.current_time_
         /\ Requested(b) \in SUBSET Addr /\ \A x, y \in Requested(b) : x = y
         /\ b.prefetched_addrs_ = a.prefetched_addrs_ \cup Requested(b)
<1> DEFINE now == a.current_time_
           queue == a.prefetch_queue_
           due == {i \in DOMAIN queue : queue[i].time <= now}
           erased == {queue[i] : i \in due}
           left == Without(queue, erased)
           index == Min(due)
           first == queue[index].addr
           waiting == [a EXCEPT !.prefetch_queue_ = left]
           made == [waiting EXCEPT !.prefetched_addrs_ = @ \cup {first},
                                   !.issued = Append(@, <<first, now>>)]
<1>1. a \in Arbiter /\ Spaced(a, now - 1)
  BY DEF BusyArbiter
<1>2. /\ now \in Nat /\ kPrefetchRepeatFrequency \in Nat /\ queue \in Seq(Request)
      /\ a.issued \in Seq(Addr \X Nat) /\ a.prefetched_addrs_ \subseteq Addr
      /\ \A i \in DOMAIN queue : queue[i].addr \in Addr /\ queue[i].time \in Nat
      /\ \A i \in DOMAIN a.issued : a.issued[i][2] \in Nat
  BY <1>1, ArbiterFields, PrefetcherAssumption
<1>3. GetRequestOutput(a) = IF due = {} THEN waiting ELSE made
  BY DEF GetRequestOutput
<1>4. /\ QueueWaits(a, now - 1) /\ QueueIsSpaced(a) /\ QueueFollows(a) /\ IssuedAreSpaced(a)
      /\ IssuedBy(a, now - 1) /\ AllRemembered(a)
  BY <1>1 DEF Spaced
<1>5. PICK m : IsRest(left, queue, erased, m)
  BY <1>2, WithoutEffect
<1>6. /\ m \in [DOMAIN left -> DOMAIN queue]
      /\ \A i \in DOMAIN left : left[i] = queue[m[i]] /\ left[i] \notin erased
  BY <1>5 DEF IsRest
<1>7. \A i \in DOMAIN left : m[i] \in DOMAIN queue /\ left[i] = queue[m[i]] /\ m[i] \notin due
  BY <1>6
<1>8. \A i \in DOMAIN left : now < left[i].time
  BY <1>2, <1>7
<1>9. left \in Seq(Request)
  BY <1>2, WithoutEffect
<1>10. left = Without(a.prefetch_queue_, erased)
  OBVIOUS
<1>11. \A i \in due : i \in DOMAIN queue /\ queue[i].time = now
  BY <1>2, <1>4 DEF QueueWaits
<1>12. due # {} => index \in due
  <2>1. due \subseteq Nat
    BY <1>2
  <2> QED
    BY <2>1, LeastIsMember
<1> HIDE DEF left, erased, due, index
<1>13. /\ waiting \in Arbiter
       /\ waiting.recent_prefetches_ = a.recent_prefetches_
       /\ waiting.recent_prefetch_addrs_ = a.recent_prefetch_addrs_
       /\ waiting.prefetch_queue_ = left /\ waiting.issued = a.issued
       /\ waiting.kPrefetchDelay = a.kPrefetchDelay /\ waiting.current_time_ = now
       /\ waiting.prefetched_addrs_ = a.prefetched_addrs_
       /\ waiting.prefetchers_ = a.prefetchers_
  BY <1>1, <1>9 DEF Arbiter
<1> HIDE DEF waiting
<1>14. Spaced(waiting, now - 1)
  <2>1. waiting.current_time_ >= a.current_time_ /\ now - 1 \in Int
    BY <1>2, <1>13
  <2>2. waiting.prefetch_queue_ = Without(a.prefetch_queue_, erased)
    BY <1>10, <1>13
  <2> DEFINE last == now - 1
  <2>3. last \in Int /\ Spaced(a, last)
    BY <1>1, <2>1
  <2> HIDE DEF last
  <2>4. Spaced(waiting, last)
    BY <1>1, <1>13, <2>1, <2>2, <2>3, FewerRequests
  <2> QED
    BY <2>4 DEF last
<1>15. QueueWaits(waiting, now)
  BY <1>8, <1>13 DEF QueueWaits
<1>16. Spaced(waiting, now)
  <2>1. IssuedBy(waiting, now)
    BY <1>2, <1>4, <1>13 DEF IssuedBy
  <2> QED
    BY <1>14, <1>15, <2>1 DEF Spaced
<1>17. waiting \in SpacedArbiter
  BY <1>13, <1>16 DEF SpacedArbiter
<1>18. Requested(waiting) = {}
  <2>1. \A j \in DOMAIN a.issued : a.issued[j][2] # now
    BY <1>2, <1>4 DEF IssuedBy
  <2>2. \A q \in ToSet(a.issued) : q[2] # now
    BY <2>1 DEF ToSet
  <2> QED
    BY <1>13, <2>2 DEF Requested
<1>19. CASE due = {}
  BY <1>3, <1>13, <1>17, <1>18, <1>19
<1>20. CASE due # {}
  <2>1. index \in DOMAIN queue /\ queue[index].time = now /\ first \in Addr
    BY <1>2, <1>11, <1>12, <1>20
  <2> DEFINE issued == Append(waiting.issued, <<first, now>>)
             addrs == waiting.prefetched_addrs_ \cup {first}
  <2>2. made = [waiting EXCEPT !.prefetched_addrs_ = addrs, !.issued = issued]
    BY <1>13 DEF Arbiter
  <2>3. issued \in Seq(Addr \X Nat) /\ addrs \in SUBSET Addr
    BY <1>2, <1>13, <2>1
  <2>4. /\ \A j \in DOMAIN issued :
              \/ j \in DOMAIN a.issued /\ issued[j] = a.issued[j]
              \/ j = Len(a.issued) + 1 /\ issued[j] = <<first, now>>
        /\ DOMAIN issued = 1 .. Len(a.issued) + 1 /\ DOMAIN a.issued = 1 .. Len(a.issued)
        /\ Len(a.issued) \in Nat
        /\ issued[Len(a.issued) + 1] = <<first, now>>
    BY <1>2, <1>13
  <2> HIDE DEF issued, addrs, made
  <2>5. /\ made \in Arbiter
        /\ made.recent_prefetches_ = a.recent_prefetches_
        /\ made.recent_prefetch_addrs_ = a.recent_prefetch_addrs_
        /\ made.prefetch_queue_ = left /\ made.issued = issued
        /\ made.kPrefetchDelay = a.kPrefetchDelay /\ made.current_time_ = now
        /\ made.prefetched_addrs_ = addrs
    BY <1>13, <2>2, <2>3 DEF Arbiter
  <2>6. RecentAgree(made) /\ QueueWaits(made, now) /\ QueueIsSpaced(made)
    <3>1. RecentAgree(waiting) /\ QueueWaits(waiting, now) /\ QueueIsSpaced(waiting)
      BY <1>16 DEF Spaced
    <3>2. RecentAgree(made)
      BY <1>13, <2>5, <3>1 DEF RecentAgree
    <3>3. QueueWaits(made, now)
      BY <1>13, <2>5, <3>1 DEF QueueWaits
    <3>4. QueueIsSpaced(made)
      BY <1>13, <2>5, <3>1 DEF QueueIsSpaced
    <3> QED
      BY <3>2, <3>3, <3>4
  <2>7. QueueFollows(made)
    <3>1. ASSUME NEW i \in DOMAIN left, NEW j \in DOMAIN issued, left[i].addr = issued[j][1]
          PROVE  issued[j][2] + kPrefetchRepeatFrequency <= left[i].time
      <4>1. CASE j \in DOMAIN a.issued /\ issued[j] = a.issued[j]
        BY <1>13, <1>16, <3>1, <4>1 DEF Spaced, QueueFollows
      <4>2. CASE issued[j] = <<first, now>>
        <5>1. /\ m[i] \in DOMAIN queue /\ left[i] = queue[m[i]] /\ m[i] # index
              /\ queue[m[i]].addr = queue[index].addr
          BY <1>7, <1>12, <1>20, <3>1, <4>2
        <5>2. \/ queue[m[i]].time + kPrefetchRepeatFrequency <= queue[index].time
              \/ queue[index].time + kPrefetchRepeatFrequency <= queue[m[i]].time
          BY <1>4, <2>1, <5>1 DEF QueueIsSpaced
        <5>3. now < queue[m[i]].time /\ queue[m[i]].time \in Nat
          BY <1>2, <1>8, <5>1
        <5>4. issued[j][2] = now
          BY <4>2
        <5>5. now + kPrefetchRepeatFrequency <= queue[m[i]].time
          BY <1>2, <2>1, <5>2, <5>3
        <5> QED
          BY <5>1, <5>4, <5>5
      <4> QED
        BY <2>4, <3>1, <4>1, <4>2
    <3> QED
      BY <2>5, <3>1 DEF QueueFollows
  <2>8. IssuedAreSpaced(made)
    <3>1. ASSUME NEW i \in DOMAIN issued, NEW j \in DOMAIN issued, i < j,
                 issued[i][1] = issued[j][1]
          PROVE  issued[i][2] + kPrefetchRepeatFrequency <= issued[j][2]
      <4>1. i \in DOMAIN a.issued /\ issued[i] = a.issued[i]
        BY <2>4, <3>1
      <4>2. CASE j \in DOMAIN a.issued /\ issued[j] = a.issued[j]
        BY <1>4, <3>1, <4>1, <4>2 DEF IssuedAreSpaced
      <4>3. CASE issued[j] = <<first, now>>
        BY <1>4, <2>1, <3>1, <4>1, <4>3 DEF QueueFollows
      <4> QED
        BY <2>4, <3>1, <4>2, <4>3
    <3> QED
      BY <2>5, <3>1 DEF IssuedAreSpaced
  <2>9. IssuedBy(made, now)
    <3>1. \A j \in DOMAIN issued : issued[j][2] <= now
      <4>1. \A j \in DOMAIN a.issued : a.issued[j][2] <= now
        BY <1>2, <1>4 DEF IssuedBy
      <4>2. now <= now /\ <<first, now>>[2] = now
        BY <1>2
      <4> QED
        BY <2>4, <4>1, <4>2
    <3> QED
      BY <2>5, <3>1 DEF IssuedBy
  <2>10. AllRemembered(made)
    <3>1. \A addr, time : Remembered(a, addr, time) <=> Remembered(made, addr, time)
      BY <2>5 DEF Remembered
    <3>2. \A j \in DOMAIN issued : Remembered(made, issued[j][1], issued[j][2])
      <4> SUFFICES ASSUME NEW j \in DOMAIN issued
                   PROVE  Remembered(made, issued[j][1], issued[j][2])
        OBVIOUS
      <4>1. CASE j \in DOMAIN a.issued /\ issued[j] = a.issued[j]
        BY <1>4, <3>1, <4>1 DEF AllRemembered
      <4>2. CASE issued[j] = <<first, now>>
        <5>1. Remembered(a, first, now)
          BY <1>4, <2>1 DEF AllRemembered
        <5>2. issued[j][1] = first /\ issued[j][2] = now
          BY <4>2
        <5> QED
          BY <3>1, <5>1, <5>2
      <4> QED
        BY <2>4, <4>1, <4>2
    <3>3. \A i \in DOMAIN left : Remembered(made, left[i].addr, left[i].time)
      BY <1>4, <1>7, <3>1 DEF AllRemembered
    <3> QED
      BY <2>5, <3>2, <3>3 DEF AllRemembered
  <2>11. made \in SpacedArbiter
    BY <2>5, <2>6, <2>7, <2>8, <2>9, <2>10 DEF SpacedArbiter, Spaced
  <2>12. Requested(made) = {first}
    <3>1. ToSet(issued) = ToSet(a.issued) \cup {<<first, now>>}
      <4>1. ToSet(issued) = {issued[j] : j \in DOMAIN issued}
            /\ ToSet(a.issued) = {a.issued[j] : j \in DOMAIN a.issued}
        BY DEF ToSet
      <4>2. \A j \in DOMAIN a.issued : j \in DOMAIN issued /\ issued[j] = a.issued[j]
        BY <1>2, <1>13, <2>4 DEF issued
      <4>3. Len(a.issued) + 1 \in DOMAIN issued
        BY <2>4
      <4>4. ToSet(issued) \subseteq ToSet(a.issued) \cup {<<first, now>>}
        BY <2>4, <4>1
      <4>5. ToSet(a.issued) \cup {<<first, now>>} \subseteq ToSet(issued)
        BY <2>4, <4>1, <4>2, <4>3
      <4> QED
        BY <4>4, <4>5
    <3>2. \A q \in ToSet(a.issued) : q[2] # now
      <4>1. \A j \in DOMAIN a.issued : a.issued[j][2] # now
        BY <1>2, <1>4 DEF IssuedBy
      <4> QED
        BY <4>1 DEF ToSet
    <3>3. {q \in ToSet(issued) : q[2] = now} = {<<first, now>>}
      BY <3>1, <3>2
    <3>4. Requested(made) = {r[1] : r \in {q \in ToSet(issued) : q[2] = now}}
      BY <2>5 DEF Requested
    <3>5. {r[1] : r \in {<<first, now>>}} = {first}
      OBVIOUS
    <3> QED
      BY <3>3, <3>4, <3>5
  <2> QED
    BY <1>3, <1>13, <1>20, <2>1, <2>5, <2>11, <2>12 DEF addrs
<1> QED
  BY <1>19, <1>20

\* An access makes the arbiter prefetch no block or one, and takes its own block from the
\* prefetched ones.
LEMMA ArbiterAccessEffect ==
  ASSUME NEW a \in SpacedArbiter, NEW addr \in Int, NEW PC \in Int, NEW dist, NEW write
  PROVE  LET b == ArbiterAccess(a, addr, PC, dist, write) IN
         /\ b \in SpacedArbiter
         /\ Requested(b) \in SUBSET Addr /\ \A x, y \in Requested(b) : x = y
         /\ b.prefetched_addrs_ = (a.prefetched_addrs_ \ {addr}) \cup Requested(b)
<1> DEFINE erased == {r \in ToSet(a.prefetch_queue_) : r.addr = addr}
           left == Without(a.prefetch_queue_, erased)
           timed == [a EXCEPT !.current_time_ = @ + 1, !.prefetch_queue_ = left,
                              !.prefetched_addrs_ = @ \ {addr}]
           busy == Turns(timed, a.prefetchers_, addr, PC, dist, write)
<1>1. a \in Arbiter /\ Spaced(a, a.current_time_)
  BY DEF SpacedArbiter
<1>2. /\ a.current_time_ \in Nat /\ a.prefetched_addrs_ \in SUBSET Addr
      /\ a.prefetch_queue_ \in Seq(Request) /\ a.prefetchers_ \in Seq(Prefetcher)
  BY <1>1, ArbiterFields
<1>3. left \in Seq(Request)
  BY <1>2, WithoutEffect
<1>4. left = Without(a.prefetch_queue_, erased)
  OBVIOUS
<1> HIDE DEF left
<1> DEFINE time == a.current_time_ + 1
           addrs == a.prefetched_addrs_ \ {addr}
<1>5. timed = [a EXCEPT !.current_time_ = time, !.prefetch_queue_ = left,
                        !.prefetched_addrs_ = addrs]
  BY <1>1 DEF Arbiter
<1>6. time \in Nat /\ addrs \in SUBSET Addr /\ time - 1 = a.current_time_ /\ time > 0
  BY <1>2
<1>7. ArbiterAccess(a, addr, PC, dist, write) = GetRequestOutput(busy)
  BY <1>4 DEF ArbiterAccess, Turns
<1> HIDE DEF time, timed, busy
<1>8. /\ timed \in Arbiter /\ timed.current_time_ = time /\ timed.prefetched_addrs_ = addrs
      /\ timed.prefetch_queue_ = left /\ timed.recent_prefetches_ = a.recent_prefetches_
      /\ timed.recent_prefetch_addrs_ = a.recent_prefetch_addrs_ /\ timed.issued = a.issued
      /\ timed.kPrefetchDelay = a.kPrefetchDelay /\ timed.prefetchers_ = a.prefetchers_
  BY <1>1, <1>3, <1>5, <1>6 DEF Arbiter
<1>9. Spaced(timed, a.current_time_)
  <2>1. timed.current_time_ >= a.current_time_
    BY <1>2, <1>6, <1>8
  <2>2. timed.prefetch_queue_ = Without(a.prefetch_queue_, erased) /\ a.current_time_ \in Int
    BY <1>2, <1>4, <1>8
  <2> HIDE DEF erased
  <2> QED
    BY <1>1, <1>8, <2>1, <2>2, FewerRequests
<1>10. timed \in BusyArbiter
  BY <1>6, <1>8, <1>9 DEF BusyArbiter
<1>11. busy \in Midway(timed)
  BY <1>2, <1>8, <1>10, TurnsKeepSpaced DEF busy
<1>12. busy \in BusyArbiter /\ busy.prefetched_addrs_ = addrs
  BY <1>8, <1>11 DEF Midway
<1> QED
  BY <1>7, <1>12, OutputIsSpaced

\* Arbiters are spaced as PrefetchesAreSpaced has it.
LEMMA SpacedArbiters ==
  ASSUME NEW a \in SpacedArbiter
  PROVE  /\ \A i, j \in DOMAIN a.issued :
              i < j /\ a.issued[i][1] = a.issued[j][1]
                => a.issued[j][2] - a.issued[i][2] >= kPrefetchRepeatFrequency
         /\ a.recent_prefetch_addrs_ = {r.addr : r \in ToSet(a.recent_prefetches_)}
         /\ Cardinality(a.recent_prefetch_addrs_) = Len(a.recent_prefetches_)
<1> DEFINE recent == a.recent_prefetches_
           addrs == a.recent_prefetch_addrs_
<1>1. a \in Arbiter /\ IssuedAreSpaced(a) /\ RecentAgree(a)
  BY DEF SpacedArbiter, Spaced
<1>2. /\ kPrefetchRepeatFrequency \in Nat /\ recent \in Seq(RecentPrefetch)
      /\ \A i \in DOMAIN a.issued : a.issued[i][2] \in Nat
  BY <1>1, ArbiterFields, PrefetcherAssumption
<1>3. \A i, j \in DOMAIN a.issued :
        i < j /\ a.issued[i][1] = a.issued[j][1]
          => a.issued[j][2] - a.issued[i][2] >= kPrefetchRepeatFrequency
  BY <1>1, <1>2 DEF IssuedAreSpaced
<1>4. addrs = {r.addr : r \in ToSet(recent)}
  BY <1>1 DEF RecentAgree
<1>5. \A i, j \in DOMAIN recent : recent[i].addr = recent[j].addr => i = j
  BY <1>1 DEF RecentAgree
<1>6. Cardinality(addrs) = Len(recent)
  <2>1. Len(recent) \in Nat /\ DOMAIN recent = 1 .. Len(recent)
    BY <1>2
  <2> DEFINE f == [i \in 1 .. Len(recent) |-> recent[i].addr]
  <2>2. addrs = {recent[i].addr : i \in 1 .. Len(recent)}
    BY <1>4, <2>1 DEF ToSet
  <2>3. f \in Bijection(1 .. Len(recent), addrs)
    <3>1. f \in [1 .. Len(recent) -> addrs]
      BY <2>2
    <3>2. \A i, j \in 1 .. Len(recent) : f[i] = f[j] => i = j
      BY <1>5, <2>1
    <3>3. \A x \in addrs : \E i \in 1 .. Len(recent) : f[i] = x
      BY <2>2
    <3> HIDE DEF f
    <3> QED
      BY <3>1, <3>2, <3>3 DEF Bijection, Injection, Surjection, IsInjective
  <2>4. IsFiniteSet(1 .. Len(recent)) /\ Cardinality(1 .. Len(recent)) = Len(recent)
    <3>1. 1 \in Int /\ Len(recent) \in Int
      BY <2>1
    <3>2. /\ IsFiniteSet(1 .. Len(recent))
          /\ Cardinality(1 .. Len(recent)) = IF 1 > Len(recent) THEN 0 ELSE Len(recent) - 1 + 1
      BY <3>1, FS_Interval
    <3> QED
      BY <2>1, <3>2
  <2> HIDE DEF f, recent, addrs
  <2>5. ExistsBijection(1 .. Len(recent), addrs)
    BY <2>3 DEF ExistsBijection
  <2>6. Cardinality(addrs) = Cardinality(1 .. Len(recent))
    BY <2>3, <2>4, <2>5, FS_Bijection
  <2> QED
    BY <2>4, <2>6
<1> QED
  BY <1>3, <1>4, <1>6

-----------------------------------------------------------------------------
(* Sums                                                                    *)

\* The sums of this function over the subsets of a set.
IsSum(f, T, h) ==
  /\ f \in [SUBSET T -> Nat]
  /\ f[{}] = 0
  /\ \A u \in SUBSET T : \A x \in u : f[u] = h[x] + f[u \ {x}]

\* A sum does not depend on the order in which its members are taken.
LEMMA SumExists ==
  ASSUME NEW T, IsFiniteSet(T), NEW h, \A x \in T : h[x] \in Nat
  PROVE  \E f : IsSum(f, T, h) /\ SumFunctionOnSet(h, T) = f[T]
<1> DEFINE choice(u) == CHOOSE x \in u : TRUE
           Body(f) == [u \in SUBSET T |->
                         IF u = {} THEN 0 ELSE h[choice(u)] + f[u \ {choice(u)}]]
           iter == CHOOSE f : f = Body(f)
<1>1. SumFunctionOnSet(h, T) = iter[T]
  BY DEF SumFunctionOnSet, FoldFunctionOnSet, MapThenFoldSet
<1>2. \A u : u # {} => choice(u) \in u
  OBVIOUS
<1> HIDE DEF choice
<1>3. iter = Body(iter)
  <2> DEFINE step == [x \in T \X Nat |-> h[x[1]] + x[2]]
             pick == [u \in SUBSET T |-> choice(u)]
  <2>1. \A x \in T, r \in Nat : step[<<x, r>>] = h[x] + r
    OBVIOUS
  <2>2. \A x \in T, r \in Nat : step[<<x, r>>] \in Nat
    <3>1. \A n, r \in Nat : n + r \in Nat
      OBVIOUS
    <3> HIDE DEF step
    <3> QED
      BY <2>1, <3>1
  <2>3. \A u \in SUBSET T : pick[u] = choice(u)
    OBVIOUS
  <2>4. \A u \in SUBSET T : u # {} => pick[u] \in u
    BY <1>2, <2>3
  <2> HIDE DEF step, pick
  <2>5. PICK f : IsFold(f, T, Nat, 0, step, pick)
    BY <2>2, <2>4, FoldExists
  <2>6. ASSUME NEW u \in SUBSET T
        PROVE  f[u] = IF u = {} THEN 0 ELSE h[choice(u)] + f[u \ {choice(u)}]
    <3>1. CASE u = {}
      BY <2>5, <3>1 DEF IsFold
    <3>2. CASE u # {}
      <4>1. choice(u) \in T /\ u \ {choice(u)} \in SUBSET T
        BY <1>2, <3>2
      <4>2. f[u \ {choice(u)}] \in Nat
        BY <2>5, <4>1 DEF IsFold
      <4>3. f[u] = step[<<choice(u), f[u \ {choice(u)}]>>]
        BY <2>3, <2>5, <3>2 DEF IsFold
      <4> QED
        BY <2>1, <3>2, <4>1, <4>2, <4>3
    <3> QED
      BY <3>1, <3>2
  <2>7. f = Body(f)
    <3>1. f \in [SUBSET T -> Nat]
      BY <2>5 DEF IsFold
    <3> QED
      BY <2>6, <3>1
  <2> HIDE DEF Body
  <2> QED
    BY <2>7
<1> HIDE DEF iter
<1>4. \A u \in SUBSET T : iter[u] = IF u = {} THEN 0 ELSE h[choice(u)] + iter[u \ {choice(u)}]
  BY <1>3
<1>5. \A u \in SUBSET T : IsFiniteSet(u) /\ Cardinality(u) \in Nat
  BY FS_Subset, FS_CardinalityType
<1> DEFINE Free(u) == iter[u] \in Nat /\ \A x \in u : iter[u] = h[x] + iter[u \ {x}]
           Good == {n \in Nat : \A u \in SUBSET T : Cardinality(u) <= n => Free(u)}
<1>6. Free({})
  <2>1. iter[{}] = 0
    BY <1>4
  <2> QED
    BY <2>1
<1>7. 0 \in Good
  <2>1. \A u \in SUBSET T : Cardinality(u) <= 0 => u = {}
    BY <1>5, FS_EmptySet
  <2> HIDE DEF Free
  <2> QED
    BY <1>6, <2>1
<1>8. ASSUME NEW n \in Nat, n \in Good PROVE n + 1 \in Good
  <2> SUFFICES ASSUME NEW u \in SUBSET T, Cardinality(u) <= n + 1 PROVE Free(u)
    BY <1>8
  <2>1. CASE u = {}
    BY <1>6, <2>1
  <2>2. CASE u # {}
    <3> DEFINE p == choice(u)
    <3>1. p \in u /\ p \in T /\ iter[u] = h[p] + iter[u \ {p}]
      BY <1>2, <1>4, <2>2
    <3> HIDE DEF p
    <3>2. ASSUME NEW x \in u PROVE Free(u \ {x})
      <4>1. Cardinality(u \ {x}) = Cardinality(u) - 1
        BY <1>5, FS_RemoveElement
      <4>2. Cardinality(u \ {x}) <= n
        BY <1>5, <4>1
      <4> QED
        BY <1>8, <4>2
    <3>3. iter[u \ {p}] \in Nat
      BY <3>1, <3>2
    <3>4. iter[u] \in Nat
      BY <3>1, <3>3
    <3>5. ASSUME NEW x \in u, x # p PROVE iter[u] = h[x] + iter[u \ {x}]
      <4>1. x \in u \ {p} /\ p \in u \ {x} /\ (u \ {p}) \ {x} = (u \ {x}) \ {p}
        BY <3>1, <3>5
      <4>2. iter[u \ {p}] = h[x] + iter[(u \ {p}) \ {x}]
        BY <3>1, <3>2, <4>1
      <4>3. iter[u \ {x}] = h[p] + iter[(u \ {x}) \ {p}]
        BY <3>2, <4>1
      <4>4. iter[(u \ {p}) \ {x}] \in Nat
        <5>1. (u \ {p}) \ {x} \in SUBSET T
          OBVIOUS
        <5>2. Cardinality((u \ {p}) \ {x}) <= n
          <6>1. u \ {p} \in SUBSET T
            OBVIOUS
          <6>2. Cardinality(u \ {p}) = Cardinality(u) - 1
            BY <1>5, <3>1, FS_RemoveElement
          <6>3. Cardinality((u \ {p}) \ {x}) = Cardinality(u \ {p}) - 1
            BY <1>5, <4>1, <6>1, FS_RemoveElement
          <6> QED
            BY <1>5, <6>2, <6>3
        <5> QED
          BY <1>8, <5>1, <5>2
      <4>5. h[x] \in Nat /\ h[p] \in Nat
        BY <3>1
      <4>6. \A a, b, r \in Nat : a + (b + r) = b + (a + r)
        OBVIOUS
      <4> QED
        BY <3>1, <4>1, <4>2, <4>3, <4>4, <4>5, <4>6
    <3> QED
      BY <3>1, <3>4, <3>5
  <2> QED
    BY <2>1, <2>2
<1> HIDE DEF Good
<1>9. Cardinality(T) \in Good
  BY <1>5, <1>7, <1>8, Successors
<1>10. \A u \in SUBSET T : Cardinality(u) <= Cardinality(T)
  BY FS_Subset
<1>11. \A u \in SUBSET T : Free(u)
  BY <1>9, <1>10 DEF Good
<1>12. IsSum(iter, T, h)
  <2>1. iter \in [SUBSET T -> Nat]
    BY <1>3, <1>11
  <2> QED
    BY <1>4, <1>11, <2>1 DEF IsSum
<1> QED
  BY <1>1, <1>12

\* Sums of the same members are the same.
LEMMA SumsAgree ==
  ASSUME NEW T, NEW f, NEW h, IsSum(f, T, h), NEW U, NEW g, NEW k, IsSum(g, U, k),
         NEW u \in SUBSET T, u \subseteq U, IsFiniteSet(u), \A x \in u : h[x] = k[x]
  PROVE  f[u] = g[u]
<1> DEFINE Good == {v \in SUBSET u : f[v] = g[v]}
<1>1. {} \in Good
  BY DEF IsSum
<1>2. ASSUME NEW v \in SUBSET u, v # {}
      PROVE  \E x \in v : v \ {x} \in Good => v \in Good
  <2>1. PICK x \in v : TRUE
    BY <1>2
  <2>2. v \in SUBSET T /\ v \in SUBSET U
    OBVIOUS
  <2>3. f[v] = h[x] + f[v \ {x}] /\ g[v] = k[x] + g[v \ {x}]
    BY <2>1, <2>2 DEF IsSum
  <2> QED
    BY <2>1, <2>3
<1> HIDE DEF Good
<1>3. u \in Good
  BY <1>1, <1>2, Members
<1> QED
  BY <1>3 DEF Good

LEMMA SumOfNothing == \A h : SumFunctionOnSet(h, {}) = 0
<1> SUFFICES ASSUME NEW h PROVE SumFunctionOnSet(h, {}) = 0
  OBVIOUS
<1>1. PICK f : IsSum(f, {}, h) /\ SumFunctionOnSet(h, {}) = f[{}]
  BY SumExists, FS_EmptySet
<1> QED
  BY <1>1 DEF IsSum

\* One more member.
LEMMA SumWith ==
  ASSUME NEW T, IsFiniteSet(T), NEW h, NEW x, x \notin T, NEW k,
         \A y \in T : h[y] \in Nat /\ k[y] = h[y], k[x] \in Nat
  PROVE  /\ SumFunctionOnSet(h, T) \in Nat
         /\ SumFunctionOnSet(k, T \cup {x}) = k[x] + SumFunctionOnSet(h, T)
<1> DEFINE U == T \cup {x}
<1>1. IsFiniteSet(U)
  BY FS_AddElement
<1>2. PICK f : IsSum(f, T, h) /\ SumFunctionOnSet(h, T) = f[T]
  BY SumExists
<1>3. \A y \in U : k[y] \in Nat
  OBVIOUS
<1>4. U \ {x} = T
  OBVIOUS
<1> HIDE DEF U
<1>5. PICK g : IsSum(g, U, k) /\ SumFunctionOnSet(k, U) = g[U]
  BY <1>1, <1>3, SumExists
<1>6. x \in U /\ T \subseteq U
  BY DEF U
<1>7. g[U] = k[x] + g[T]
  BY <1>4, <1>5, <1>6 DEF IsSum
<1>8. f[T] = g[T]
  BY <1>2, <1>5, <1>6, SumsAgree
<1>9. f[T] \in Nat
  BY <1>2 DEF IsSum
<1> QED
  BY <1>2, <1>5, <1>7, <1>8, <1>9 DEF U

\* One member is greater by one.
LEMMA SumWithOneMore ==
  ASSUME NEW T, IsFiniteSet(T), NEW h, \A y \in T : h[y] \in Nat, NEW x, NEW k,
         \A y \in T \ {x} : k[y] = h[y],
         k[x] = (IF x \in T THEN h[x] ELSE 0) + 1
  PROVE  SumFunctionOnSet(k, T \cup {x}) = SumFunctionOnSet(h, T) + 1
<1> DEFINE V == T \ {x}
<1>1. IsFiniteSet(V)
  BY FS_Subset
<1>2. k[x] \in Nat
  OBVIOUS
<1>3. V \cup {x} = T \cup {x} /\ x \notin V /\ (x \in T => V \cup {x} = T) /\ (x \notin T => V = T)
  OBVIOUS
<1>4. \A y \in V : h[y] \in Nat /\ k[y] = h[y]
  OBVIOUS
<1> HIDE DEF V
<1>5. /\ SumFunctionOnSet(h, V) \in Nat
      /\ SumFunctionOnSet(k, V \cup {x}) = k[x] + SumFunctionOnSet(h, V)
  BY <1>1, <1>2, <1>3, <1>4, SumWith
<1>6. CASE x \in T
  <2>1. SumFunctionOnSet(h, V \cup {x}) = h[x] + SumFunctionOnSet(h, V)
    <3>1. h[x] \in Nat /\ \A y \in V : h[y] \in Nat /\ h[y] = h[y]
      BY <1>4, <1>6
    <3> QED
      BY <1>1, <1>3, <3>1, SumWith
  <2>2. h[x] \in Nat /\ k[x] = h[x] + 1
    BY <1>6
  <2>3. \A n, r \in Nat : (n + 1) + r = (n + r) + 1
    OBVIOUS
  <2>4. V \cup {x} = T /\ T \cup {x} = T
    BY <1>3, <1>6
  <2>5. SumFunctionOnSet(k, T) = (h[x] + 1) + SumFunctionOnSet(h, V)
    BY <1>5, <2>2, <2>4
  <2>6. SumFunctionOnSet(h, T) = h[x] + SumFunctionOnSet(h, V)
    BY <2>1, <2>4
  <2>7. SumFunctionOnSet(k, T) = SumFunctionOnSet(h, T) + 1
    BY <1>5, <2>2, <2>3, <2>5, <2>6
  <2> QED
    BY <2>4, <2>7
<1>7. CASE x \notin T
  BY <1>3, <1>5, <1>7
<1> QED
  BY <1>6, <1>7

\* Of a list of numbers, with one appended.
LEMMA SumAppended ==
  ASSUME NEW q \in Seq(Nat), NEW x \in Nat
  PROVE  /\ SumFunction(q) \in Nat
         /\ SumFunction(Append(q, x)) = SumFunction(q) + x
<1> DEFINE p == Append(q, x)
           m == Len(q) + 1
           u == DOMAIN q
<1>1. /\ Len(q) \in Nat /\ u = 1 .. Len(q) /\ DOMAIN p = u \cup {m} /\ m \notin u
      /\ p[m] = x
  OBVIOUS
<1>2. \A y \in u : q[y] \in Nat /\ p[y] = q[y]
  OBVIOUS
<1>3. IsFiniteSet(u)
  BY <1>1, PickMax
<1>4. SumFunction(q) = SumFunctionOnSet(q, u) /\ SumFunction(p) = SumFunctionOnSet(p, DOMAIN p)
  BY DEF SumFunction
<1> HIDE DEF p, m, u
<1>5. m \notin u /\ p[m] \in Nat
  BY <1>1
<1>6. /\ SumFunctionOnSet(q, u) \in Nat
      /\ SumFunctionOnSet(p, u \cup {m}) = p[m] + SumFunctionOnSet(q, u)
  BY <1>2, <1>3, <1>5, SumWith
<1>7. SumFunction(p) = SumFunction(q) + x
  BY <1>1, <1>4, <1>6
<1> QED
  BY <1>4, <1>6, <1>7 DEF p

-----------------------------------------------------------------------------
(* The statistics                                                          *)

Histograms == UNION {[D -> Nat] : D \in SUBSET {BucketOf(d, kHistogramDensity) : d \in Int}}
HitCounts == UNION {[D -> Int] : D \in SUBSET Nat}
HitLists == UNION {[D -> Seq(Int)] : D \in SUBSET Nat}

Stats ==
  [ sample_count_ : Nat, cold_miss_count_ : Nat, inval_miss_count_ : Nat, total_distance_ : Int,
    distance_histogram_ : Histograms, current_prediction_accesses_ : Nat,
    current_prediction_hits_ : HitCounts, ratio_predictions_ : HitLists,
    prediction_accesses_ : Seq(Nat) ]

LEMMA StatsFields ==
  ASSUME NEW s \in Stats
  PROVE  /\ s.sample_count_ \in Nat /\ s.cold_miss_count_ \in Nat /\ s.inval_miss_count_ \in Nat
         /\ s.total_distance_ \in Int /\ s.distance_histogram_ \in Histograms
         /\ s.current_prediction_accesses_ \in Nat /\ s.current_prediction_hits_ \in HitCounts
         /\ s.ratio_predictions_ \in HitLists /\ s.prediction_accesses_ \in Seq(Nat)
  BY DEF Stats

\* Every sample is a miss of its kind or in a bucket.
Counted(s) ==
  /\ IsFiniteSet(DOMAIN s.distance_histogram_)
  /\ s.sample_count_ = s.cold_miss_count_ + s.inval_miss_count_
                         + SumFunction(s.distance_histogram_)

\* A size has an entry for each of these periods, or for the last of them if it was added
\* later, and no more hits in any than there were accesses.
Aligned(s, periods, sizes) ==
  \A size \in DOMAIN s.current_prediction_hits_ :
    LET hits == HitsOf(s, size)
        late == Len(periods) - Len(hits)
    IN
    /\ late >= 0 /\ (size \in sizes => late = 0)
    /\ \A i \in DOMAIN hits : hits[i] <= periods[i + late]

NoHits(s) ==
  \A size \in DOMAIN s.current_prediction_hits_ : s.current_prediction_hits_[size] = 0

\* Between the updates, with the sizes it was made with ...
Between(s, sizes) ==
  /\ SumFunction(s.prediction_accesses_) + s.current_prediction_accesses_ = s.sample_count_
  /\ Aligned(s, s.prediction_accesses_, sizes)
  /\ \A size \in DOMAIN s.current_prediction_hits_ :
       s.current_prediction_hits_[size] <= s.current_prediction_accesses_

\* ... and between the steps of one.
AtPush(s, sizes) ==
  /\ SumFunction(s.prediction_accesses_) + s.current_prediction_accesses_ = s.sample_count_
  /\ Aligned(s, Append(s.prediction_accesses_, s.current_prediction_accesses_), sizes)
  /\ NoHits(s)

AtClear(s, sizes) ==
  /\ SumFunction(s.prediction_accesses_) = s.sample_count_
  /\ Aligned(s, s.prediction_accesses_, sizes)
  /\ NoHits(s)

\* Nothing of the samples has changed.
SameSamples(s, r) ==
  /\ r.sample_count_ = s.sample_count_
  /\ r.cold_miss_count_ = s.cold_miss_count_ /\ r.inval_miss_count_ = s.inval_miss_count_
  /\ r.distance_histogram_ = s.distance_histogram_

LEMMA StatsLists ==
  ASSUME NEW s \in Stats
  PROVE  /\ s.current_prediction_accesses_ \in Nat /\ s.prediction_accesses_ \in Seq(Nat)
         /\ SumFunction(s.prediction_accesses_) \in Nat
         /\ DOMAIN s.current_prediction_hits_ \subseteq Nat
         /\ \A size \in DOMAIN s.current_prediction_hits_ :
              s.current_prediction_hits_[size] \in Int
         /\ \A size : HitsOf(s, size) \in Seq(Int)
<1>1. PICK D \in SUBSET Nat : s.current_prediction_hits_ \in [D -> Int]
  BY StatsFields DEF HitCounts
<1>2. PICK E \in SUBSET Nat : s.ratio_predictions_ \in [E -> Seq(Int)]
  BY StatsFields DEF HitLists
<1>3. s.current_prediction_accesses_ \in Nat /\ s.prediction_accesses_ \in Seq(Nat)
  BY StatsFields
<1>4. SumFunction(s.prediction_accesses_) \in Nat
  BY <1>3, SumAppended
<1>5. \A size : HitsOf(s, size) \in Seq(Int)
  <2>1. <<>> \in Seq(Int)
    OBVIOUS
  <2> QED
    BY <1>2, <2>1 DEF HitsOf
<1> QED
  BY <1>1, <1>3, <1>4, <1>5

LEMMA NewStatsEffect ==
  ASSUME NEW sizes \in SUBSET Nat
  PROVE  LET s == SetRatioPredictionSizes(NewStats, sizes) IN
         /\ s \in Stats /\ s.current_prediction_accesses_ = 0
         /\ Counted(s) /\ s.cold_miss_count_ = 0 /\ s.inval_miss_count_ = 0
         /\ DOMAIN s.current_prediction_hits_ = sizes
         /\ Between(s, sizes)
<1>1. EmptyBag \in Histograms
  <2>1. {} \in SUBSET {BucketOf(d, kHistogramDensity) : d \in Int}
    OBVIOUS
  <2>2. EmptyBag \in [{} -> Nat]
    BY DEF EmptyBag, SetToBag
  <2> QED
    BY <2>1, <2>2, Zenon DEF Histograms
<1>2. <<>> \in HitCounts /\ <<>> \in HitLists /\ <<>> \in Seq(Nat)
  <2>1. <<>> \in [{} -> Int] /\ <<>> \in [{} -> Seq(Int)]
    OBVIOUS
  <2>2. {} \in SUBSET Nat /\ <<>> \in Seq(Nat)
    OBVIOUS
  <2>3. <<>> \in HitCounts
    BY <2>1, <2>2, Zenon DEF HitCounts
  <2>4. <<>> \in HitLists
    BY <2>1, <2>2, Zenon DEF HitLists
  <2> QED
    BY <2>2, <2>3, <2>4
<1> DEFINE hits == [size \in sizes |-> 0]
<1>3. hits \in HitCounts
  <2>1. hits \in [sizes -> Int]
    OBVIOUS
  <2> HIDE DEF hits
  <2> QED
    BY <2>1, Zenon DEF HitCounts
<1>4. /\ NewStats \in Stats /\ NewStats.current_prediction_accesses_ = 0
      /\ NewStats.sample_count_ = 0
      /\ NewStats.cold_miss_count_ = 0 /\ NewStats.inval_miss_count_ = 0
      /\ NewStats.distance_histogram_ = EmptyBag
      /\ NewStats.ratio_predictions_ = <<>> /\ NewStats.prediction_accesses_ = <<>>
  <2> HIDE DEF hits
  <2>1. 0 \in Nat /\ 0 \in Int
    OBVIOUS
  <2> QED
    BY <1>1, <1>2, <2>1 DEF NewStats, Stats
<1>5. SetRatioPredictionSizes(NewStats, sizes) = [NewStats EXCEPT !.current_prediction_hits_ = hits]
  BY DEF SetRatioPredictionSizes
<1>6. DOMAIN hits = sizes /\ \A size \in sizes : hits[size] = 0
  OBVIOUS
<1> DEFINE r == SetRatioPredictionSizes(NewStats, sizes)
<1> HIDE DEF hits
<1>7. /\ r \in Stats /\ r.current_prediction_accesses_ = 0
      /\ r.sample_count_ = 0 /\ r.cold_miss_count_ = 0 /\ r.inval_miss_count_ = 0
      /\ r.distance_histogram_ = EmptyBag /\ r.ratio_predictions_ = <<>>
      /\ r.prediction_accesses_ = <<>> /\ r.current_prediction_hits_ = hits
  BY <1>3, <1>4, <1>5 DEF Stats
<1> HIDE DEF r
<1>8. DOMAIN EmptyBag = {} /\ DOMAIN <<>> = {} /\ Len(<<>>) = 0
  BY DEF EmptyBag, SetToBag
<1>9. SumFunction(EmptyBag) = 0 /\ SumFunction(<<>>) = 0
  BY <1>8, SumOfNothing DEF SumFunction
<1>10. Counted(r)
  BY <1>7, <1>8, <1>9, FS_EmptySet DEF Counted
<1>11. Aligned(r, r.prediction_accesses_, sizes)
  <2>1. \A size : HitsOf(r, size) = <<>>
    BY <1>7, <1>8 DEF HitsOf
  <2> QED
    BY <1>7, <1>8, <2>1 DEF Aligned
<1>12. Between(r, sizes)
  <2>1. SumFunction(r.prediction_accesses_) = 0
    BY <1>7, <1>9
  <2>2. SumFunction(r.prediction_accesses_) + r.current_prediction_accesses_ = r.sample_count_
    BY <1>7, <2>1
  <2>3. \A size \in DOMAIN r.current_prediction_hits_ :
          r.current_prediction_hits_[size] <= r.current_prediction_accesses_
    BY <1>6, <1>7
  <2> QED
    BY <1>11, <2>2, <2>3 DEF Between
<1> QED
  BY <1>6, <1>7, <1>10, <1>12 DEF r

\* One more in this bucket.
Bumped(h, b) ==
  [e \in DOMAIN h \cup {b} |->
     (IF e \in DOMAIN h THEN h[e] ELSE 0) + (IF e \in {b} THEN 1 ELSE 0)]

\* What a sample leaves of the predictions.
SamePredictions(s, r) ==
  /\ r.current_prediction_accesses_ = s.current_prediction_accesses_
  /\ r.current_prediction_hits_ = s.current_prediction_hits_
  /\ r.ratio_predictions_ = s.ratio_predictions_
  /\ r.prediction_accesses_ = s.prediction_accesses_

LEMMA WithSampleEffect ==
  ASSUME NEW s \in Stats, NEW dist \in Int
  PROVE  LET r == WithSample(s, dist, kHistogramDensity) IN
         /\ r \in Stats /\ SamePredictions(s, r)
         /\ r.sample_count_ = s.sample_count_ + 1
         /\ r.cold_miss_count_ = s.cold_miss_count_ + Agrees(dist, kColdMiss)
         /\ r.inval_miss_count_ = s.inval_miss_count_ + Agrees(dist, kInvalidationMiss)
         /\ r.distance_histogram_ =
              IF dist = kColdMiss \/ dist = kInvalidationMiss THEN s.distance_histogram_
              ELSE Bumped(s.distance_histogram_, BucketOf(dist, kHistogramDensity))
<1> DEFINE count == s.sample_count_ + 1
           cold == s.cold_miss_count_ + 1
           inval == s.inval_miss_count_ + 1
           total == s.total_distance_ + dist
           bucket == BucketOf(dist, kHistogramDensity)
           histogram == s.distance_histogram_ (+) SetToBag({bucket})
           sampled == [s EXCEPT !.sample_count_ = count]
<1>1. count \in Nat /\ cold \in Nat /\ inval \in Nat /\ total \in Int
  BY StatsFields
<1>2. histogram \in Histograms /\ histogram = Bumped(s.distance_histogram_, bucket)
  <2> DEFINE all == {BucketOf(d, kHistogramDensity) : d \in Int}
             h == s.distance_histogram_
  <2>1. PICK D \in SUBSET all : h \in [D -> Nat]
    BY StatsFields DEF Histograms
  <2>2. bucket \in all
    OBVIOUS
  <2> HIDE DEF all, bucket, h
  <2>3. D \cup {bucket} \in SUBSET all
    BY <2>1, <2>2
  <2> DEFINE H == [e \in D \cup {bucket} |->
                     (IF e \in D THEN h[e] ELSE 0) + (IF e \in {bucket} THEN 1 ELSE 0)]
  <2>4. histogram = H /\ Bumped(h, bucket) = H
    BY <2>1 DEF (+), SetToBag, Bumped, h
  <2>5. H \in [D \cup {bucket} -> Nat]
    <3>1. ASSUME NEW e \in D \cup {bucket} PROVE H[e] \in Nat
      <4>1. e \in D => h[e] \in Nat
        BY <2>1
      <4> QED
        BY <3>1, <4>1
    <3> QED
      BY <3>1
  <2> HIDE DEF H, histogram
  <2>6. histogram \in [D \cup {bucket} -> Nat]
    BY <2>4, <2>5
  <2>7. histogram \in Histograms
    BY <2>3, <2>6, Zenon DEF Histograms, all
  <2> QED
    BY <2>4, <2>7 DEF h
<1>3. sampled.total_distance_ = s.total_distance_ /\ sampled.cold_miss_count_ = s.cold_miss_count_
      /\ sampled.inval_miss_count_ = s.inval_miss_count_
      /\ sampled.distance_histogram_ = s.distance_histogram_
  BY DEF Stats
<1> DEFINE a == [sampled EXCEPT !.cold_miss_count_ = cold]
           b == [sampled EXCEPT !.inval_miss_count_ = inval]
           c == [sampled EXCEPT !.total_distance_ = total, !.distance_histogram_ = histogram]
<1> HIDE DEF count, cold, inval, total, histogram
<1>4. sampled \in Stats /\ sampled.sample_count_ = count /\ SamePredictions(s, sampled)
  BY <1>1 DEF Stats, SamePredictions
<1>5. WithSample(s, dist, kHistogramDensity)
        = IF dist = kColdMiss THEN a ELSE IF dist = kInvalidationMiss THEN b ELSE c
  <2>1. /\ a = [sampled EXCEPT !.cold_miss_count_ = @ + 1]
        /\ b = [sampled EXCEPT !.inval_miss_count_ = @ + 1]
        /\ c = [sampled EXCEPT !.total_distance_ = @ + dist,
                               !.distance_histogram_ = @ (+) SetToBag({bucket})]
    <3> HIDE DEF sampled
    <3>1. /\ sampled.cold_miss_count_ + 1 = cold /\ sampled.inval_miss_count_ + 1 = inval
          /\ sampled.total_distance_ + dist = total
          /\ sampled.distance_histogram_ (+) SetToBag({bucket}) = histogram
      BY <1>3 DEF cold, inval, total, histogram
    <3>2. DOMAIN sampled = DOMAIN [NewStats EXCEPT !.sample_count_ = 0]
      BY <1>4 DEF Stats, NewStats
    <3> HIDE DEF bucket
    <3>3. a = [sampled EXCEPT !.cold_miss_count_ = @ + 1]
      BY <1>4, <3>1 DEF Stats
    <3>4. b = [sampled EXCEPT !.inval_miss_count_ = @ + 1]
      BY <1>4, <3>1 DEF Stats
    <3>5. c = [sampled EXCEPT !.total_distance_ = @ + dist,
                              !.distance_histogram_ = @ (+) SetToBag({bucket})]
      BY <1>4, <3>1 DEF Stats
    <3> QED
      BY <3>3, <3>4, <3>5
  <2> QED
    BY <2>1 DEF WithSample, count
<1> HIDE DEF sampled
<1> DEFINE base(r) == /\ r \in Stats /\ SamePredictions(sampled, r)
                      /\ r.sample_count_ = sampled.sample_count_
<1>6. /\ base(a) /\ a.cold_miss_count_ = cold /\ a.inval_miss_count_ = sampled.inval_miss_count_
      /\ a.distance_histogram_ = sampled.distance_histogram_
  BY <1>1, <1>4 DEF Stats, SamePredictions
<1>7. /\ base(b) /\ b.cold_miss_count_ = sampled.cold_miss_count_ /\ b.inval_miss_count_ = inval
      /\ b.distance_histogram_ = sampled.distance_histogram_
  BY <1>1, <1>4 DEF Stats, SamePredictions
<1>8. /\ base(c) /\ c.cold_miss_count_ = sampled.cold_miss_count_
      /\ c.inval_miss_count_ = sampled.inval_miss_count_ /\ c.distance_histogram_ = histogram
  BY <1>1, <1>2, <1>4 DEF Stats, SamePredictions
<1> HIDE DEF a, b, c
<1> DEFINE r == WithSample(s, dist, kHistogramDensity)
<1>9. base(r)
  BY <1>5, <1>6, <1>7, <1>8
<1>10. r \in Stats /\ SamePredictions(s, r) /\ r.sample_count_ = s.sample_count_ + 1
  BY <1>4, <1>9 DEF SamePredictions, count
<1>11. kColdMiss # kInvalidationMiss
  BY DEF kColdMiss, NotFound, kInvalidationMiss
<1>12. s.cold_miss_count_ \in Nat /\ s.inval_miss_count_ \in Nat
  BY StatsFields
<1>13. r.distance_histogram_ =
         IF dist = kColdMiss \/ dist = kInvalidationMiss THEN s.distance_histogram_
         ELSE Bumped(s.distance_histogram_, bucket)
  <2> HIDE DEF bucket
  <2> QED
    BY <1>2, <1>3, <1>5, <1>6, <1>7, <1>8
<1>14. /\ r.cold_miss_count_ = IF dist = kColdMiss THEN cold ELSE s.cold_miss_count_
       /\ r.inval_miss_count_ = IF dist = kInvalidationMiss THEN inval ELSE s.inval_miss_count_
  BY <1>3, <1>5, <1>6, <1>7, <1>8, <1>11
<1> HIDE DEF r
<1>15. /\ r.cold_miss_count_ = s.cold_miss_count_ + Agrees(dist, kColdMiss)
       /\ r.inval_miss_count_ = s.inval_miss_count_ + Agrees(dist, kInvalidationMiss)
  BY <1>12, <1>14 DEF Agrees, cold, inval
<1> QED
  BY <1>10, <1>13, <1>15 DEF r

LEMMA BumpedSum ==
  ASSUME NEW h \in Histograms, IsFiniteSet(DOMAIN h), NEW b
  PROVE  /\ IsFiniteSet(DOMAIN Bumped(h, b)) /\ SumFunction(h) \in Nat
         /\ SumFunction(Bumped(h, b)) = SumFunction(h) + 1
<1> DEFINE T == DOMAIN h
           k == Bumped(h, b)
<1>1. \A e \in T : h[e] \in Nat
  <2>1. PICK D : h \in [D -> Nat]
    BY Zenon DEF Histograms
  <2> QED
    BY <2>1
<1>2. /\ DOMAIN k = T \cup {b}
      /\ \A y \in T \ {b} : k[y] = h[y]
      /\ k[b] = (IF b \in T THEN h[b] ELSE 0) + 1
  <2>1. DOMAIN k = T \cup {b}
    BY DEF Bumped
  <2>2. \A y \in T \cup {b} : k[y] = (IF y \in T THEN h[y] ELSE 0) + (IF y \in {b} THEN 1 ELSE 0)
    BY DEF Bumped
  <2> HIDE DEF k, T
  <2>3. \A y \in T \ {b} : k[y] = h[y]
    <3> SUFFICES ASSUME NEW y \in T \ {b} PROVE k[y] = h[y]
      OBVIOUS
    <3>1. h[y] \in Nat /\ k[y] = h[y] + 0
      BY <1>1, <2>2
    <3> QED
      BY <3>1
  <2> QED
    BY <2>1, <2>2, <2>3
<1>3. SumFunction(h) = SumFunctionOnSet(h, T) /\ SumFunction(k) = SumFunctionOnSet(k, DOMAIN k)
  BY DEF SumFunction
<1>4. IsFiniteSet(T)
  OBVIOUS
<1> HIDE DEF T, k
<1>5. PICK f : IsSum(f, T, h) /\ SumFunctionOnSet(h, T) = f[T]
  BY <1>1, <1>4, SumExists
<1>6. SumFunctionOnSet(h, T) \in Nat
  BY <1>5 DEF IsSum
<1>7. IsFiniteSet(T \cup {b})
  BY <1>4, FS_AddElement
<1>8. SumFunctionOnSet(k, T \cup {b}) = SumFunctionOnSet(h, T) + 1
  BY <1>1, <1>2, <1>4, SumWithOneMore
<1> QED
  BY <1>2, <1>3, <1>6, <1>7, <1>8 DEF k

LEMMA WithSampleCounts ==
  ASSUME NEW s \in Stats, NEW dist \in Int, Counted(s)
  PROVE  Counted(WithSample(s, dist, kHistogramDensity))
<1> DEFINE r == WithSample(s, dist, kHistogramDensity)
           h == s.distance_histogram_
           b == BucketOf(dist, kHistogramDensity)
           sum(x) == SumFunction(x)
<1>1. /\ r.sample_count_ = s.sample_count_ + 1
      /\ r.cold_miss_count_ = s.cold_miss_count_ + Agrees(dist, kColdMiss)
      /\ r.inval_miss_count_ = s.inval_miss_count_ + Agrees(dist, kInvalidationMiss)
      /\ r.distance_histogram_ = IF dist = kColdMiss \/ dist = kInvalidationMiss THEN h
                                 ELSE Bumped(h, b)
  BY WithSampleEffect
<1>2. /\ s.sample_count_ \in Nat /\ s.cold_miss_count_ \in Nat /\ s.inval_miss_count_ \in Nat
      /\ h \in Histograms
  BY StatsFields
<1>3. IsFiniteSet(DOMAIN h)
      /\ s.sample_count_ = s.cold_miss_count_ + s.inval_miss_count_ + sum(h)
  BY DEF Counted
<1> HIDE DEF r, h, b, sum
<1>4. IsFiniteSet(DOMAIN Bumped(h, b)) /\ sum(h) \in Nat /\ sum(Bumped(h, b)) = sum(h) + 1
  BY <1>2, <1>3, BumpedSum DEF sum
<1>5. kColdMiss # kInvalidationMiss
  BY DEF kColdMiss, NotFound, kInvalidationMiss
<1>6. CASE dist = kColdMiss \/ dist = kInvalidationMiss
  <2>1. r.distance_histogram_ = h
    BY <1>1, <1>6
  <2>2. Agrees(dist, kColdMiss) + Agrees(dist, kInvalidationMiss) = 1
        /\ Agrees(dist, kColdMiss) \in Nat /\ Agrees(dist, kInvalidationMiss) \in Nat
    BY <1>5, <1>6 DEF Agrees
  <2>3. r.sample_count_ = r.cold_miss_count_ + r.inval_miss_count_ + sum(h)
    BY <1>1, <1>2, <1>3, <1>4, <2>2
  <2> QED
    BY <1>3, <2>1, <2>3 DEF Counted, sum, r
<1>7. CASE dist # kColdMiss /\ dist # kInvalidationMiss
  <2>1. r.distance_histogram_ = Bumped(h, b)
    BY <1>1, <1>7
  <2>2. Agrees(dist, kColdMiss) = 0 /\ Agrees(dist, kInvalidationMiss) = 0
    BY <1>7 DEF Agrees
  <2>3. r.sample_count_ = r.cold_miss_count_ + r.inval_miss_count_ + sum(Bumped(h, b))
    BY <1>1, <1>2, <1>3, <1>4, <2>2
  <2> QED
    BY <1>4, <2>1, <2>3 DEF Counted, sum, r
<1> QED
  BY <1>6, <1>7

LEMMA AddSampleEffect ==
  ASSUME NEW s \in Stats, NEW dist \in Int
  PROVE  LET r == AddSample(s, dist) IN
         /\ r \in Stats
         /\ r.sample_count_ = s.sample_count_ + 1
         /\ r.cold_miss_count_ = s.cold_miss_count_ + Agrees(dist, kColdMiss)
         /\ r.inval_miss_count_ = s.inval_miss_count_ + Agrees(dist, kInvalidationMiss)
         /\ Counted(s) => Counted(r)
         /\ r.current_prediction_accesses_ = s.current_prediction_accesses_ + 1
         /\ DOMAIN r.current_prediction_hits_ = DOMAIN s.current_prediction_hits_
         /\ \A size \in DOMAIN s.current_prediction_hits_ :
              r.current_prediction_hits_[size] <= s.current_prediction_hits_[size] + 1
         /\ r.ratio_predictions_ = s.ratio_predictions_
         /\ r.prediction_accesses_ = s.prediction_accesses_
<1> DEFINE w == WithSample(s, dist, kHistogramDensity)
           accesses == w.current_prediction_accesses_ + 1
           old == w.current_prediction_hits_
           hits == [size \in DOMAIN old |-> old[size] + IF IsHit(dist, size) THEN 1 ELSE 0]
<1>1. /\ w \in Stats /\ SamePredictions(s, w)
      /\ w.sample_count_ = s.sample_count_ + 1
      /\ w.cold_miss_count_ = s.cold_miss_count_ + Agrees(dist, kColdMiss)
      /\ w.inval_miss_count_ = s.inval_miss_count_ + Agrees(dist, kInvalidationMiss)
      /\ Counted(s) => Counted(w)
  BY WithSampleEffect, WithSampleCounts
<1> HIDE DEF w
<1>2. accesses \in Nat /\ old \in HitCounts
  BY <1>1, StatsFields
<1>3. /\ hits \in HitCounts /\ DOMAIN hits = DOMAIN old
      /\ \A size \in DOMAIN old : hits[size] <= old[size] + 1
  <2>1. PICK D \in SUBSET Nat : old \in [D -> Int]
    BY <1>2 DEF HitCounts
  <2> HIDE DEF old
  <2>2. hits \in [D -> Int]
    <3>1. DOMAIN old = D /\ \A size \in D : old[size] \in Int
      BY <2>1
    <3>2. \A size \in D : old[size] + (IF IsHit(dist, size) THEN 1 ELSE 0) \in Int
      BY <3>1
    <3> QED
      BY <3>1, <3>2
  <2>3. \A size \in D : hits[size] <= old[size] + 1
    <3>1. DOMAIN old = D /\ \A size \in D : old[size] \in Int
      BY <2>1
    <3>2. \A size \in D : hits[size] = old[size] + IF IsHit(dist, size) THEN 1 ELSE 0
      BY <3>1
    <3> HIDE DEF hits
    <3> QED
      BY <3>1, <3>2
  <2> HIDE DEF hits
  <2>4. hits \in HitCounts
    BY <2>1, <2>2, Zenon DEF HitCounts
  <2> QED
    BY <2>1, <2>2, <2>3, <2>4
<1>4. AddSample(s, dist) = [w EXCEPT !.current_prediction_accesses_ = accesses,
                                     !.current_prediction_hits_ = hits]
  BY <1>1 DEF AddSample, w, Stats
<1> DEFINE r == AddSample(s, dist)
<1> HIDE DEF accesses, hits
<1>5. /\ r \in Stats
      /\ r.sample_count_ = w.sample_count_ /\ r.cold_miss_count_ = w.cold_miss_count_
      /\ r.inval_miss_count_ = w.inval_miss_count_
      /\ r.distance_histogram_ = w.distance_histogram_
      /\ r.current_prediction_accesses_ = accesses /\ r.current_prediction_hits_ = hits
      /\ r.ratio_predictions_ = w.ratio_predictions_
      /\ r.prediction_accesses_ = w.prediction_accesses_
  BY <1>1, <1>2, <1>3, <1>4 DEF Stats
<1> HIDE DEF r, old
<1>6. Counted(s) => Counted(r)
  BY <1>1, <1>5 DEF Counted
<1>7. old = s.current_prediction_hits_ /\ accesses = s.current_prediction_accesses_ + 1
  BY <1>1 DEF SamePredictions, old, accesses
<1> QED
  BY <1>1, <1>3, <1>5, <1>6, <1>7 DEF SamePredictions, r

\* The samples of an access.
Samples(s, dists) == FoldLeft(AddSample, s, dists)

LEMMA SamplesFold ==
  ASSUME NEW s \in Stats, NEW dists \in Seq(Int)
  PROVE  /\ IsFiniteSet(DOMAIN dists)
         /\ \E f : /\ f[{}] = s
                   /\ \A u \in SUBSET DOMAIN dists : f[u] \in Stats
                   /\ \A u \in SUBSET DOMAIN dists : u # {} =>
                        /\ Max(u) \in u
                        /\ f[u] = AddSample(f[u \ {Max(u)}], dists[Max(u)])
                   /\ f[DOMAIN dists] = Samples(s, dists)
<1> DEFINE list == dists
           T == DOMAIN list
           R == Stats
           base == s
           next(r, x) == AddSample(r, x)
           Body(f) == [u \in SUBSET T |->
                         IF u = {} THEN base ELSE next(f[u \ {Max(u)}], list[Max(u)])]
           iter == CHOOSE f : f = Body(f)
<1>1. IsFiniteSet(T) /\ \A u \in SUBSET T : u # {} => Max(u) \in u
  <2>1. list \in Seq(Int)
    OBVIOUS
  <2> HIDE DEF list
  <2>2. Len(list) \in Nat /\ T = 1 .. Len(list)
    BY <2>1
  <2> QED
    BY <2>2, PickMax
<1>2. \A i \in T : list[i] \in Int
  OBVIOUS
<1>3. Samples(s, dists) = iter[T]
  BY DEF Samples, FoldLeft, MapThenFoldSet
<1> HIDE DEF T, list
<1>4. base \in R
  BY DEF R
<1>5. \A i \in T, r \in R : next(r, list[i]) \in R
  BY <1>2, AddSampleEffect
<1>6. iter = Body(iter)
  <2> HIDE DEF R, next, base
  <2> DEFINE step == [x \in T \X R |-> next(x[2], list[x[1]])]
             pick == [u \in SUBSET T |-> Max(u)]
  <2>1. \A x \in T, r \in R : step[<<x, r>>] = next(r, list[x])
    OBVIOUS
  <2>2. \A x \in T, r \in R : step[<<x, r>>] \in R
    BY <1>5, <2>1
  <2>3. \A u \in SUBSET T : pick[u] = Max(u)
    OBVIOUS
  <2>4. \A u \in SUBSET T : u # {} => pick[u] \in u
    BY <1>1, <2>3
  <2> HIDE DEF step, pick
  <2>5. PICK f : IsFold(f, T, R, base, step, pick)
    <3>1. IsFiniteSet(T)
      BY <1>1
    <3> QED
      BY <1>4, <2>2, <2>4, <3>1, FoldExists
  <2>6. ASSUME NEW u \in SUBSET T
        PROVE  f[u] = IF u = {} THEN base ELSE next(f[u \ {Max(u)}], list[Max(u)])
    <3>1. CASE u = {}
      BY <2>5, <3>1 DEF IsFold
    <3>2. CASE u # {}
      <4>1. Max(u) \in T /\ u \ {Max(u)} \in SUBSET T
        BY <1>1, <3>2
      <4>2. f[u \ {Max(u)}] \in R
        BY <2>5, <4>1 DEF IsFold
      <4>3. f[u] = step[<<Max(u), f[u \ {Max(u)}]>>]
        BY <2>3, <2>5, <3>2 DEF IsFold
      <4> QED
        BY <2>1, <3>2, <4>1, <4>2, <4>3
    <3> QED
      BY <3>1, <3>2
  <2>7. f = Body(f)
    <3>1. f \in [SUBSET T -> R]
      BY <2>5 DEF IsFold
    <3> QED
      BY <2>6, <3>1
  <2> HIDE DEF Body
  <2> QED
    BY <2>7
<1> HIDE DEF iter, R, next, base
<1>7. \A u \in SUBSET T :
        iter[u] = IF u = {} THEN base ELSE next(iter[u \ {Max(u)}], list[Max(u)])
  BY <1>6
<1> DEFINE Good == {u \in SUBSET T : iter[u] \in R}
<1>8. {} \in Good
  BY <1>4, <1>7
<1>9. ASSUME NEW u \in SUBSET T, u # {} PROVE \E x \in u : u \ {x} \in Good => u \in Good
  <2>1. Max(u) \in u /\ Max(u) \in T
    BY <1>1, <1>9
  <2>2. iter[u \ {Max(u)}] \in R => iter[u] \in R
    BY <1>5, <1>7, <1>9, <2>1
  <2> QED
    BY <2>1, <2>2
<1> HIDE DEF Good
<1>10. \A u \in SUBSET T : u \in Good
  <2> SUFFICES ASSUME NEW u \in SUBSET T PROVE u \in Good
    OBVIOUS
  <2>1. IsFiniteSet(u)
    BY <1>1, FS_Subset
  <2>2. \A v \in SUBSET u : v # {} => \E x \in v : v \ {x} \in Good => v \in Good
    BY <1>9
  <2> QED
    BY <1>8, <2>1, <2>2, Members
<1>11. \A u \in SUBSET T : iter[u] \in Stats
  BY <1>10 DEF Good, R
<1>12. iter[{}] = s
  BY <1>7 DEF base
<1>13. \A u \in SUBSET T : u # {} =>
         Max(u) \in u /\ iter[u] = AddSample(iter[u \ {Max(u)}], dists[Max(u)])
  BY <1>1, <1>7 DEF next, list
<1>14. iter[T] = Samples(s, dists)
  BY <1>3
<1>15. /\ iter[{}] = s
       /\ \A u \in SUBSET T : iter[u] \in Stats
       /\ \A u \in SUBSET T : u # {} =>
            Max(u) \in u /\ iter[u] = AddSample(iter[u \ {Max(u)}], dists[Max(u)])
       /\ iter[T] = Samples(s, dists)
  BY <1>11, <1>12, <1>13, <1>14
<1>16. T = DOMAIN dists
  BY DEF T, list
<1> QED
  BY <1>1, <1>15, <1>16

LEMMA AddSampleBetween ==
  ASSUME NEW s \in Stats, NEW dist \in Int, NEW sizes, Between(s, sizes)
  PROVE  Between(AddSample(s, dist), sizes)
<1> DEFINE r == AddSample(s, dist)
           hits == s.current_prediction_hits_
           sum == SumFunction(s.prediction_accesses_)
<1>1. /\ r \in Stats
      /\ r.sample_count_ = s.sample_count_ + 1
      /\ r.current_prediction_accesses_ = s.current_prediction_accesses_ + 1
      /\ DOMAIN r.current_prediction_hits_ = DOMAIN hits
      /\ \A size \in DOMAIN hits : r.current_prediction_hits_[size] <= hits[size] + 1
      /\ r.ratio_predictions_ = s.ratio_predictions_
      /\ r.prediction_accesses_ = s.prediction_accesses_
  BY AddSampleEffect
<1>2. /\ s.current_prediction_accesses_ \in Nat /\ s.prediction_accesses_ \in Seq(Nat)
      /\ \A size \in DOMAIN hits : hits[size] \in Int
      /\ \A size \in DOMAIN hits : r.current_prediction_hits_[size] \in Int
  <2>1. \A x \in Stats : \A size \in DOMAIN x.current_prediction_hits_ :
          x.current_prediction_hits_[size] \in Int
    <3> SUFFICES ASSUME NEW x \in Stats PROVE \A size \in DOMAIN x.current_prediction_hits_ :
                                                x.current_prediction_hits_[size] \in Int
      OBVIOUS
    <3>1. PICK D \in SUBSET Nat : x.current_prediction_hits_ \in [D -> Int]
      BY StatsFields DEF HitCounts
    <3> QED
      BY <3>1
  <2> QED
    BY <1>1, <2>1, StatsFields
<1>3. sum \in Nat
  BY <1>2, SumAppended
<1> HIDE DEF r
<1>4. \A size : HitsOf(r, size) = HitsOf(s, size)
  BY <1>1 DEF HitsOf
<1>5. Aligned(r, r.prediction_accesses_, sizes)
  BY <1>1, <1>4 DEF Between, Aligned
<1>6. sum + r.current_prediction_accesses_ = r.sample_count_
  <2>1. sum + s.current_prediction_accesses_ = s.sample_count_
    BY DEF Between
  <2> HIDE DEF sum
  <2> QED
    BY <1>1, <1>2, <1>3, <2>1
<1>7. ASSUME NEW size \in DOMAIN hits
      PROVE  r.current_prediction_hits_[size] <= r.current_prediction_accesses_
  <2>1. hits[size] <= s.current_prediction_accesses_
    BY <1>7 DEF Between
  <2>2. \A a, b, c \in Int : a <= b + 1 /\ b <= c => a <= c + 1
    OBVIOUS
  <2>3. /\ r.current_prediction_hits_[size] <= hits[size] + 1
        /\ r.current_prediction_hits_[size] \in Int /\ hits[size] \in Int
        /\ s.current_prediction_accesses_ \in Int
    BY <1>1, <1>2, <1>7
  <2> QED
    BY <1>1, <2>1, <2>2, <2>3
<1> QED
  BY <1>1, <1>5, <1>6, <1>7 DEF Between, r

\* What samples add.
LEMMA SamplesEffect ==
  ASSUME NEW s \in Stats, NEW dists \in Seq(Int)
  PROVE  LET r == Samples(s, dists) IN
         /\ r \in Stats
         /\ r.cold_miss_count_ = s.cold_miss_count_ + NumberOf(dists, kColdMiss)
         /\ r.inval_miss_count_ = s.inval_miss_count_ + NumberOf(dists, kInvalidationMiss)
         /\ Counted(s) => Counted(r)
         /\ DOMAIN r.current_prediction_hits_ = DOMAIN s.current_prediction_hits_
         /\ \A sizes : Between(s, sizes) => Between(r, sizes)
<1> DEFINE T == DOMAIN dists
<1>1. \A i \in T : dists[i] \in Int
  OBVIOUS
<1>2. IsFiniteSet(T)
  BY SamplesFold
<1>3. PICK iter : /\ iter[{}] = s
                  /\ \A u \in SUBSET T : iter[u] \in Stats
                  /\ \A u \in SUBSET T : u # {} =>
                       /\ Max(u) \in u
                       /\ iter[u] = AddSample(iter[u \ {Max(u)}], dists[Max(u)])
                  /\ iter[T] = Samples(s, dists)
  BY SamplesFold
<1> HIDE DEF T
<1> DEFINE With(u, r) ==
             /\ r.cold_miss_count_ = s.cold_miss_count_ + NumberIn(dists, u, kColdMiss)
             /\ r.inval_miss_count_ = s.inval_miss_count_ + NumberIn(dists, u, kInvalidationMiss)
             /\ Counted(s) => Counted(r)
             /\ DOMAIN r.current_prediction_hits_ = DOMAIN s.current_prediction_hits_
             /\ \A sizes : Between(s, sizes) => Between(r, sizes)
           Good == {u \in SUBSET T : With(u, iter[u])}
<1>4. s.cold_miss_count_ \in Nat /\ s.inval_miss_count_ \in Nat
  BY StatsFields
<1>5. {} \in Good
  <2>1. With({}, s)
    BY <1>4, NumberInNothing
  <2> QED
    BY <1>3, <2>1
<1>6. ASSUME NEW u \in SUBSET T, u # {} PROVE \E x \in u : u \ {x} \in Good => u \in Good
  <2> DEFINE m == Max(u)
             v == u \ {m}
             old == iter[v]
             r == iter[u]
             d == dists[m]
  <2>1. m \in u /\ r = AddSample(old, d) /\ old \in Stats /\ d \in Int /\ v \in SUBSET T
    BY <1>1, <1>3, <1>6
  <2>2. v \cup {m} = u /\ m \notin v
    BY <2>1
  <2>3. ASSUME With(v, old) PROVE With(u, r)
    <3> HIDE DEF m, v, old, r, d
    <3>1. IsFiniteSet(v)
      BY <1>2, <2>1, FS_Subset
    <3>2. \A value : /\ NumberIn(dists, v, value) \in Nat
                     /\ NumberIn(dists, v \cup {m}, value)
                          = NumberIn(dists, v, value) + Agrees(dists[m], value)
      <4> SUFFICES ASSUME NEW value
                   PROVE  /\ NumberIn(dists, v, value) \in Nat
                          /\ NumberIn(dists, v \cup {m}, value)
                               = NumberIn(dists, v, value) + Agrees(dists[m], value)
        OBVIOUS
      <4>1. Places(dists, v, value) = Places(dists, v, value) /\ m \notin v
        BY <2>2
      <4>2. NumberIn(dists, v, value) \in Nat
        BY <3>1, NumberType
      <4>3. NumberIn(dists, v \cup {m}, value) = NumberIn(dists, v, value) + Agrees(dists[m], value)
        BY <3>1, <4>1, NumberWith
      <4> QED
        BY <4>2, <4>3
    <3>3. \A value : NumberIn(dists, u, value) = NumberIn(dists, v, value) + Agrees(d, value)
      BY <2>2, <3>2 DEF d
    <3>4. /\ r.cold_miss_count_ = old.cold_miss_count_ + Agrees(d, kColdMiss)
          /\ r.inval_miss_count_ = old.inval_miss_count_ + Agrees(d, kInvalidationMiss)
          /\ Counted(old) => Counted(r)
          /\ DOMAIN r.current_prediction_hits_ = DOMAIN old.current_prediction_hits_
          /\ \A sizes : Between(old, sizes) => Between(r, sizes)
      BY <2>1, AddSampleEffect, AddSampleBetween
    <3>5. \A x : Agrees(d, x) \in Nat
      BY DEF Agrees
    <3>6. \A a, b, c \in Nat : (a + b) + c = a + (b + c)
      OBVIOUS
    <3>7. r.cold_miss_count_ = s.cold_miss_count_ + NumberIn(dists, u, kColdMiss)
      BY <1>4, <2>3, <3>2, <3>3, <3>4, <3>5, <3>6
    <3>8. r.inval_miss_count_ = s.inval_miss_count_ + NumberIn(dists, u, kInvalidationMiss)
      BY <1>4, <2>3, <3>2, <3>3, <3>4, <3>5, <3>6
    <3> QED
      BY <2>3, <3>4, <3>7, <3>8
  <2> HIDE DEF With
  <2> QED
    BY <2>1, <2>3
<1> HIDE DEF Good
<1>7. T \in Good
  BY <1>2, <1>5, <1>6, Members
<1>8. With(T, Samples(s, dists)) /\ Samples(s, dists) \in Stats
  BY <1>3, <1>7 DEF Good
<1> QED
  BY <1>8 DEF NumberOf, T

\* A size that is added has no entry yet, and no hits.
LEMMA AddSizeEffect ==
  ASSUME NEW s \in Stats, NEW new \in Nat
  PROVE  LET after == AddRatioPredictionSize(s, new) IN
         /\ after \in Stats /\ SameSamples(s, after)
         /\ after.current_prediction_accesses_ = s.current_prediction_accesses_
         /\ DOMAIN s.current_prediction_hits_ \subseteq DOMAIN after.current_prediction_hits_
         /\ \A sizes \in SUBSET DOMAIN s.current_prediction_hits_ :
              /\ Between(s, sizes) => Between(after, sizes)
              /\ AtPush(s, sizes) => AtPush(after, sizes)
              /\ AtClear(s, sizes) => AtClear(after, sizes)
<1> DEFINE hits == s.current_prediction_hits_
           lists == s.ratio_predictions_
           more == [x \in DOMAIN hits \cup {new} |-> IF x = new THEN 0 ELSE hits[x]]
           longer == [x \in DOMAIN lists \cup {new} |-> IF x = new THEN <<>> ELSE lists[x]]
<1>1. more \in HitCounts
  <2>1. PICK D \in SUBSET Nat : hits \in [D -> Int]
    BY StatsFields DEF HitCounts
  <2>2. more \in [D \cup {new} -> Int]
    BY <2>1
  <2>3. D \cup {new} \in SUBSET Nat
    BY <2>1
  <2> HIDE DEF more
  <2> QED
    BY <2>2, <2>3, Zenon DEF HitCounts
<1>2. longer \in HitLists
  <2>1. PICK D \in SUBSET Nat : lists \in [D -> Seq(Int)]
    BY StatsFields DEF HitLists
  <2>2. longer \in [D \cup {new} -> Seq(Int)]
    <3>1. <<>> \in Seq(Int)
      OBVIOUS
    <3> QED
      BY <2>1, <3>1
  <2>3. D \cup {new} \in SUBSET Nat
    BY <2>1
  <2> HIDE DEF longer
  <2> QED
    BY <2>2, <2>3, Zenon DEF HitLists
<1>3. AddRatioPredictionSize(s, new)
        = IF new \in DOMAIN hits THEN s
          ELSE [s EXCEPT !.current_prediction_hits_ = more, !.ratio_predictions_ = longer]
  BY DEF AddRatioPredictionSize, Stats
<1>4. CASE new \in DOMAIN hits
  <2>1. AddRatioPredictionSize(s, new) = s
    BY <1>3, <1>4
  <2> QED
    BY <2>1 DEF SameSamples
<1>5. CASE new \notin DOMAIN hits
  <2> DEFINE r == AddRatioPredictionSize(s, new)
  <2>1. /\ DOMAIN more = DOMAIN hits \cup {new} /\ more[new] = 0
        /\ \A x \in DOMAIN hits : more[x] = hits[x]
    BY <1>5
  <2>2. /\ DOMAIN longer = DOMAIN lists \cup {new} /\ longer[new] = <<>>
        /\ \A x \in DOMAIN lists : x # new => longer[x] = lists[x]
    OBVIOUS
  <2> HIDE DEF more, longer
  <2>3. /\ r \in Stats /\ SameSamples(s, r)
        /\ r.current_prediction_accesses_ = s.current_prediction_accesses_
        /\ r.prediction_accesses_ = s.prediction_accesses_
        /\ r.current_prediction_hits_ = more /\ r.ratio_predictions_ = longer
    BY <1>1, <1>2, <1>3, <1>5 DEF Stats, SameSamples
  <2> HIDE DEF r
  <2>4. /\ HitsOf(r, new) = <<>>
        /\ \A x \in DOMAIN hits : HitsOf(r, x) = HitsOf(s, x)
    BY <1>5, <2>2, <2>3 DEF HitsOf
  <2>5. ASSUME NEW periods \in Seq(Nat), NEW sizes \in SUBSET DOMAIN hits,
               Aligned(s, periods, sizes)
        PROVE  Aligned(r, periods, sizes)
    <3> SUFFICES ASSUME NEW size \in DOMAIN more
                 PROVE  LET list == HitsOf(r, size)
                            late == Len(periods) - Len(list)
                        IN
                        /\ late >= 0 /\ (size \in sizes => late = 0)
                        /\ \A i \in DOMAIN list : list[i] <= periods[i + late]
      BY <2>3 DEF Aligned
    <3>1. CASE size = new
      <4>1. size \notin sizes /\ HitsOf(r, size) = <<>> /\ Len(periods) \in Nat
        BY <1>5, <2>4, <2>5, <3>1
      <4>2. Len(<<>>) = 0 /\ DOMAIN <<>> = {}
        OBVIOUS
      <4> QED
        BY <4>1, <4>2
    <3>2. CASE size # new
      <4>1. size \in DOMAIN hits /\ HitsOf(r, size) = HitsOf(s, size)
        BY <2>1, <2>4, <3>2
      <4> QED
        BY <2>5, <4>1 DEF Aligned
    <3> QED
      BY <3>1, <3>2
  <2>6. /\ s.current_prediction_accesses_ \in Nat /\ s.prediction_accesses_ \in Seq(Nat)
        /\ Append(s.prediction_accesses_, s.current_prediction_accesses_) \in Seq(Nat)
    BY StatsFields
  <2>7. NoHits(s) => NoHits(r)
    BY <2>1, <2>3 DEF NoHits
  <2> HIDE DEF hits, lists
  <2>8. ASSUME NEW sizes \in SUBSET DOMAIN hits, Between(s, sizes) PROVE Between(r, sizes)
    <3>1. Aligned(r, r.prediction_accesses_, sizes)
      BY <2>3, <2>5, <2>6, <2>8 DEF Between
    <3>2. SumFunction(r.prediction_accesses_) + r.current_prediction_accesses_ = r.sample_count_
      BY <2>3, <2>8 DEF Between, SameSamples
    <3>3. ASSUME NEW size \in DOMAIN more PROVE more[size] <= r.current_prediction_accesses_
      <4>1. CASE size = new
        BY <2>1, <2>3, <2>6, <4>1
      <4>2. CASE size # new
        <5>1. size \in DOMAIN hits /\ more[size] = hits[size]
          BY <2>1, <3>3, <4>2
        <5> QED
          BY <2>3, <2>8, <5>1 DEF Between, hits
      <4> QED
        BY <4>1, <4>2
    <3> QED
      BY <2>3, <3>1, <3>2, <3>3 DEF Between
  <2>9. ASSUME NEW sizes \in SUBSET DOMAIN hits, AtPush(s, sizes) PROVE AtPush(r, sizes)
    <3> DEFINE periods == Append(s.prediction_accesses_, s.current_prediction_accesses_)
    <3>1. periods \in Seq(Nat) /\ Aligned(s, periods, sizes)
      BY <2>6, <2>9 DEF AtPush
    <3>2. periods = Append(r.prediction_accesses_, r.current_prediction_accesses_)
      BY <2>3
    <3> HIDE DEF periods
    <3>3. Aligned(r, periods, sizes)
      BY <2>5, <3>1
    <3> QED
      BY <2>3, <2>7, <2>9, <3>2, <3>3 DEF AtPush, SameSamples
  <2>10. ASSUME NEW sizes \in SUBSET DOMAIN hits, AtClear(s, sizes) PROVE AtClear(r, sizes)
    <3>1. Aligned(r, r.prediction_accesses_, sizes)
      BY <2>3, <2>5, <2>6, <2>10 DEF AtClear
    <3> QED
      BY <2>3, <2>7, <2>10, <3>1 DEF AtClear, SameSamples
  <2>11. DOMAIN hits \subseteq DOMAIN r.current_prediction_hits_
    BY <2>1, <2>3
  <2> QED
    BY <2>3, <2>8, <2>9, <2>10, <2>11 DEF r, hits
<1> QED
  BY <1>4, <1>5

\* A period more for both keeps them aligned.
LEMMA AlignedAppended ==
  ASSUME NEW h \in Seq(Int), NEW p \in Seq(Nat), NEW x \in Int, NEW c \in Nat, x <= c,
         Len(p) - Len(h) >= 0, \A i \in DOMAIN h : h[i] <= p[i + (Len(p) - Len(h))]
  PROVE  /\ Len(Append(p, c)) - Len(Append(h, x)) = Len(p) - Len(h)
         /\ \A i \in DOMAIN Append(h, x) :
              Append(h, x)[i] <= Append(p, c)[i + (Len(p) - Len(h))]
<1> DEFINE late == Len(p) - Len(h)
           g == Append(h, x)
           q == Append(p, c)
<1>1. /\ Len(h) \in Nat /\ DOMAIN h = 1 .. Len(h) /\ Len(g) = Len(h) + 1
      /\ DOMAIN g = 1 .. (Len(h) + 1) /\ g[Len(h) + 1] = x
  OBVIOUS
<1>2. \A i \in 1 .. Len(h) : g[i] = h[i]
  OBVIOUS
<1>3. Len(p) \in Nat /\ Len(q) = Len(p) + 1 /\ q[Len(p) + 1] = c
  OBVIOUS
<1>4. \A i \in 1 .. Len(p) : q[i] = p[i]
  OBVIOUS
<1>5. \A i \in 1 .. Len(h) : h[i] <= p[i + late]
  BY <1>1
<1>6. late >= 0 /\ late = Len(p) - Len(h)
  OBVIOUS
<1> HIDE DEF g, q, late
<1>7. ASSUME NEW i \in 1 .. (Len(h) + 1) PROVE g[i] <= q[i + late]
  <2>1. CASE i = Len(h) + 1
    <3>1. i + late = Len(p) + 1
      BY <1>1, <1>3, <1>6, <2>1
    <3>2. g[i] = x /\ q[i + late] = c
      BY <1>1, <1>3, <2>1, <3>1
    <3> QED
      BY <3>2
  <2>2. CASE i # Len(h) + 1
    <3>1. i \in 1 .. Len(h) /\ i + late \in 1 .. Len(p)
      BY <1>1, <1>3, <1>6, <1>7, <2>2
    <3>2. g[i] = h[i] /\ q[i + late] = p[i + late]
      BY <1>2, <1>4, <3>1
    <3> QED
      BY <1>5, <3>1, <3>2
  <2> QED
    BY <2>1, <2>2
<1>8. Len(q) - Len(g) = late
  BY <1>1, <1>3, <1>6
<1> QED
  BY <1>1, <1>7, <1>8 DEF g, q, late

\* The steps of UpdateRatioPredictions take a stack from one to the next and back.
LEMMA PushHitsEffect ==
  ASSUME NEW s \in Stats
  PROVE  LET after == PushHits(s) IN
         /\ after \in Stats /\ SameSamples(s, after)
         /\ after.current_prediction_accesses_ = s.current_prediction_accesses_
         /\ DOMAIN after.current_prediction_hits_ = DOMAIN s.current_prediction_hits_
         /\ \A sizes : Between(s, sizes) => AtPush(after, sizes)
<1> DEFINE hits == s.current_prediction_hits_
           longer == [size \in DOMAIN hits |-> Append(HitsOf(s, size), hits[size])]
           none == [size \in DOMAIN hits |-> 0]
           with == [s EXCEPT !.ratio_predictions_ = longer]
           r == PushHits(s)
<1>1. PICK D \in SUBSET Nat : hits \in [D -> Int]
  BY StatsFields DEF HitCounts
<1>2. \A size : HitsOf(s, size) \in Seq(Int)
  BY StatsLists
<1> HIDE DEF hits
<1>3. longer \in HitLists
  <2>1. \A size \in D : HitsOf(s, size) \in Seq(Int) /\ hits[size] \in Int
    BY <1>1, <1>2
  <2>2. \A size \in D : Append(HitsOf(s, size), hits[size]) \in Seq(Int)
    BY <2>1
  <2>3. longer \in [D -> Seq(Int)]
    BY <1>1, <2>2
  <2> HIDE DEF longer
  <2> QED
    BY <1>1, <2>3, Zenon DEF HitLists
<1>4. none \in HitCounts
  <2>1. none \in [D -> Int]
    BY <1>1
  <2> HIDE DEF none
  <2> QED
    BY <1>1, <2>1, Zenon DEF HitCounts
<1>5. WithHits(s) = with
  BY DEF WithHits, hits
<1>6. /\ DOMAIN longer = DOMAIN hits
      /\ \A size \in DOMAIN hits : longer[size] = Append(HitsOf(s, size), hits[size])
  OBVIOUS
<1>7. DOMAIN none = DOMAIN hits /\ \A size \in DOMAIN hits : none[size] = 0
  OBVIOUS
<1> HIDE DEF longer
<1>8. /\ with \in Stats /\ SameSamples(s, with) /\ with.current_prediction_hits_ = hits
      /\ with.ratio_predictions_ = longer
      /\ with.prediction_accesses_ = s.prediction_accesses_
      /\ with.current_prediction_accesses_ = s.current_prediction_accesses_
  BY <1>3 DEF Stats, SameSamples, hits
<1> HIDE DEF with
<1>9. PushHits(s) = [with EXCEPT !.current_prediction_hits_ = none]
  BY <1>5, <1>8 DEF PushHits, Stats
<1> HIDE DEF none
<1>10. /\ r \in Stats /\ SameSamples(s, r) /\ r.current_prediction_hits_ = none
       /\ r.ratio_predictions_ = longer
       /\ r.prediction_accesses_ = s.prediction_accesses_
       /\ r.current_prediction_accesses_ = s.current_prediction_accesses_
  BY <1>4, <1>8, <1>9 DEF Stats, SameSamples
<1> HIDE DEF r
<1>11. ASSUME NEW sizes, Between(s, sizes) PROVE AtPush(r, sizes)
  <2> DEFINE periods == s.prediction_accesses_
             c == s.current_prediction_accesses_
  <2>1. periods \in Seq(Nat) /\ c \in Nat
    BY StatsFields
  <2>2. NoHits(r)
    BY <1>7, <1>10 DEF NoHits
  <2>3. SumFunction(r.prediction_accesses_) + r.current_prediction_accesses_ = r.sample_count_
    BY <1>10, <1>11 DEF Between, SameSamples
  <2>4. ASSUME NEW size \in DOMAIN hits
        PROVE  LET list == HitsOf(r, size)
                   late == Len(Append(periods, c)) - Len(list)
               IN
               /\ late >= 0 /\ (size \in sizes => late = 0)
               /\ \A i \in DOMAIN list : list[i] <= Append(periods, c)[i + late]
    <3> DEFINE old == HitsOf(s, size)
               x == hits[size]
    <3>1. HitsOf(r, size) = Append(old, x)
      BY <1>6, <1>10, <2>4 DEF HitsOf
    <3>2. old \in Seq(Int) /\ x \in Int
      BY <1>1, <1>2, <2>4
    <3>3. /\ Len(periods) - Len(old) >= 0 /\ (size \in sizes => Len(periods) - Len(old) = 0)
          /\ \A i \in DOMAIN old : old[i] <= periods[i + (Len(periods) - Len(old))]
          /\ x <= c
      BY <1>11, <2>4 DEF Between, Aligned, hits
    <3> HIDE DEF periods, c, old, x
    <3>4. /\ Len(Append(periods, c)) - Len(Append(old, x)) = Len(periods) - Len(old)
          /\ \A i \in DOMAIN Append(old, x) :
               Append(old, x)[i] <= Append(periods, c)[i + (Len(periods) - Len(old))]
      BY <2>1, <3>2, <3>3, AlignedAppended
    <3> QED
      BY <3>1, <3>3, <3>4
  <2>5. Aligned(r, Append(periods, c), sizes)
    BY <1>7, <1>10, <2>4 DEF Aligned
  <2> QED
    BY <1>10, <2>2, <2>3, <2>5 DEF AtPush
<1>12. DOMAIN r.current_prediction_hits_ = DOMAIN hits
  BY <1>7, <1>10
<1> QED
  BY <1>10, <1>11, <1>12 DEF r, hits

LEMMA PushAccessesEffect ==
  ASSUME NEW s \in Stats
  PROVE  LET after == PushAccesses(s) IN
         /\ after \in Stats /\ SameSamples(s, after)
         /\ after.current_prediction_accesses_ = s.current_prediction_accesses_
         /\ DOMAIN after.current_prediction_hits_ = DOMAIN s.current_prediction_hits_
         /\ \A sizes : AtPush(s, sizes) => AtClear(after, sizes)
<1> DEFINE longer == Append(s.prediction_accesses_, s.current_prediction_accesses_)
           r == PushAccesses(s)
<1>1. /\ longer \in Seq(Nat)
      /\ SumFunction(longer)
           = SumFunction(s.prediction_accesses_) + s.current_prediction_accesses_
  <2>1. s.prediction_accesses_ \in Seq(Nat) /\ s.current_prediction_accesses_ \in Nat
    BY StatsFields
  <2>2. SumFunction(longer)
          = SumFunction(s.prediction_accesses_) + s.current_prediction_accesses_
    BY <2>1, SumAppended
  <2> QED
    BY <2>1, <2>2
<1>2. PushAccesses(s) = [s EXCEPT !.prediction_accesses_ = longer]
  BY DEF PushAccesses, Stats
<1>3. \A sizes : AtPush(s, sizes) => /\ SumFunction(longer) = s.sample_count_
                                     /\ Aligned(s, longer, sizes) /\ NoHits(s)
  BY <1>1 DEF AtPush
<1> HIDE DEF longer
<1>4. /\ r \in Stats /\ SameSamples(s, r) /\ r.prediction_accesses_ = longer
      /\ r.current_prediction_accesses_ = s.current_prediction_accesses_
      /\ r.current_prediction_hits_ = s.current_prediction_hits_
      /\ r.ratio_predictions_ = s.ratio_predictions_
  BY <1>1, <1>2 DEF Stats, SameSamples
<1> HIDE DEF r
<1>5. \A size : HitsOf(r, size) = HitsOf(s, size)
  BY <1>4 DEF HitsOf
<1>6. \A sizes : AtPush(s, sizes) => AtClear(r, sizes)
  BY <1>3, <1>4, <1>5 DEF AtClear, Aligned, NoHits, SameSamples
<1> QED
  BY <1>4, <1>6 DEF r

LEMMA ClearAccessesEffect ==
  ASSUME NEW s \in Stats
  PROVE  LET after == ClearAccesses(s) IN
         /\ after \in Stats /\ SameSamples(s, after)
         /\ after.current_prediction_accesses_ = 0
         /\ DOMAIN after.current_prediction_hits_ = DOMAIN s.current_prediction_hits_
         /\ \A sizes : AtClear(s, sizes) => Between(after, sizes)
<1> DEFINE none == 0
           r == ClearAccesses(s)
<1>1. ClearAccesses(s) = [s EXCEPT !.current_prediction_accesses_ = none]
  BY DEF ClearAccesses
<1>2. none \in Nat
  OBVIOUS
<1> HIDE DEF none
<1>3. /\ r \in Stats /\ SameSamples(s, r) /\ r.current_prediction_accesses_ = none
      /\ r.prediction_accesses_ = s.prediction_accesses_
      /\ r.current_prediction_hits_ = s.current_prediction_hits_
      /\ r.ratio_predictions_ = s.ratio_predictions_
  BY <1>1, <1>2 DEF Stats, SameSamples
<1> HIDE DEF r
<1>4. \A size : HitsOf(r, size) = HitsOf(s, size)
  BY <1>3 DEF HitsOf
<1>5. ASSUME NEW sizes, AtClear(s, sizes) PROVE Between(r, sizes)
  <2>1. Aligned(r, r.prediction_accesses_, sizes)
    BY <1>3, <1>4, <1>5 DEF AtClear, Aligned
  <2>2. SumFunction(r.prediction_accesses_) = r.sample_count_ /\ r.sample_count_ \in Nat
    BY <1>3, <1>5, StatsFields DEF AtClear, SameSamples
  <2>3. SumFunction(r.prediction_accesses_) + r.current_prediction_accesses_ = r.sample_count_
    BY <1>3, <2>2 DEF none
  <2>4. \A size \in DOMAIN r.current_prediction_hits_ :
          r.current_prediction_hits_[size] <= r.current_prediction_accesses_
    BY <1>3, <1>5 DEF AtClear, NoHits, none
  <2> QED
    BY <2>1, <2>3, <2>4 DEF Between
<1> QED
  BY <1>3, <1>5 DEF r, none

LEMMA UpdateEffect ==
  ASSUME NEW s \in Stats
  PROVE  LET after == UpdateRatioPredictions(s) IN
         /\ after \in Stats /\ SameSamples(s, after)
         /\ after.current_prediction_accesses_ = 0
         /\ DOMAIN after.current_prediction_hits_ = DOMAIN s.current_prediction_hits_
         /\ \A sizes : Between(s, sizes) => Between(after, sizes)
<1> DEFINE pushed == PushHits(s)
           counted == PushAccesses(pushed)
           after == ClearAccesses(counted)
           hits(x) == DOMAIN x.current_prediction_hits_
<1>1. /\ pushed \in Stats /\ SameSamples(s, pushed) /\ hits(pushed) = hits(s)
      /\ \A sizes : Between(s, sizes) => AtPush(pushed, sizes)
  BY PushHitsEffect
<1> HIDE DEF pushed
<1>2. /\ counted \in Stats /\ SameSamples(pushed, counted) /\ hits(counted) = hits(pushed)
      /\ \A sizes : AtPush(pushed, sizes) => AtClear(counted, sizes)
  BY <1>1, PushAccessesEffect
<1> HIDE DEF counted
<1>3. /\ after \in Stats /\ SameSamples(counted, after) /\ hits(after) = hits(counted)
      /\ after.current_prediction_accesses_ = 0
      /\ \A sizes : AtClear(counted, sizes) => Between(after, sizes)
  BY <1>2, ClearAccessesEffect
<1>4. UpdateRatioPredictions(s) = after
  BY DEF UpdateRatioPredictions, counted, pushed
<1> HIDE DEF after
<1>5. SameSamples(s, after)
  BY <1>1, <1>2, <1>3 DEF SameSamples
<1> QED
  BY <1>1, <1>2, <1>3, <1>4, <1>5

-----------------------------------------------------------------------------
(* The tools                                                               *)

Keys == {"sim", "pair", "all"} \X Nat
StatsTables == UNION {[D -> Stats] : D \in SUBSET Keys}

\* An analysis call of an instruction.
Call_ == [access : Access_, PC : Nat, is_write : BOOLEAN, is_fetch : BOOLEAN]

ProgramInv ==
  /\ todo \in [Thread -> Seq(Call_)]
  /\ pc \in [Thread -> {"program", "record", "enable", "update", "stop", "disable", "ended"}]
  /\ \A t \in Thread : pc[t] = "record" => todo[t] # <<>>

\* What an arbiter takes for prefetched has been in the stack of its thread.
ArbitersInv ==
  /\ prefetchers_ \in [Used("sim") -> SpacedArbiter]
  /\ \A t \in Used("sim") : prefetchers_[t].prefetched_addrs_ \subseteq Known(sim_stacks_[t])

StatsInv ==
  /\ stats_ \in StatsTables
  /\ prediction_sizes_ \in [{"sim", "pair", "all"} -> SUBSET Nat]

\* A thread in UpdateRatioPredictions: between the steps for a stack it has one at hand.
UpdateRecord ==
  [ done : SUBSET Keys, key : Keys \cup {<<>>}, step : {"hits", "push", "clear"},
    next : {"disable", "program"} ]
Updater == {u \in UpdateRecord : u.step = "hits" \/ u.key \in Keys}

UpdatesInv ==
  /\ updating \in [Thread -> Updater \cup {<<>>}]
  /\ \A t \in Thread : pc[t] = "update" => updating[t] \in Updater

\* The accesses of the stacks in this set have been flushed.
Flushed(keys) ==
  \A k \in DOMAIN stats_ : k \in keys => stats_[k].current_prediction_accesses_ = 0

\* So are those of all stacks while recording is off and when it is about to be, and those
\* of the stacks a thread is done with, unless something falls between two steps.
FlushedInv ==
  ~overlapped =>
    /\ ~global_enable_ => Flushed(Keys)
    /\ \A t \in Thread : pc[t] = "update" => Flushed(updating[t].done)
    /\ \A t \in Thread : pc[t] = "disable" => Flushed(Keys)

ToolInv ==
  /\ HolderInv
  /\ IF ByTool THEN ProgramInv /\ ArbitersInv /\ StatsInv /\ UpdatesInv /\ FlushedInv
     ELSE prefetchers_ = <<>>

-----------------------------------------------------------------------------
(* Its steps                                                               *)

Calling(t) ==
  (t \in setup.threads /\ \E ins \in setup.program[t] : Execute(t, ins)) \/ CallNext(t)

Marking(t) ==
  \/ StartTimer(t) \/ StopTimer(t) \/ Enable(t) \/ Stop(t) \/ Disable(t) \/ EndPeriod(t)
  \/ \E enable \in BOOLEAN : LocalPeriod(t, enable)

LEMMA ToolSteps ==
  ASSUME ToolNext
  PROVE  \/ ~ByTool /\ Next /\ UNCHANGED toolVars
         \/ /\ ByTool
            /\ \/ \E t \in Thread : \/ ThreadStart(t) \/ Calling(t) \/ RecordMem(t) \/ RecordFetch(t)
                                    \/ Marking(t) \/ Update(t)
               \/ \E s \in setup.sizes : AddPredictionSize(s[1], s[2])
               \/ Fini
  BY DEF ToolNext, Calling, Marking

\* What most of them leave alone.
LEMMA CallingIsQuiet ==
  ASSUME NEW t \in Thread, Calling(t)
  PROVE  UNCHANGED <<vars, updating, recordVars, stats_, marks, overlapped>>
  BY DEF Calling, Execute, CallNext, Call

LEMMA MarkingIsQuiet ==
  ASSUME NEW t \in Thread, Marking(t)
  PROVE  /\ UNCHANGED <<setup, threads_seen_, sim_stacks_, recordVars, todo>>
         /\ UNCHANGED stats_ \/ Stop(t)
<1>1. ASSUME NEW enable \in BOOLEAN, set_global_enable(enable)
      PROVE  UNCHANGED <<setup, threads_seen_, sim_stacks_>>
  BY <1>1 DEF set_global_enable
<1>2. ASSUME NEW enable \in BOOLEAN, SetThreadEnabled(t, enable)
      PROVE  UNCHANGED <<setup, threads_seen_, sim_stacks_>>
  BY <1>2 DEF SetThreadEnabled
<1>3. UNCHANGED vars => UNCHANGED <<setup, threads_seen_, sim_stacks_>>
  BY DEF vars
<1>4. UNCHANGED programVars => UNCHANGED todo
  BY DEF programVars
<1>5. CASE StartTimer(t)
  BY <1>1, <1>4, <1>5 DEF StartTimer
<1>6. CASE StopTimer(t)
  BY <1>3, <1>4, <1>6 DEF StopTimer
<1>7. CASE Enable(t)
  BY <1>3, <1>4, <1>7 DEF Enable
<1>8. CASE Stop(t)
  BY <1>1, <1>4, <1>8 DEF Stop
<1>9. CASE Disable(t)
  BY <1>1, <1>4, <1>9 DEF Disable
<1>10. CASE EndPeriod(t)
  BY <1>3, <1>4, <1>10 DEF EndPeriod
<1>11. CASE \E enable \in BOOLEAN : LocalPeriod(t, enable)
  BY <1>2, <1>4, <1>11 DEF LocalPeriod
<1> QED
  BY <1>5, <1>6, <1>7, <1>8, <1>9, <1>10, <1>11 DEF Marking

LEMMA OthersAreQuiet ==
  ASSUME (\E t \in Thread : Update(t)) \/ (\E s \in setup.sizes : AddPredictionSize(s[1], s[2])) \/ Fini
  PROVE  UNCHANGED <<vars, prefetchers_, todo>>
  BY DEF Update, AddPredictionSize, Fini, recordVars, programVars

-----------------------------------------------------------------------------
(* The program                                                             *)

LEMMA CallsType ==
  ASSUME HolderInv, ByTool, NEW t \in setup.threads, NEW ins \in setup.program[t]
  PROVE  CallsOf(ins) \in Seq(Call_) /\ CallsOf(ins) # <<>>
<1> DEFINE call(a, is_write, is_fetch) ==
             [access |-> a, PC |-> ins.PC, is_write |-> is_write, is_fetch |-> is_fetch]
           calls_for(list, is_write) == [i \in DOMAIN list |-> call(list[i], is_write, FALSE)]
           fetch == call([address |-> ins.PC, size |-> ins.size], FALSE, TRUE)
           fetches == IF setup.do_fetch THEN <<fetch>> ELSE <<>>
           reads == calls_for(ins.reads, FALSE)
           writes == calls_for(ins.writes, TRUE)
<1>1. setup \in Setups
  BY DEF HolderInv, StacksInv
<1>2. /\ ins.PC \in Nat /\ ins.size \in Nat
      /\ ins.reads \in Seq(Access_) /\ ins.writes \in Seq(Access_)
      /\ setup.do_fetch \/ ins.reads # <<>> \/ ins.writes # <<>>
  BY <1>1, ReuseDistanceAssumption DEF Access_
<1>3. \A a \in Access_, is_write \in BOOLEAN, is_fetch \in BOOLEAN :
        call(a, is_write, is_fetch) \in Call_
  BY <1>2 DEF Call_
<1>4. fetch \in Call_
  <2>1. [address |-> ins.PC, size |-> ins.size] \in Access_
    BY <1>2 DEF Access_
  <2> HIDE DEF call
  <2> QED
    BY <1>3, <2>1
<1>5. ASSUME NEW refs \in Seq(Access_), NEW is_write \in BOOLEAN
      PROVE  calls_for(refs, is_write) \in Seq(Call_) /\ Len(calls_for(refs, is_write)) = Len(refs)
  <2>1. refs \in Seq(Access_)
    BY <1>5
  <2>2. DOMAIN refs = 1 .. Len(refs) /\ Len(refs) \in Nat
    BY <2>1
  <2>3. \A i \in DOMAIN refs : refs[i] \in Access_
    BY <2>1
  <2> HIDE DEF call
  <2>4. \A i \in DOMAIN refs : call(refs[i], is_write, FALSE) \in Call_
    BY <1>3, <1>5, <2>3
  <2> DEFINE f == [i \in DOMAIN refs |-> call(refs[i], is_write, FALSE)]
  <2>5. f \in [1 .. Len(refs) -> Call_] /\ Len(refs) \in Nat
    BY <2>2, <2>4
  <2>6. calls_for(refs, is_write) = f
    OBVIOUS
  <2> HIDE DEF f, calls_for
  <2>7. f \in Seq(Call_) /\ Len(f) = Len(refs)
    BY <2>5
  <2> QED
    BY <2>6, <2>7
<1>6. CallsOf(ins) = fetches \o reads \o writes
  BY DEF CallsOf
<1> HIDE DEF call, calls_for, fetch
<1>7. /\ fetches \in Seq(Call_) /\ Len(fetches) = IF setup.do_fetch THEN 1 ELSE 0
  BY <1>4
<1>8. reads \in Seq(Call_) /\ Len(reads) = Len(ins.reads)
  BY <1>2, <1>5
<1>9. writes \in Seq(Call_) /\ Len(writes) = Len(ins.writes)
  BY <1>2, <1>5
<1> HIDE DEF fetches, reads, writes
<1>10. CallsOf(ins) \in Seq(Call_)
  BY <1>6, <1>7, <1>8, <1>9
<1>11. Len(CallsOf(ins)) = Len(fetches) + Len(reads) + Len(writes)
  <2>1. \A p, q \in Seq(Call_) :
          p \o q \in Seq(Call_) /\ Len(p \o q) = Len(p) + Len(q) /\ Len(p) \in Nat
    OBVIOUS
  <2>2. fetches \in Seq(Call_) /\ reads \in Seq(Call_) /\ writes \in Seq(Call_)
    BY <1>7, <1>8, <1>9
  <2>3. Len(fetches \o reads) = Len(fetches) + Len(reads) /\ fetches \o reads \in Seq(Call_)
    BY <2>1, <2>2
  <2>4. Len((fetches \o reads) \o writes) = Len(fetches \o reads) + Len(writes)
    BY <2>1, <2>2, <2>3
  <2> QED
    BY <1>6, <2>3, <2>4
<1>12. Len(ins.reads) \in Nat /\ (ins.reads # <<>> => Len(ins.reads) > 0)
  BY <1>2
<1>13. Len(ins.writes) \in Nat /\ (ins.writes # <<>> => Len(ins.writes) > 0)
  BY <1>2
<1>14. Len(CallsOf(ins)) > 0
  <2>1. Len(fetches) \in Nat /\ Len(reads) \in Nat /\ Len(writes) \in Nat
    BY <1>7, <1>8, <1>9
  <2>2. Len(fetches) > 0 \/ Len(reads) > 0 \/ Len(writes) > 0
    BY <1>2, <1>7, <1>8, <1>9, <1>12, <1>13
  <2> QED
    BY <1>11, <2>1, <2>2
<1>15. Len(<<>>) = 0
  OBVIOUS
<1> QED
  BY <1>10, <1>14, <1>15

LEMMA CallKeepsProgram ==
  ASSUME ProgramInv, NEW t \in Thread, NEW sequence \in Seq(Call_), sequence # <<>>,
         Call(t, sequence)
  PROVE  ProgramInv'
<1>1. Tail(sequence) \in Seq(Call_)
  OBVIOUS
<1> DEFINE all == {"program", "record", "enable", "update", "stop", "disable", "ended"}
<1>2. todo \in [Thread -> Seq(Call_)] /\ pc \in [Thread -> all] /\ pc[t] = "program"
      /\ \A u \in Thread : pc[u] = "record" => todo[u] # <<>>
  BY DEF ProgramInv, Call
<1>3. CASE todo' = [todo EXCEPT ![t] = Tail(sequence)] /\ UNCHANGED <<pc, calls>>
  <2>1. todo' \in [Thread -> Seq(Call_)] /\ pc' \in [Thread -> all]
    BY <1>1, <1>2, <1>3
  <2>2. ASSUME NEW u \in Thread, pc'[u] = "record" PROVE todo'[u] # <<>>
    <3>1. u # t /\ todo'[u] = todo[u]
      BY <1>2, <1>3, <2>2
    <3> QED
      BY <1>2, <1>3, <2>2, <3>1
  <2> QED
    BY <2>1, <2>2 DEF ProgramInv
<1>4. CASE todo' = [todo EXCEPT ![t] = sequence] /\ pc' = [pc EXCEPT ![t] = "record"]
  <2>1. todo' \in [Thread -> Seq(Call_)] /\ pc' \in [Thread -> all]
    BY <1>2, <1>4
  <2>2. ASSUME NEW u \in Thread, pc'[u] = "record" PROVE todo'[u] # <<>>
    BY <1>2, <1>4, <2>2
  <2> QED
    BY <2>1, <2>2 DEF ProgramInv
<1> QED
  BY <1>3, <1>4 DEF Call

\* A thread that is not about to record goes elsewhere.
LEMMA MovesKeepProgram ==
  ASSUME ProgramInv, NEW t \in Thread, NEW next, UNCHANGED todo,
         next \in {"program", "enable", "update", "stop", "disable"},
         pc' = [pc EXCEPT ![t] = next]
  PROVE  ProgramInv'
<1> DEFINE all == {"program", "record", "enable", "update", "stop", "disable", "ended"}
<1>1. next \in all /\ next # "record"
  OBVIOUS
<1>2. pc' \in [Thread -> all]
  BY <1>1 DEF ProgramInv
<1>3. \A u \in Thread : pc'[u] = "record" => pc[u] = "record"
  BY <1>1 DEF ProgramInv
<1> QED
  BY <1>2, <1>3 DEF ProgramInv

LEMMA ProgramIsKept ==
  ASSUME HolderInv, ByTool, ProgramInv, UpdatesInv, ToolNext
  PROVE  ProgramInv'
<1>0. UNCHANGED <<todo, pc>> => ProgramInv'
  BY DEF ProgramInv
<1>1. ASSUME NEW t \in Thread, ThreadStart(t) PROVE ProgramInv'
  BY <1>0, <1>1 DEF ThreadStart, programVars
<1>2. ASSUME NEW t \in Thread, Calling(t) PROVE ProgramInv'
  <2>1. ASSUME NEW ins \in setup.program[t], t \in setup.threads, Execute(t, ins)
        PROVE  ProgramInv'
    <3>1. CallsOf(ins) \in Seq(Call_) /\ CallsOf(ins) # <<>>
      BY <2>1, CallsType
    <3> QED
      BY <1>2, <2>1, <3>1, CallKeepsProgram DEF Execute
  <2>2. ASSUME CallNext(t) PROVE ProgramInv'
    <3>1. todo[t] \in Seq(Call_) /\ todo[t] # <<>> /\ Call(t, todo[t])
      BY <1>2, <2>2 DEF ProgramInv, CallNext
    <3> QED
      BY <1>2, <3>1, CallKeepsProgram
  <2> QED
    BY <1>2, <2>1, <2>2 DEF Calling
<1>3. ASSUME NEW t \in Thread, RecordMem(t) \/ RecordFetch(t) PROVE ProgramInv'
  <2>1. /\ pc[t] = "record"
        /\ pc' = [pc EXCEPT ![t] = "program"] /\ todo' = [todo EXCEPT ![t] = Tail(@)]
    BY <1>3 DEF RecordMem, RecordFetch, Returned
  <2> DEFINE all == {"program", "record", "enable", "update", "stop", "disable", "ended"}
             rest == Tail(todo[t])
  <2>2. todo[t] \in Seq(Call_) /\ todo[t] # <<>>
    BY <1>3, <2>1 DEF ProgramInv
  <2>3. rest \in Seq(Call_)
    BY <2>2
  <2>4. todo' = [todo EXCEPT ![t] = rest]
    BY <2>1
  <2> HIDE DEF rest
  <2>5. todo' \in [Thread -> Seq(Call_)] /\ pc' \in [Thread -> all]
    BY <2>1, <2>3, <2>4 DEF ProgramInv
  <2>6. ASSUME NEW u \in Thread, pc'[u] = "record" PROVE todo'[u] # <<>>
    <3>1. u # t /\ pc[u] = "record" /\ todo'[u] = todo[u]
      BY <2>1, <2>4, <2>6 DEF ProgramInv
    <3> QED
      BY <2>6, <3>1 DEF ProgramInv
  <2> QED
    BY <2>5, <2>6 DEF ProgramInv
<1>4. ASSUME NEW t \in Thread, Marking(t) PROVE ProgramInv'
  <2>1. UNCHANGED todo
    BY <1>4, MarkingIsQuiet
  <2>2. \/ UNCHANGED pc
        \/ \E next \in {"program", "enable", "update", "stop", "disable"} :
             pc' = [pc EXCEPT ![t] = next]
    BY <1>4 DEF Marking, StartTimer, StopTimer, Updating, Enable, Stop, Disable, EndPeriod,
       LocalPeriod
  <2> QED
    BY <1>0, <1>4, <2>1, <2>2, MovesKeepProgram
<1>5. ASSUME NEW t \in Thread, Update(t) PROVE ProgramInv'
  <2>1. UNCHANGED todo
    BY <1>5, OthersAreQuiet
  <2>2. UNCHANGED pc \/ pc' = [pc EXCEPT ![t] = updating[t].next]
    BY <1>5 DEF Update, UpdateHits, UpdateAccesses, ClearUpdated, UpdateEnds
  <2>3. updating[t].next \in {"program", "enable", "update", "stop", "disable"}
    BY <1>5 DEF UpdatesInv, Updater, UpdateRecord, Update
  <2> QED
    BY <1>0, <1>5, <2>1, <2>2, <2>3, MovesKeepProgram
<1>6. ASSUME NEW s \in setup.sizes, AddPredictionSize(s[1], s[2]) PROVE ProgramInv'
  BY <1>0, <1>6 DEF AddPredictionSize, programVars
<1>7. ASSUME Fini PROVE ProgramInv'
  <2>1. UNCHANGED todo /\ pc' = [t \in Thread |-> "ended"]
    BY <1>7 DEF Fini, programVars
  <2> QED
    BY <2>1 DEF ProgramInv
<1> QED
  BY <1>1, <1>2, <1>3, <1>4, <1>5, <1>6, <1>7, ToolSteps

-----------------------------------------------------------------------------
(* Accesses                                                                *)

LEMMA RefType ==
  ASSUME ProgramInv, NEW t \in Thread, pc[t] = "record"
  PROVE  LET ref == Head(todo[t]) IN
         ref.access \in Access_ /\ ref.PC \in Nat /\ ref.is_write \in BOOLEAN
<1>1. todo[t] \in Seq(Call_) /\ todo[t] # <<>>
  BY DEF ProgramInv
<1>2. Head(todo[t]) \in Call_
  BY <1>1
<1> QED
  BY <1>2 DEF Call_

\* The kinds of stacks of the tools.
LEMMA ToolSetup ==
  ASSUME HolderInv, ByTool
  PROVE  /\ \/ setup.kinds = {"sim"}
            \/ setup.kinds = {"shared"} /\ ~setup.do_prefetch /\ ~setup.do_fetch
         /\ setup.delay \in Nat /\ setup.prefetchers \in Seq(Prefetcher)
         /\ setup.do_prefetch => Uses("sim")
<1>1. setup \in Setups /\ setup.tool # "none"
  BY DEF HolderInv, StacksInv, ByTool
<1>2. setup.delay \in Nat /\ setup.prefetchers \in Seq({NewDCU, NewStride, NewStream})
  BY <1>1, ReuseDistanceAssumption
<1>3. setup.prefetchers \in Seq(Prefetcher)
  <2> DEFINE all == {NewDCU, NewStride, NewStream}
  <2>1. all \subseteq Prefetcher
    BY NewPrefetchers
  <2>2. setup.prefetchers \in Seq(all)
    BY <1>2
  <2> HIDE DEF all
  <2> QED
    BY <2>1, <2>2
<1>4. \/ setup.kinds = {"sim"}
      \/ setup.kinds = {"shared"} /\ ~setup.do_prefetch /\ ~setup.do_fetch
  BY <1>1, ReuseDistanceAssumption
<1> QED
  BY <1>2, <1>3, <1>4 DEF Uses

\* What is prefetched with an access is in the stack afterwards.
LEMMA RecordMemEffect ==
  ASSUME HolderInv, ByTool, ProgramInv, ArbitersInv, NEW t \in Thread, RecordMem(t), Recording(t)
  PROVE  /\ \E requested \in SUBSET Addr :
              /\ requested # {} => setup.do_prefetch
              /\ Access(t, Head(todo[t]).access, Head(todo[t]).is_write, requested)
         /\ t \in threads_seen_ /\ StacksInv' /\ ArbitersInv'
<1> DEFINE ref == Head(todo[t])
           a == ref.access
           block == a.address \div blockBytes
           b == ArbiterAccess(prefetchers_[t], block, ref.PC, Distance(t, a), ref.is_write)
           requested == IF setup.do_prefetch THEN Requested(prefetchers_'[t]) ELSE {}
<1>1. a \in Access_ /\ ref.PC \in Nat /\ ref.is_write \in BOOLEAN
  BY RefType DEF RecordMem
<1>2. Access(t, a, ref.is_write, requested)
  BY DEF RecordMem
<1>3. prefetchers_' = IF Uses("sim") THEN [prefetchers_ EXCEPT ![t] = Arbitrated(t, ref)]
                      ELSE prefetchers_
  BY DEF RecordMem
<1>4. t \in threads_seen_ /\ StacksInv
  BY DEF Recording, HolderInv, StacksInv
<1>5. block \in Int
  BY <1>1, FirstIsTouched DEF First, Addr
<1>6. /\ prefetchers_ \in [Used("sim") -> SpacedArbiter]
      /\ \A k \in Used("sim") : prefetchers_[k].prefetched_addrs_ \subseteq Known(sim_stacks_[k])
  BY DEF ArbitersInv
<1>7. (setup.do_prefetch => Uses("sim")) /\ (Uses("sim") => t \in Used("sim"))
  BY <1>4, ToolSetup DEF Used
<1>8. ASSUME setup.do_prefetch
      PROVE  /\ prefetchers_' = [prefetchers_ EXCEPT ![t] = b] /\ requested = Requested(b)
             /\ b \in SpacedArbiter /\ Requested(b) \in SUBSET Addr
             /\ \A x, y \in Requested(b) : x = y
             /\ b.prefetched_addrs_ = (prefetchers_[t].prefetched_addrs_ \ {block}) \cup Requested(b)
  <2>1. prefetchers_' = [prefetchers_ EXCEPT ![t] = b]
    BY <1>3, <1>7, <1>8 DEF Arbitrated
  <2>2. t \in Used("sim") /\ prefetchers_[t] \in SpacedArbiter /\ ref.PC \in Int
    BY <1>1, <1>6, <1>7, <1>8
  <2>3. prefetchers_'[t] = b
    BY <1>6, <2>1, <2>2
  <2>4. \A old \in SpacedArbiter : \A x, p \in Int : \A d, w :
          LET after == ArbiterAccess(old, x, p, d, w) IN
          /\ after \in SpacedArbiter /\ Requested(after) \in SUBSET Addr
          /\ \A u, v \in Requested(after) : u = v
          /\ after.prefetched_addrs_ = (old.prefetched_addrs_ \ {x}) \cup Requested(after)
    BY ArbiterAccessEffect
  <2> HIDE DEF block, ref, a
  <2>5. /\ b \in SpacedArbiter /\ Requested(b) \in SUBSET Addr
        /\ \A u, v \in Requested(b) : u = v
        /\ b.prefetched_addrs_ = (prefetchers_[t].prefetched_addrs_ \ {block}) \cup Requested(b)
    BY <1>5, <2>2, <2>4, Zenon
  <2> QED
    BY <1>8, <2>1, <2>3, <2>5
<1>9. requested \in SUBSET Addr /\ (requested # {} => setup.do_prefetch)
  BY <1>8
<1> HIDE DEF ref, a, b, requested
<1>10. StacksInv' /\ AccessEffects(t, a, ref.is_write, requested)
  BY <1>1, <1>2, <1>4, <1>9, AccessParts
<1>11. UNCHANGED <<setup, threads_seen_>> /\ Used("sim")' = Used("sim")
  BY <1>2 DEF Access, Used, Uses
<1>12. \A k \in Used("sim") : Known(sim_stacks_[k]) \subseteq Known(sim_stacks_'[k])
  BY <1>10 DEF AccessEffects
<1>13. ArbitersInv'
  <2>1. CASE setup.do_prefetch
    <3>1. prefetchers_' \in [Used("sim") -> SpacedArbiter]
      BY <1>6, <1>8, <2>1
    <3>2. requested \subseteq Known(sim_stacks_'[t])
      <4>1. Uses("sim")
        BY <1>7, <2>1
      <4>2. PICK R \in SUBSET requested :
              /\ R = {} <=> requested = {}
              /\ \A k \in threads_seen_ :
                   InBlocks(sim_stacks_', k) =
                     IF k = t THEN InBlocks(sim_stacks_, k) \cup Touches(a) \cup R
                     ELSE IF ref.is_write THEN InBlocks(sim_stacks_, k) \ {First(a)}
                     ELSE InBlocks(sim_stacks_, k)
        BY <1>10, <4>1 DEF AccessEffects
      <4>3. requested \subseteq R
        BY <1>8, <2>1, <4>2
      <4>4. R \subseteq InBlocks(sim_stacks_', t)
        BY <1>4, <4>2
      <4>5. InBlocks(sim_stacks_', t) \subseteq Known(sim_stacks_'[t])
        BY DEF InBlocks, Known
      <4> QED
        BY <4>3, <4>4, <4>5
    <3>3. ASSUME NEW k \in Used("sim")
          PROVE  prefetchers_'[k].prefetched_addrs_ \subseteq Known(sim_stacks_'[k])
      <4>1. CASE k = t
        <5>1. prefetchers_'[t] = b
          BY <1>6, <1>8, <2>1, <3>3, <4>1
        <5>2. b.prefetched_addrs_ \subseteq prefetchers_[t].prefetched_addrs_ \cup requested
          BY <1>8, <2>1
        <5> QED
          BY <1>6, <1>12, <3>2, <3>3, <4>1, <5>1, <5>2
      <4>2. CASE k # t
        <5>1. prefetchers_'[k] = prefetchers_[k]
          BY <1>6, <1>8, <2>1, <3>3, <4>2
        <5> QED
          BY <1>6, <1>12, <3>3, <5>1
      <4> QED
        BY <4>1, <4>2
    <3> QED
      BY <1>11, <3>1, <3>3 DEF ArbitersInv
  <2>2. CASE ~setup.do_prefetch
    <3>1. prefetchers_' = prefetchers_
      BY <1>3, <1>6, <2>2 DEF Arbitrated
    <3> QED
      BY <1>6, <1>11, <1>12, <3>1 DEF ArbitersInv
  <2> QED
    BY <2>1, <2>2
<1> QED
  BY <1>2, <1>4, <1>9, <1>10, <1>13 DEF ref, a

LEMMA LinesType ==
  ASSUME NEW t \in Thread, NEW a \in Access_
  PROVE  Lines(t, a) \in Seq(Nat) /\ Len(Lines(t, a)) <= 2
<1> DEFINE first == a.address \div kInstBytes
           second == (a.address + a.size) \div kInstBytes
<1>1. a.address \in Nat /\ a.size \in Nat /\ kInstBytes \in Nat \ {0}
  BY ReuseDistanceAssumption DEF Access_
<1>2. \A x \in Nat, d \in Nat \ {0} : x \div d \in Nat
  OBVIOUS
<1>3. a.address + a.size \in Nat
  BY <1>1
<1>4. first \in Nat /\ second \in Nat
  BY <1>1, <1>2, <1>3
<1>5. Lines(t, a) = (IF first = inst_buffers[t] THEN <<>> ELSE <<first>>)
                      \o (IF second = first THEN <<>> ELSE <<second>>)
  BY DEF Lines
<1> HIDE DEF first, second
<1> DEFINE one == IF first = inst_buffers[t] THEN <<>> ELSE <<first>>
           two == IF second = first THEN <<>> ELSE <<second>>
<1>6. one \in Seq(Nat) /\ Len(one) <= 1 /\ Len(one) \in Nat
  BY <1>4
<1>7. two \in Seq(Nat) /\ Len(two) <= 1 /\ Len(two) \in Nat
  BY <1>4
<1>8. Lines(t, a) = one \o two
  BY <1>5
<1> HIDE DEF one, two
<1>9. one \o two \in Seq(Nat) /\ Len(one \o two) = Len(one) + Len(two)
  BY <1>6, <1>7
<1> QED
  BY <1>6, <1>7, <1>8, <1>9

\* Fetched lines are not prefetched, and take nothing from a stack for good.
LEMMA RecordFetchEffect ==
  ASSUME HolderInv, ByTool, ProgramInv, ArbitersInv, NEW t \in Thread, RecordFetch(t), Recording(t)
  PROVE  /\ \E fetches \in Seq(Access_) : Len(fetches) <= 2 /\ Fetch(t, fetches)
         /\ t \in threads_seen_ /\ StacksInv' /\ ArbitersInv'
<1> DEFINE a == Head(todo[t]).access
           lines == Lines(t, a)
           fetches == [i \in DOMAIN lines |->
                         [address |-> lines[i] * kInstBytes, size |-> kInstBytes]]
<1>1. a \in Access_
  BY RefType DEF RecordFetch
<1>2. Fetch(t, fetches) /\ UNCHANGED prefetchers_
  BY DEF RecordFetch
<1>3. lines \in Seq(Nat) /\ Len(lines) <= 2
  BY <1>1, LinesType
<1>4. fetches \in Seq(Access_) /\ Len(fetches) <= 2
  <2>1. kInstBytes \in Nat /\ \A x \in Nat : x * kInstBytes \in Nat
    BY ReuseDistanceAssumption
  <2>2. \A x \in Nat : [address |-> x * kInstBytes, size |-> kInstBytes] \in Access_
    BY <2>1 DEF Access_
  <2> HIDE DEF lines
  <2>3. DOMAIN lines = 1 .. Len(lines) /\ Len(lines) \in Nat /\ \A i \in DOMAIN lines : lines[i] \in Nat
    BY <1>3
  <2>4. fetches \in [1 .. Len(lines) -> Access_]
    BY <2>2, <2>3
  <2> HIDE DEF fetches
  <2> QED
    BY <1>3, <2>3, <2>4
<1> HIDE DEF fetches
<1>5. StacksInv
  BY DEF HolderInv
<1>6. /\ UNCHANGED <<setup, threads_seen_>> /\ t \in threads_seen_
      /\ \A k \in Used("sim") : Known(sim_stacks_[k]) \subseteq Known(sim_stacks_'[k])
  BY <1>2, <1>4, <1>5, FetchEffect
<1>7. HolderInv'
  BY <1>2, <1>4, FetchKeeps
<1>8. Used("sim")' = Used("sim")
  BY <1>6 DEF Used, Uses
<1>9. ArbitersInv'
  BY <1>2, <1>6, <1>8 DEF ArbitersInv
<1> QED
  BY <1>2, <1>4, <1>6, <1>7, <1>9 DEF HolderInv

-----------------------------------------------------------------------------
(* The stacks and the arbiters                                             *)

LEMMA ToolStepIsStackStep ==
  ASSUME HolderInv, ByTool => ProgramInv /\ ArbitersInv, ToolNext
  PROVE  StackStep \/ UNCHANGED vars
<1>1. CASE ~ByTool /\ Next
  BY <1>1, NextIsStackStep
<1>2. ASSUME ByTool, NEW t \in Thread, ThreadStart(t) PROVE StackStep
  BY <1>2 DEF ThreadStart, StackStep
<1>3. ASSUME ByTool, NEW t \in Thread, Calling(t) PROVE UNCHANGED vars
  BY <1>3, CallingIsQuiet
<1>4. ASSUME ByTool, NEW t \in Thread, RecordMem(t) PROVE StackStep \/ UNCHANGED vars
  <2>1. CASE Recording(t)
    <3>1. /\ Head(todo[t]).access \in Access_ /\ Head(todo[t]).is_write \in BOOLEAN
      BY <1>4, RefType DEF RecordMem
    <3>2. \E requested \in SUBSET Addr :
              /\ requested # {} => setup.do_prefetch
              /\ Access(t, Head(todo[t]).access, Head(todo[t]).is_write, requested)
      BY <1>4, <2>1, RecordMemEffect
    <3>3. ~Uses("oracular")
      <4>1. setup \in Setups
        BY DEF HolderInv, StacksInv
      <4>2. setup.tool # "none"
        BY <1>4 DEF ByTool
      <4>3. "oracular" \notin setup.kinds
        BY <4>1, <4>2, ReuseDistanceAssumption
      <4> QED
        BY <4>3 DEF Uses
    <3>4. Fits(Head(todo[t]).access)
      BY <3>3 DEF Fits
    <3> QED
      BY <1>4, <3>1, <3>2, <3>4 DEF StackStep
  <2>2. CASE ~Recording(t)
    BY <1>4, <2>2 DEF RecordMem
  <2> QED
    BY <2>1, <2>2
<1>5. ASSUME ByTool, NEW t \in Thread, RecordFetch(t) PROVE StackStep \/ UNCHANGED vars
  <2>1. CASE Recording(t)
    <3>1. \E fetches \in Seq(Access_) : Len(fetches) <= 2 /\ Fetch(t, fetches)
      BY <1>5, <2>1, RecordFetchEffect
    <3> QED
      BY <1>5, <3>1 DEF StackStep
  <2>2. CASE ~Recording(t)
    BY <1>5, <2>2 DEF RecordFetch
  <2> QED
    BY <2>1, <2>2
<1>6. ASSUME ByTool, NEW t \in Thread, Marking(t) PROVE StackStep \/ UNCHANGED vars
  <2>1. \/ UNCHANGED vars
        \/ \E enable \in BOOLEAN : set_global_enable(enable) \/ SetThreadEnabled(t, enable)
    <3>1. TRUE \in BOOLEAN /\ FALSE \in BOOLEAN
      OBVIOUS
    <3>2. StartTimer(t) => set_global_enable(TRUE)
      BY DEF StartTimer
    <3>3. Stop(t) \/ Disable(t) => set_global_enable(FALSE)
      BY DEF Stop, Disable
    <3>4. \A enable \in BOOLEAN : LocalPeriod(t, enable) => SetThreadEnabled(t, enable)
      BY DEF LocalPeriod
    <3>5. StopTimer(t) \/ Enable(t) \/ EndPeriod(t) => UNCHANGED vars
      BY DEF StopTimer, Enable, EndPeriod
    <3> QED
      BY <1>6, <3>1, <3>2, <3>3, <3>4, <3>5, Zenon DEF Marking
  <2> QED
    BY <1>6, <2>1 DEF StackStep
<1>7. ASSUME ByTool, NEW t \in Thread, Update(t) PROVE UNCHANGED vars
  BY <1>7, OthersAreQuiet
<1>8. ASSUME ByTool, (\E s \in setup.sizes : AddPredictionSize(s[1], s[2])) \/ Fini
      PROVE  UNCHANGED vars
  BY <1>8, OthersAreQuiet
<1> QED
  BY <1>1, <1>2, <1>3, <1>4, <1>5, <1>6, <1>7, <1>8, ToolSteps

LEMMA ArbitersAreKept ==
  ASSUME HolderInv, ByTool, ProgramInv, ArbitersInv, ToolNext
  PROVE  ArbitersInv'
<1>1. ASSUME UNCHANGED <<setup, threads_seen_, sim_stacks_, prefetchers_>> PROVE ArbitersInv'
  <2>1. Used("sim")' = Used("sim")
    BY <1>1 DEF Used, Uses
  <2> QED
    BY <1>1, <2>1 DEF ArbitersInv
<1>2. ASSUME NEW t \in Thread, ThreadStart(t) PROVE ArbitersInv'
  <2>1. /\ t \notin threads_seen_ /\ threads_seen_' = threads_seen_ \cup {t} /\ setup' = setup
        /\ sim_stacks_' = AddIf(Uses("sim"), sim_stacks_, t)
    BY <1>2 DEF ThreadStart, Allocate
  <2>2. Used("sim")' = IF Uses("sim") THEN Used("sim") \cup {t} ELSE {}
    BY <2>1 DEF Used, Uses
  <2>3. /\ prefetchers_ \in [Used("sim") -> SpacedArbiter]
        /\ sim_stacks_ \in [Used("sim") -> Sound]
        /\ \A k \in Used("sim") : prefetchers_[k].prefetched_addrs_ \subseteq Known(sim_stacks_[k])
    BY DEF ArbitersInv, HolderInv, StacksInv
  <2> DEFINE new == NewArbiter(setup.delay, setup.prefetchers)
             seen == DOMAIN prefetchers_ \cup IF Uses("sim") THEN {t} ELSE {}
  <2>4. new \in SpacedArbiter /\ new.prefetched_addrs_ = {}
    <3>1. setup.delay \in Nat /\ setup.prefetchers \in Seq(Prefetcher)
      BY ToolSetup
    <3>2. new \in SpacedArbiter
      BY <3>1, NewArbiterIsSpaced
    <3> QED
      BY <3>2 DEF NewArbiter
  <2>5. prefetchers_' = [u \in seen |-> IF u = t THEN new ELSE prefetchers_[u]]
    BY <1>2 DEF ThreadStart
  <2>6. DOMAIN prefetchers_ = Used("sim")
    BY <2>3
  <2> HIDE DEF new
  <2>7. CASE Uses("sim")
    <3>1. seen = Used("sim") \cup {t} /\ t \notin Used("sim")
      BY <2>1, <2>6, <2>7 DEF Used
    <3>2. prefetchers_' \in [Used("sim") \cup {t} -> SpacedArbiter]
      BY <2>3, <2>4, <2>5, <3>1
    <3>3. sim_stacks_' = [k \in Used("sim") \cup {t} |->
                            IF k \in Used("sim") THEN sim_stacks_[k] ELSE NewStack]
      BY <2>1, <2>3, <2>7 DEF AddIf, WithStack
    <3>4. \A k \in Used("sim") \cup {t} :
            prefetchers_'[k].prefetched_addrs_ \subseteq Known(sim_stacks_'[k])
      BY <2>3, <2>4, <2>5, <3>1, <3>3
    <3> QED
      BY <2>2, <2>7, <3>2, <3>4 DEF ArbitersInv
  <2>8. CASE ~Uses("sim")
    <3>1. Used("sim") = {} /\ seen = {}
      BY <2>6, <2>8 DEF Used
    <3> QED
      BY <2>2, <2>5, <2>8, <3>1 DEF ArbitersInv
  <2> QED
    BY <2>7, <2>8
<1>3. ASSUME NEW t \in Thread, Calling(t) PROVE ArbitersInv'
  BY <1>1, <1>3, CallingIsQuiet DEF vars, recordVars
<1>4. ASSUME NEW t \in Thread, RecordMem(t) PROVE ArbitersInv'
  <2>1. CASE Recording(t)
    BY <1>4, <2>1, RecordMemEffect
  <2>2. CASE ~Recording(t)
    BY <1>1, <1>4, <2>2 DEF RecordMem, vars
  <2> QED
    BY <2>1, <2>2
<1>5. ASSUME NEW t \in Thread, RecordFetch(t) PROVE ArbitersInv'
  <2>1. CASE Recording(t)
    BY <1>5, <2>1, RecordFetchEffect
  <2>2. CASE ~Recording(t)
    BY <1>1, <1>5, <2>2 DEF RecordFetch, vars
  <2> QED
    BY <2>1, <2>2
<1>6. ASSUME NEW t \in Thread, Marking(t) PROVE ArbitersInv'
  BY <1>1, <1>6, MarkingIsQuiet DEF recordVars
<1>7. ASSUME \/ \E t \in Thread : Update(t)
             \/ \E s \in setup.sizes : AddPredictionSize(s[1], s[2])
             \/ Fini
      PROVE  ArbitersInv'
  BY <1>1, <1>7, OthersAreQuiet DEF vars
<1> QED
  BY <1>2, <1>3, <1>4, <1>5, <1>6, <1>7, ToolSteps

-----------------------------------------------------------------------------
(* The statistics                                                          *)

LEMMA KeysType ==
  ASSUME NEW t \in Thread
  PROVE  KeysOf(t) \subseteq Keys
<1>1. t \in 0 .. 8
  BY StackHolderAssumption
<1>2. PairOf(t) \in Nat
  <2>1. share_map_ \in Seq(Nat) /\ DOMAIN share_map_ = 1 .. 9
    BY DEF share_map_
  <2>2. t + 1 \in 1 .. 9
    BY <1>1
  <2>3. \A q \in Seq(Nat) : \A i \in DOMAIN q : q[i] \in Nat
    OBVIOUS
  <2>4. share_map_[t + 1] \in Nat
    BY <2>1, <2>2, <2>3
  <2> QED
    BY <2>4 DEF PairOf
<1>3. <<"sim", t>> \in Keys /\ <<"pair", PairOf(t)>> \in Keys /\ <<"all", 0>> \in Keys
  BY <1>1, <1>2 DEF Keys
<1> QED
  BY <1>3 DEF KeysOf

LEMMA TableType ==
  /\ \A table \in StatsTables :
       /\ DOMAIN table \subseteq Keys
       /\ \A k \in DOMAIN table : table[k] \in Stats
       /\ table = [k \in DOMAIN table |-> table[k]]
  /\ \A D \in SUBSET Keys : \A table \in [D -> Stats] : table \in StatsTables
<1>1. ASSUME NEW table \in StatsTables
      PROVE  /\ DOMAIN table \subseteq Keys
             /\ \A k \in DOMAIN table : table[k] \in Stats
             /\ table = [k \in DOMAIN table |-> table[k]]
  <2>1. PICK D \in SUBSET Keys : table \in [D -> Stats]
    BY <1>1 DEF StatsTables
  <2> QED
    BY <2>1
<1>2. ASSUME NEW D \in SUBSET Keys, NEW table \in [D -> Stats] PROVE table \in StatsTables
  BY <1>2, Zenon DEF StatsTables
<1> QED
  BY <1>1, <1>2

\* No access is counted.
NothingCounted ==
  \A k \in DOMAIN stats_' :
    \/ stats_'[k].current_prediction_accesses_ = 0
    \/ /\ k \in DOMAIN stats_
       /\ stats_'[k].current_prediction_accesses_ = stats_[k].current_prediction_accesses_

SameSizes(s, r) == DOMAIN r.current_prediction_hits_ = DOMAIN s.current_prediction_hits_

LEMMA AllUpdatedEffect ==
  ASSUME StatsInv
  PROVE  AllUpdated \in StatsTables /\ DOMAIN AllUpdated = DOMAIN stats_
         /\ \A k \in DOMAIN stats_ :
              /\ AllUpdated[k].current_prediction_accesses_ = 0
              /\ SameSamples(stats_[k], AllUpdated[k])
              /\ SameSizes(stats_[k], AllUpdated[k])
              /\ \A sizes : Between(stats_[k], sizes) => Between(AllUpdated[k], sizes)
<1>1. DOMAIN stats_ \subseteq Keys /\ \A k \in DOMAIN stats_ : stats_[k] \in Stats
  BY TableType DEF StatsInv
<1>2. \A s \in Stats :
        /\ UpdateRatioPredictions(s) \in Stats
        /\ UpdateRatioPredictions(s).current_prediction_accesses_ = 0
        /\ SameSamples(s, UpdateRatioPredictions(s)) /\ SameSizes(s, UpdateRatioPredictions(s))
        /\ \A sizes : Between(s, sizes) => Between(UpdateRatioPredictions(s), sizes)
  BY UpdateEffect DEF SameSizes
<1>3. AllUpdated \in [DOMAIN stats_ -> Stats]
  BY <1>1, <1>2 DEF AllUpdated
<1>4. \A k \in DOMAIN stats_ : AllUpdated[k] = UpdateRatioPredictions(stats_[k])
  BY DEF AllUpdated
<1>5. AllUpdated \in StatsTables
  BY <1>1, <1>3, TableType
<1> QED
  BY <1>1, <1>2, <1>3, <1>4, <1>5

LEMMA SampledEffect ==
  ASSUME HolderInv, StacksInv', UNCHANGED <<setup, threads_seen_>>, StatsInv,
         NEW t \in threads_seen_
  PROVE  /\ Sampled(t) \in StatsTables /\ DOMAIN Sampled(t) = DOMAIN stats_
         /\ \A k \in DOMAIN stats_ :
              /\ k \notin KeysOf(t) => Sampled(t)[k] = stats_[k]
              /\ k = <<"sim", t>> /\ k \in KeysOf(t) =>
                   Sampled(t)[k] = Samples(stats_[k], sim_stacks_'[t].dists)
                   /\ sim_stacks_'[t].dists \in Seq(Int)
              /\ SameSizes(stats_[k], Sampled(t)[k])
              /\ Counted(stats_[k]) => Counted(Sampled(t)[k])
              /\ \A sizes : Between(stats_[k], sizes) => Between(Sampled(t)[k], sizes)
<1> DEFINE dists(k) == CASE k[1] = "sim" -> sim_stacks_'[t].dists
                         [] k[1] = "pair" -> pair_share_stacks_'[k[2]].dists
                         [] k[1] = "all" -> simulated_shared_stack_'.dists
           after(k) == IF k \in KeysOf(t) THEN Samples(stats_[k], dists(k)) ELSE stats_[k]
<1>1. DOMAIN stats_ \subseteq Keys /\ \A k \in DOMAIN stats_ : stats_[k] \in Stats
  BY TableType DEF StatsInv
<1>2. /\ \A kind : Used(kind)' = Used(kind) /\ Uses(kind)' = Uses(kind)
      /\ PairsSeen' = PairsSeen
  BY DEF Used, Uses, PairsSeen
<1>3. \A s \in Sound : s.dists \in Seq(Int)
  BY RecordFields
<1>4. Uses("sim") => sim_stacks_'[t].dists \in Seq(Int)
  <2> SUFFICES ASSUME Uses("sim") PROVE sim_stacks_'[t].dists \in Seq(Int)
    OBVIOUS
  <2>1. sim_stacks_' \in [Used("sim") -> Sound] /\ t \in Used("sim")
    BY <1>2 DEF StacksInv, Used
  <2> QED
    BY <1>3, <2>1
<1>5. Uses("shared") => /\ pair_share_stacks_'[PairOf(t)].dists \in Seq(Int)
                        /\ simulated_shared_stack_'.dists \in Seq(Int)
  <2> SUFFICES ASSUME Uses("shared")
               PROVE  /\ pair_share_stacks_'[PairOf(t)].dists \in Seq(Int)
                      /\ simulated_shared_stack_'.dists \in Seq(Int)
    OBVIOUS
  <2>1. pair_share_stacks_' \in [PairsSeen -> Sound] /\ PairOf(t) \in PairsSeen
    BY <1>2 DEF StacksInv, PairsSeen
  <2>2. simulated_shared_stack_' \in Sound
    BY <1>2 DEF StacksInv
  <2> QED
    BY <1>3, <2>1, <2>2
<1>6. \A k \in KeysOf(t) : dists(k) \in Seq(Int)
  <2> SUFFICES ASSUME NEW k \in KeysOf(t) PROVE dists(k) \in Seq(Int)
    OBVIOUS
  <2>1. CASE Uses("sim") /\ k = <<"sim", t>>
    <3>1. k[1] = "sim"
      BY <2>1
    <3> QED
      BY <1>4, <2>1, <3>1
  <2>2. CASE Uses("shared") /\ k = <<"pair", PairOf(t)>>
    <3>1. k[1] = "pair" /\ k[2] = PairOf(t)
      BY <2>2
    <3> QED
      BY <1>5, <2>2, <3>1
  <2>3. CASE Uses("shared") /\ k = <<"all", 0>>
    <3>1. k[1] = "all"
      BY <2>3
    <3> QED
      BY <1>5, <2>3, <3>1
  <2> QED
    BY <2>1, <2>2, <2>3 DEF KeysOf
<1>7. Sampled(t) = [k \in DOMAIN stats_ |-> after(k)]
  BY DEF Sampled, Samples
<1>8. \A k \in KeysOf(t) : k = <<"sim", t>> => dists(k) = sim_stacks_'[t].dists
  <2> SUFFICES ASSUME NEW k \in KeysOf(t), k = <<"sim", t>>
               PROVE  dists(k) = sim_stacks_'[t].dists
    OBVIOUS
  <2>1. k[1] = "sim"
    OBVIOUS
  <2> QED
    BY <2>1
<1> HIDE DEF dists
<1>9. \A s \in Stats, d \in Seq(Int) :
        /\ Samples(s, d) \in Stats /\ SameSizes(s, Samples(s, d))
        /\ Counted(s) => Counted(Samples(s, d))
        /\ \A sizes : Between(s, sizes) => Between(Samples(s, d), sizes)
  BY SamplesEffect DEF SameSizes
<1>10. \A k \in DOMAIN stats_ :
         /\ after(k) \in Stats /\ SameSizes(stats_[k], after(k))
         /\ Counted(stats_[k]) => Counted(after(k))
         /\ \A sizes : Between(stats_[k], sizes) => Between(after(k), sizes)
  <2> SUFFICES ASSUME NEW k \in DOMAIN stats_
               PROVE  /\ after(k) \in Stats /\ SameSizes(stats_[k], after(k))
                      /\ Counted(stats_[k]) => Counted(after(k))
                      /\ \A sizes : Between(stats_[k], sizes) => Between(after(k), sizes)
    OBVIOUS
  <2>1. CASE k \in KeysOf(t)
    <3>1. after(k) = Samples(stats_[k], dists(k)) /\ dists(k) \in Seq(Int) /\ stats_[k] \in Stats
      BY <1>1, <1>6, <2>1
    <3> HIDE DEF after
    <3> QED
      BY <1>9, <3>1
  <2>2. CASE k \notin KeysOf(t)
    <3>1. after(k) = stats_[k] /\ stats_[k] \in Stats
      BY <1>1, <2>2
    <3> HIDE DEF after
    <3> QED
      BY <3>1 DEF SameSizes
  <2> QED
    BY <2>1, <2>2
<1>11. \A k \in DOMAIN stats_ :
         /\ k \notin KeysOf(t) => after(k) = stats_[k]
         /\ k = <<"sim", t>> /\ k \in KeysOf(t) =>
              after(k) = Samples(stats_[k], sim_stacks_'[t].dists)
              /\ sim_stacks_'[t].dists \in Seq(Int)
  BY <1>6, <1>8
<1> HIDE DEF after
<1>12. Sampled(t) \in [DOMAIN stats_ -> Stats] /\ \A k \in DOMAIN stats_ : Sampled(t)[k] = after(k)
  BY <1>7, <1>10
<1>13. Sampled(t) \in StatsTables
  BY <1>1, <1>12, TableType
<1> QED
  BY <1>10, <1>11, <1>12, <1>13

\* A thread that starts brings statistics without samples.
LEMMA StartStats ==
  ASSUME HolderInv, ByTool, StatsInv, NEW t \in Thread, ThreadStart(t)
  PROVE  StatsInv' /\ NothingCounted
<1> DEFINE D == DOMAIN stats_ \cup KeysOf(t)
           new(k) == SetRatioPredictionSizes(NewStats, prediction_sizes_[k[1]])
<1>1. /\ stats_' = [k \in D |-> IF k \in DOMAIN stats_ THEN stats_[k] ELSE new(k)]
      /\ UNCHANGED prediction_sizes_
  BY DEF ThreadStart
<1>2. DOMAIN stats_ \subseteq Keys /\ \A k \in DOMAIN stats_ : stats_[k] \in Stats
  BY TableType DEF StatsInv
<1>3. D \in SUBSET Keys
  BY <1>2, KeysType
<1>4. \A k \in Keys : prediction_sizes_[k[1]] \in SUBSET Nat
  <2>1. \A k \in Keys : k[1] \in {"sim", "pair", "all"}
    BY DEF Keys
  <2>2. prediction_sizes_ \in [{"sim", "pair", "all"} -> SUBSET Nat]
    BY DEF StatsInv
  <2> QED
    BY <2>1, <2>2
<1>5. \A sizes \in SUBSET Nat :
        /\ SetRatioPredictionSizes(NewStats, sizes) \in Stats
        /\ SetRatioPredictionSizes(NewStats, sizes).current_prediction_accesses_ = 0
  BY NewStatsEffect
<1>6. \A k \in Keys : new(k) \in Stats /\ new(k).current_prediction_accesses_ = 0
  BY <1>4, <1>5
<1> HIDE DEF new, D
<1>7. stats_' \in [D -> Stats]
  BY <1>1, <1>2, <1>3, <1>6
<1>8. stats_' \in StatsTables
  BY <1>3, <1>7, TableType
<1>9. NothingCounted
  BY <1>1, <1>3, <1>6 DEF NothingCounted
<1> QED
  BY <1>1, <1>8, <1>9 DEF StatsInv

LEMMA AddSizeStats ==
  ASSUME HolderInv, StatsInv, NEW s \in setup.sizes, AddPredictionSize(s[1], s[2])
  PROVE  StatsInv' /\ NothingCounted
<1>1. s[1] \in {"sim", "pair", "all"} /\ s[2] \in Nat
  <2>1. setup \in Setups
    BY DEF HolderInv, StacksInv
  <2>2. setup.sizes \subseteq {"sim", "pair", "all"} \X Nat
    BY <2>1, ReuseDistanceAssumption
  <2> QED
    BY <2>2
<1> DEFINE after(k) == IF k[1] = s[1] THEN AddRatioPredictionSize(stats_[k], s[2]) ELSE stats_[k]
<1>2. /\ stats_' = [k \in DOMAIN stats_ |-> after(k)]
      /\ prediction_sizes_' = [prediction_sizes_ EXCEPT ![s[1]] = @ \cup {s[2]}]
  BY DEF AddPredictionSize
<1>3. DOMAIN stats_ \subseteq Keys /\ \A k \in DOMAIN stats_ : stats_[k] \in Stats
  BY TableType DEF StatsInv
<1>4. \A x \in Stats, size \in Nat :
        /\ AddRatioPredictionSize(x, size) \in Stats
        /\ AddRatioPredictionSize(x, size).current_prediction_accesses_
             = x.current_prediction_accesses_
  BY AddSizeEffect
<1>5. \A k \in DOMAIN stats_ :
        /\ after(k) \in Stats
        /\ after(k).current_prediction_accesses_ = stats_[k].current_prediction_accesses_
  BY <1>1, <1>3, <1>4
<1> HIDE DEF after
<1>6. stats_' \in [DOMAIN stats_ -> Stats]
  BY <1>2, <1>5
<1>7. stats_' \in StatsTables
  BY <1>3, <1>6, TableType
<1>8. NothingCounted
  BY <1>2, <1>5 DEF NothingCounted
<1>9. prediction_sizes_' \in [{"sim", "pair", "all"} -> SUBSET Nat]
  <2>1. prediction_sizes_ \in [{"sim", "pair", "all"} -> SUBSET Nat]
    BY DEF StatsInv
  <2>2. prediction_sizes_[s[1]] \cup {s[2]} \in SUBSET Nat
    BY <1>1, <2>1
  <2> QED
    BY <1>1, <1>2, <2>1, <2>2
<1> QED
  BY <1>7, <1>8, <1>9 DEF StatsInv

\* A step of UpdateRatioPredictions changes the statistics of one stack, if any.
LEMMA UpdateStats ==
  ASSUME StatsInv, NEW t \in Thread, Update(t)
  PROVE  /\ StatsInv' /\ NothingCounted
         /\ DOMAIN stats_' = DOMAIN stats_
         /\ ClearUpdated(t) /\ updating[t].key \in DOMAIN stats_ =>
              stats_'[updating[t].key].current_prediction_accesses_ = 0
<1>1. /\ DOMAIN stats_ \subseteq Keys
      /\ \A k \in DOMAIN stats_ : stats_[k] \in Stats
      /\ stats_ = [k \in DOMAIN stats_ |-> stats_[k]]
  BY TableType DEF StatsInv
<1>2. UNCHANGED prediction_sizes_
  BY DEF Update, recordVars
<1>3. ASSUME NEW key, NEW s, stats_' = [stats_ EXCEPT ![key] = s],
             key \in DOMAIN stats_ => /\ s \in Stats
                                      /\ \/ s.current_prediction_accesses_ = 0
                                         \/ s.current_prediction_accesses_
                                              = stats_[key].current_prediction_accesses_
      PROVE  /\ StatsInv' /\ NothingCounted /\ DOMAIN stats_' = DOMAIN stats_
             /\ key \in DOMAIN stats_ => stats_'[key] = s
  <2>1. stats_' \in [DOMAIN stats_ -> Stats]
    BY <1>1, <1>3
  <2>2. stats_' \in StatsTables
    BY <1>1, <2>1, TableType
  <2>3. \A k \in DOMAIN stats_ : stats_'[k] = IF k = key THEN s ELSE stats_[k]
    BY <1>3
  <2>4. NothingCounted
    BY <1>3, <2>1, <2>3 DEF NothingCounted
  <2>5. StatsInv'
    BY <1>2, <2>2 DEF StatsInv
  <2> QED
    BY <2>1, <2>3, <2>4, <2>5
<1> DEFINE key == updating[t].key
<1>4. ASSUME NEW k \in DOMAIN stats_, UpdateHits(t, k)
      PROVE  StatsInv' /\ NothingCounted /\ DOMAIN stats_' = DOMAIN stats_
  <2> DEFINE s == PushHits(stats_[k])
  <2>1. /\ s \in Stats
        /\ s.current_prediction_accesses_ = stats_[k].current_prediction_accesses_
    BY <1>1, <1>4, PushHitsEffect
  <2>2. stats_' = [stats_ EXCEPT ![k] = s]
    BY <1>4 DEF UpdateHits
  <2> HIDE DEF s
  <2> QED
    BY <1>3, <2>1, <2>2
<1>5. ASSUME UpdateAccesses(t)
      PROVE  StatsInv' /\ NothingCounted /\ DOMAIN stats_' = DOMAIN stats_
  <2> DEFINE s == PushAccesses(stats_[key])
  <2>1. key \in DOMAIN stats_ =>
          /\ s \in Stats
          /\ s.current_prediction_accesses_ = stats_[key].current_prediction_accesses_
    BY <1>1, PushAccessesEffect
  <2>2. stats_' = [stats_ EXCEPT ![key] = s]
    BY <1>5 DEF UpdateAccesses
  <2> HIDE DEF s, key
  <2> QED
    BY <1>3, <2>1, <2>2
<1>6. ASSUME ClearUpdated(t)
      PROVE  /\ StatsInv' /\ NothingCounted /\ DOMAIN stats_' = DOMAIN stats_
             /\ key \in DOMAIN stats_ => stats_'[key].current_prediction_accesses_ = 0
  <2> DEFINE s == ClearAccesses(stats_[key])
  <2>1. key \in DOMAIN stats_ => s \in Stats /\ s.current_prediction_accesses_ = 0
    BY <1>1, ClearAccessesEffect
  <2>2. stats_' = [stats_ EXCEPT ![key] = s]
    BY <1>6 DEF ClearUpdated
  <2> HIDE DEF s, key
  <2>3. /\ StatsInv' /\ NothingCounted /\ DOMAIN stats_' = DOMAIN stats_
        /\ key \in DOMAIN stats_ => stats_'[key] = s
    BY <1>3, <2>1, <2>2
  <2> QED
    BY <2>1, <2>3
<1>7. ASSUME UpdateEnds(t)
      PROVE  StatsInv' /\ NothingCounted /\ DOMAIN stats_' = DOMAIN stats_
  <2>1. UNCHANGED stats_
    BY <1>7 DEF UpdateEnds
  <2> QED
    BY <1>2, <2>1 DEF StatsInv, NothingCounted
<1>8. \/ \E k \in DOMAIN stats_ : UpdateHits(t, k)
      \/ UpdateAccesses(t) \/ ClearUpdated(t) \/ UpdateEnds(t)
  BY DEF Update
<1>9. StatsInv' /\ NothingCounted /\ DOMAIN stats_' = DOMAIN stats_
  BY <1>4, <1>5, <1>6, <1>7, <1>8
<1> QED
  BY <1>6, <1>9

LEMMA StopStats ==
  ASSUME StatsInv, stats_' \in {AllUpdated, stats_}, UNCHANGED prediction_sizes_
  PROVE  StatsInv' /\ NothingCounted
<1>1. CASE stats_' = AllUpdated
  <2>1. /\ AllUpdated \in StatsTables /\ DOMAIN AllUpdated = DOMAIN stats_
        /\ \A k \in DOMAIN stats_ : AllUpdated[k].current_prediction_accesses_ = 0
    BY AllUpdatedEffect
  <2> HIDE DEF AllUpdated
  <2> QED
    BY <1>1, <2>1 DEF StatsInv, NothingCounted
<1>2. CASE stats_' = stats_
  BY <1>2 DEF StatsInv, NothingCounted
<1> QED
  BY <1>1, <1>2

\* What an access leaves: nothing is counted if it is not recorded.
LEMMA RecordStats ==
  ASSUME HolderInv, ByTool, ProgramInv, ArbitersInv, StatsInv, NEW t \in Thread,
         RecordMem(t) \/ RecordFetch(t)
  PROVE  /\ StatsInv'
         /\ UNCHANGED global_enable_
         /\ UNCHANGED stats_ \/ global_enable_
<1>1. UNCHANGED prediction_sizes_
  BY DEF RecordMem, RecordFetch, Returned
<1>2. CASE Recording(t)
  <2>1. t \in threads_seen_ /\ StacksInv'
    BY <1>2, RecordMemEffect, RecordFetchEffect
  <2>2. stats_' = Sampled(t) /\ UNCHANGED <<setup, threads_seen_, global_enable_>>
    BY <1>2 DEF RecordMem, RecordFetch, Access, Fetch
  <2>3. Sampled(t) \in StatsTables
    BY <2>1, <2>2, SampledEffect
  <2> QED
    BY <1>1, <1>2, <2>2, <2>3 DEF StatsInv, Recording
<1>3. CASE ~Recording(t)
  BY <1>1, <1>3 DEF RecordMem, RecordFetch, StatsInv, vars
<1> QED
  BY <1>2, <1>3

LEMMA StatsAreKept ==
  ASSUME HolderInv, ByTool, ProgramInv, ArbitersInv, StatsInv, ToolNext
  PROVE  StatsInv'
<1>1. ASSUME UNCHANGED <<stats_, prediction_sizes_>> PROVE StatsInv'
  BY <1>1 DEF StatsInv
<1>2. ASSUME NEW t \in Thread, ThreadStart(t) PROVE StatsInv'
  BY <1>2, StartStats
<1>3. ASSUME NEW t \in Thread, Calling(t) PROVE StatsInv'
  BY <1>1, <1>3, CallingIsQuiet DEF recordVars
<1>4. ASSUME NEW t \in Thread, RecordMem(t) \/ RecordFetch(t) PROVE StatsInv'
  BY <1>4, RecordStats
<1>5. ASSUME NEW t \in Thread, Marking(t) PROVE StatsInv'
  <2>1. UNCHANGED prediction_sizes_ /\ (UNCHANGED stats_ \/ Stop(t))
    BY <1>5, MarkingIsQuiet DEF recordVars
  <2>2. Stop(t) => stats_' \in {AllUpdated, stats_}
    BY DEF Stop
  <2> QED
    BY <1>1, <2>1, <2>2, StopStats
<1>6. ASSUME NEW t \in Thread, Update(t) PROVE StatsInv'
  BY <1>6, UpdateStats
<1>7. ASSUME NEW s \in setup.sizes, AddPredictionSize(s[1], s[2]) PROVE StatsInv'
  BY <1>7, AddSizeStats
<1>8. ASSUME Fini PROVE StatsInv'
  <2>1. stats_' = AllUpdated /\ UNCHANGED prediction_sizes_
    BY <1>8 DEF Fini, recordVars
  <2> QED
    BY <2>1, StopStats
<1> QED
  BY <1>2, <1>3, <1>4, <1>5, <1>6, <1>7, <1>8, ToolSteps

-----------------------------------------------------------------------------
(* The end of a period                                                     *)

LEMMA UpdaterFields ==
  ASSUME NEW u \in Updater
  PROVE  /\ u.done \subseteq Keys /\ u.key \in Keys \cup {<<>>}
         /\ u.step \in {"hits", "push", "clear"} /\ u.next \in {"disable", "program"}
         /\ u.step = "hits" \/ u.key \in Keys
         /\ u \in UpdateRecord
  BY DEF Updater, UpdateRecord

\* The steps of a thread that updates, and what they leave in its record.
LEMMA UpdaterAfter ==
  ASSUME ProgramInv, StatsInv, UpdatesInv, NEW t \in Thread, Update(t)
  PROVE  /\ UpdatesInv'
         /\ \A u \in Thread \ {t} : pc'[u] = pc[u] /\ updating'[u] = updating[u]
         /\ \/ UNCHANGED pc /\ updating'[t].done = updating[t].done
            \/ /\ UNCHANGED pc /\ ClearUpdated(t)
               /\ updating'[t].done = updating[t].done \cup {updating[t].key}
            \/ /\ DOMAIN stats_ \subseteq updating[t].done /\ UNCHANGED stats_
               /\ pc'[t] \in {"disable", "program"}
<1> DEFINE old == updating[t]
<1>1. /\ pc[t] = "update" /\ old \in Updater
      /\ updating \in [Thread -> Updater \cup {<<>>}]
      /\ \A u \in Thread : pc[u] = "update" => updating[u] \in Updater
  BY DEF UpdatesInv, Update
<1>2. DOMAIN stats_ \subseteq Keys
  BY TableType DEF StatsInv
<1>3. ASSUME NEW new \in Updater, updating' = [updating EXCEPT ![t] = new], UNCHANGED pc
      PROVE  UpdatesInv' /\ updating'[t] = new
             /\ \A u \in Thread \ {t} : pc'[u] = pc[u] /\ updating'[u] = updating[u]
  BY <1>1, <1>3 DEF UpdatesInv
<1>4. ASSUME NEW k \in DOMAIN stats_, UpdateHits(t, k)
      PROVE  /\ UpdatesInv' /\ UNCHANGED pc /\ updating'[t].done = old.done
             /\ \A u \in Thread \ {t} : pc'[u] = pc[u] /\ updating'[u] = updating[u]
  <2> DEFINE new == [old EXCEPT !.key = k, !.step = "push"]
  <2>1. new \in Updater /\ new.done = old.done
    <3>1. k \in Keys /\ k \in Keys \cup {<<>>} /\ "push" \in {"hits", "push", "clear"}
      BY <1>2, <1>4
    <3>2. old \in UpdateRecord
      BY <1>1, UpdaterFields
    <3> HIDE DEF old
    <3>3. new \in UpdateRecord /\ new.key = k /\ new.done = old.done
      BY <3>1, <3>2 DEF UpdateRecord
    <3> HIDE DEF new
    <3> QED
      BY <3>1, <3>3 DEF Updater
  <2>2. updating' = [updating EXCEPT ![t] = new] /\ UNCHANGED pc
    BY <1>1, <1>4 DEF UpdateHits
  <2> HIDE DEF new
  <2> QED
    BY <1>3, <2>1, <2>2
<1>5. ASSUME UpdateAccesses(t)
      PROVE  /\ UpdatesInv' /\ UNCHANGED pc /\ updating'[t].done = old.done
             /\ \A u \in Thread \ {t} : pc'[u] = pc[u] /\ updating'[u] = updating[u]
  <2> DEFINE new == [old EXCEPT !.step = "clear"]
  <2>1. new \in Updater /\ new.done = old.done
    <3>1. "clear" \in {"hits", "push", "clear"}
      OBVIOUS
    <3>2. old \in UpdateRecord /\ old.key \in Keys
      <4>1. old.step # "hits"
        BY <1>5 DEF UpdateAccesses
      <4> QED
        BY <1>1, <4>1, UpdaterFields
    <3> HIDE DEF old
    <3>3. new \in UpdateRecord /\ new.key = old.key /\ new.done = old.done
      BY <3>1, <3>2 DEF UpdateRecord
    <3> HIDE DEF new
    <3> QED
      BY <3>2, <3>3 DEF Updater
  <2>2. updating' = [updating EXCEPT ![t] = new] /\ UNCHANGED pc
    BY <1>1, <1>5 DEF UpdateAccesses
  <2> HIDE DEF new
  <2> QED
    BY <1>3, <2>1, <2>2
<1>6. ASSUME ClearUpdated(t)
      PROVE  /\ UpdatesInv' /\ UNCHANGED pc /\ updating'[t].done = old.done \cup {old.key}
             /\ \A u \in Thread \ {t} : pc'[u] = pc[u] /\ updating'[u] = updating[u]
  <2> DEFINE done == old.done \cup {old.key}
             new == [old EXCEPT !.done = done, !.step = "hits"]
  <2>1. old.key \in Keys /\ done \in SUBSET Keys
    <3>1. old.step # "hits"
      BY <1>6 DEF ClearUpdated
    <3> QED
      BY <1>1, <3>1, UpdaterFields
  <2>2. updating' = [updating EXCEPT ![t] = new] /\ UNCHANGED pc
    BY <1>1, <1>6 DEF ClearUpdated
  <2> HIDE DEF done
  <2>3. new \in Updater /\ new.done = done
    <3>1. "hits" \in {"hits", "push", "clear"}
      OBVIOUS
    <3>2. old \in UpdateRecord
      BY <1>1, UpdaterFields
    <3> HIDE DEF old
    <3>3. new \in UpdateRecord /\ new.step = "hits" /\ new.done = done
      BY <2>1, <3>1, <3>2 DEF UpdateRecord
    <3> HIDE DEF new
    <3> QED
      BY <3>3 DEF Updater
  <2> HIDE DEF new
  <2> QED
    BY <1>3, <2>2, <2>3 DEF done
<1>7. ASSUME UpdateEnds(t)
      PROVE  /\ UpdatesInv' /\ DOMAIN stats_ \subseteq old.done /\ UNCHANGED stats_
             /\ \A u \in Thread \ {t} : pc'[u] = pc[u] /\ updating'[u] = updating[u]
             /\ pc'[t] \in {"disable", "program"}
  <2>1. /\ pc' = [pc EXCEPT ![t] = old.next] /\ updating' = [updating EXCEPT ![t] = <<>>]
        /\ DOMAIN stats_ \subseteq old.done /\ UNCHANGED stats_
    BY <1>7 DEF UpdateEnds
  <2>2. old.next \in {"disable", "program"}
    BY <1>1, UpdaterFields
  <2>3. t \in DOMAIN pc
    BY DEF ProgramInv
  <2> HIDE DEF old
  <2>4. /\ pc'[t] = old.next
        /\ \A u \in Thread \ {t} : pc'[u] = pc[u] /\ updating'[u] = updating[u]
    BY <1>1, <2>1, <2>3
  <2>5. updating' \in [Thread -> Updater \cup {<<>>}]
    BY <1>1, <2>1
  <2>6. \A u \in Thread : pc'[u] = "update" => updating'[u] \in Updater
    BY <1>1, <2>2, <2>4
  <2> QED
    BY <2>1, <2>2, <2>4, <2>5, <2>6 DEF UpdatesInv
<1> QED
  BY <1>4, <1>5, <1>6, <1>7 DEF Update

\* Where the marks take a thread.
LEMMA MarkingMoves ==
  ASSUME ProgramInv, NEW t \in Thread, Marking(t)
  PROVE  /\ \A u \in Thread \ {t} : pc'[u] = pc[u] /\ updating'[u] = updating[u]
         /\ overlapped => overlapped'
         /\ \/ UNCHANGED updating /\ pc'[t] \in {"program", "enable", "stop"}
            \/ \E next \in {"disable", "program"} :
                 /\ updating' = [updating EXCEPT ![t] =
                                   [done |-> {}, key |-> <<>>, step |-> "hits", next |-> next]]
                 /\ pc'[t] = "update"
<1>1. t \in DOMAIN pc
  BY DEF ProgramInv
<1>2. ASSUME NEW next \in {"disable", "program"}, Updating(t, next)
      PROVE  /\ \A u \in Thread \ {t} : pc'[u] = pc[u] /\ updating'[u] = updating[u]
             /\ overlapped => overlapped'
             /\ updating' = [updating EXCEPT ![t] =
                               [done |-> {}, key |-> <<>>, step |-> "hits", next |-> next]]
             /\ pc'[t] = "update"
  <2>1. pc' = [pc EXCEPT ![t] = "update"]
    BY <1>2 DEF Updating
  <2>2. updating' = [updating EXCEPT ![t] =
                       [done |-> {}, key |-> <<>>, step |-> "hits", next |-> next]]
    BY <1>2 DEF Updating
  <2>3. pc'[t] = "update"
    BY <1>1, <2>1
  <2>4. \A u \in Thread \ {t} : pc'[u] = pc[u]
    BY <2>1
  <2>5. \A u \in Thread \ {t} : updating'[u] = updating[u]
    BY <2>2
  <2>6. overlapped => overlapped'
    BY <1>2 DEF Updating
  <2> QED
    BY <2>2, <2>3, <2>4, <2>5, <2>6
<1>3. ASSUME NEW next \in {"program", "enable", "stop"}, pc' = [pc EXCEPT ![t] = next]
      PROVE  pc'[t] = next /\ \A u \in Thread \ {t} : pc'[u] = pc[u]
  BY <1>1, <1>3
<1>4. CASE StartTimer(t)
  BY <1>3, <1>4 DEF StartTimer
<1>5. CASE StopTimer(t)
  BY <1>2, <1>3, <1>5 DEF StopTimer
<1>6. CASE Enable(t)
  BY <1>3, <1>6 DEF Enable
<1>7. CASE Stop(t)
  BY <1>3, <1>7 DEF Stop
<1>8. CASE Disable(t)
  BY <1>3, <1>8 DEF Disable
<1>9. CASE EndPeriod(t)
  BY <1>2, <1>9 DEF EndPeriod
<1>10. CASE \E enable \in BOOLEAN : LocalPeriod(t, enable)
  BY <1>10 DEF LocalPeriod, Marked
<1> QED
  BY <1>4, <1>5, <1>6, <1>7, <1>8, <1>9, <1>10 DEF Marking

LEMMA UpdatesAreKept ==
  ASSUME HolderInv, ByTool, ProgramInv, StatsInv, UpdatesInv, ToolNext
  PROVE  UpdatesInv'
<1>1. ASSUME UNCHANGED updating, \A u \in Thread : pc'[u] = "update" => pc[u] = "update"
      PROVE  UpdatesInv'
  BY <1>1 DEF UpdatesInv
<1>2. ASSUME NEW t \in Thread, ThreadStart(t) PROVE UpdatesInv'
  BY <1>1, <1>2 DEF ThreadStart
<1>3. ASSUME NEW t \in Thread, Calling(t) PROVE UpdatesInv'
  <2>1. UNCHANGED updating /\ (UNCHANGED pc \/ pc' = [pc EXCEPT ![t] = "record"])
    BY <1>3 DEF Calling, Execute, CallNext, Call
  <2>2. \A u \in Thread : pc'[u] = "update" => pc[u] = "update"
    BY <2>1 DEF ProgramInv
  <2> QED
    BY <1>1, <2>1, <2>2
<1>4. ASSUME NEW t \in Thread, RecordMem(t) \/ RecordFetch(t) PROVE UpdatesInv'
  <2>1. UNCHANGED updating /\ pc' = [pc EXCEPT ![t] = "program"]
    BY <1>4 DEF RecordMem, RecordFetch, Returned
  <2>2. \A u \in Thread : pc'[u] = "update" => pc[u] = "update"
    BY <2>1 DEF ProgramInv
  <2> QED
    BY <1>1, <2>1, <2>2
<1>5. ASSUME NEW t \in Thread, Marking(t) PROVE UpdatesInv'
  <2>1. \A u \in Thread \ {t} : pc'[u] = pc[u] /\ updating'[u] = updating[u]
    BY <1>5, MarkingMoves
  <2>2. CASE UNCHANGED updating /\ pc'[t] \in {"program", "enable", "stop"}
    <3>1. \A u \in Thread : pc'[u] = "update" => pc[u] = "update"
      BY <2>1, <2>2
    <3> QED
      BY <1>1, <2>2, <3>1
  <2>3. ASSUME NEW next \in {"disable", "program"},
               updating' = [updating EXCEPT ![t] =
                              [done |-> {}, key |-> <<>>, step |-> "hits", next |-> next]]
        PROVE  UpdatesInv'
    <3> DEFINE new == [done |-> {}, key |-> <<>>, step |-> "hits", next |-> next]
    <3>1. new \in UpdateRecord /\ new.step = "hits"
      BY <2>3 DEF UpdateRecord
    <3> HIDE DEF new
    <3>2. new \in Updater
      BY <3>1 DEF Updater
    <3>3. updating' = [updating EXCEPT ![t] = new]
      BY <2>3 DEF new
    <3>4. updating' \in [Thread -> Updater \cup {<<>>}] /\ updating'[t] = new
      BY <1>5, <3>2, <3>3 DEF UpdatesInv
    <3> QED
      BY <1>5, <2>1, <3>2, <3>4 DEF UpdatesInv
  <2> QED
    BY <1>5, <2>2, <2>3, MarkingMoves
<1>6. ASSUME NEW t \in Thread, Update(t) PROVE UpdatesInv'
  BY <1>6, UpdaterAfter
<1>7. ASSUME NEW s \in setup.sizes, AddPredictionSize(s[1], s[2]) PROVE UpdatesInv'
  BY <1>1, <1>7 DEF AddPredictionSize
<1>8. ASSUME Fini PROVE UpdatesInv'
  BY <1>1, <1>8 DEF Fini
<1> QED
  BY <1>2, <1>3, <1>4, <1>5, <1>6, <1>7, <1>8, ToolSteps

\* The step of a thread from one place of UpdateRatioPredictions to the next, which leaves
\* new statistics for one stack.
Steps(t, from, to, k, s) ==
  /\ updating[t].step = from /\ updating'[t].step = to /\ updating'[t].key = k
  /\ UNCHANGED pc /\ stats_' = [stats_ EXCEPT ![k] = s]

LEMMA UpdateSteps ==
  ASSUME ProgramInv, UpdatesInv, NEW t \in Thread, Update(t)
  PROVE  LET key == updating[t].key IN
         \/ \E k \in DOMAIN stats_ : Steps(t, "hits", "push", k, PushHits(stats_[k]))
         \/ Steps(t, "push", "clear", key, PushAccesses(stats_[key]))
         \/ Steps(t, "clear", "hits", key, ClearAccesses(stats_[key]))
         \/ updating[t].step = "hits" /\ UNCHANGED stats_ /\ pc'[t] \in {"disable", "program"}
<1> DEFINE old == updating[t]
           key == old.key
<1>1. /\ old \in UpdateRecord /\ old.next \in {"disable", "program"}
      /\ t \in DOMAIN updating /\ t \in DOMAIN pc
  <2>1. old \in Updater
    BY DEF UpdatesInv, Update
  <2> QED
    BY <2>1, UpdaterFields DEF UpdatesInv, ProgramInv
<1>2. ASSUME NEW k \in DOMAIN stats_, UpdateHits(t, k)
      PROVE  Steps(t, "hits", "push", k, PushHits(stats_[k]))
  <2>1. updating' = [updating EXCEPT ![t].key = k, ![t].step = "push"]
    BY <1>2 DEF UpdateHits
  <2>2. updating'[t].key = k /\ updating'[t].step = "push"
    BY <1>1, <2>1 DEF UpdateRecord
  <2> QED
    BY <1>2, <2>2 DEF UpdateHits, Steps
<1>3. ASSUME UpdateAccesses(t)
      PROVE  Steps(t, "push", "clear", key, PushAccesses(stats_[key]))
  <2>1. updating' = [updating EXCEPT ![t].step = "clear"]
    BY <1>3 DEF UpdateAccesses
  <2>2. updating'[t].key = key /\ updating'[t].step = "clear"
    BY <1>1, <2>1 DEF UpdateRecord
  <2> QED
    BY <1>3, <2>2 DEF UpdateAccesses, Steps
<1>4. ASSUME ClearUpdated(t)
      PROVE  Steps(t, "clear", "hits", key, ClearAccesses(stats_[key]))
  <2> DEFINE done == old.done \cup {key}
  <2>1. updating' = [updating EXCEPT ![t].done = done, ![t].step = "hits"]
    BY <1>4 DEF ClearUpdated
  <2> HIDE DEF done
  <2>2. updating'[t].key = key /\ updating'[t].step = "hits"
    BY <1>1, <2>1 DEF UpdateRecord
  <2> QED
    BY <1>4, <2>2 DEF ClearUpdated, Steps
<1>5. ASSUME UpdateEnds(t)
      PROVE  updating[t].step = "hits" /\ UNCHANGED stats_ /\ pc'[t] \in {"disable", "program"}
  BY <1>1, <1>5 DEF UpdateEnds
<1> QED
  BY <1>2, <1>3, <1>4, <1>5 DEF Update

\* All stacks have been flushed.
NothingLeft == \A k \in DOMAIN stats_' : stats_'[k].current_prediction_accesses_ = 0

LEMMA FlushedAfter ==
  ASSUME StatsInv, StatsInv', FlushedInv, NothingCounted, overlapped => overlapped',
         ~overlapped' /\ ~global_enable_' =>
           ~global_enable_ \/ (\E u \in Thread : pc[u] = "disable") \/ NothingLeft,
         \A u \in Thread : pc'[u] = "disable" /\ ~overlapped' => pc[u] = "disable" \/ NothingLeft,
         \A u \in Thread : pc'[u] = "update" =>
           \A k \in DOMAIN stats_' : k \in updating'[u].done =>
             \/ stats_'[k].current_prediction_accesses_ = 0
             \/ pc[u] = "update" /\ k \in updating[u].done
  PROVE  FlushedInv'
<1> SUFFICES ASSUME ~overlapped' PROVE FlushedInv'
  BY DEF FlushedInv
<1>1. DOMAIN stats_ \subseteq Keys /\ DOMAIN stats_' \subseteq Keys
  <2>1. stats_ \in StatsTables /\ stats_' \in StatsTables
    BY DEF StatsInv
  <2> QED
    BY <2>1, TableType
<1>2. ~overlapped
  OBVIOUS
<1>3. /\ ~global_enable_ => Flushed(Keys)
      /\ \A u \in Thread : pc[u] = "update" => Flushed(updating[u].done)
      /\ \A u \in Thread : pc[u] = "disable" => Flushed(Keys)
  BY <1>2 DEF FlushedInv
<1>4. Flushed(Keys) => NothingLeft
  BY <1>1 DEF Flushed, NothingCounted, NothingLeft
<1>5. ~global_enable_' => NothingLeft
  BY <1>3, <1>4
<1>6. \A u \in Thread : pc'[u] = "disable" => NothingLeft
  BY <1>3, <1>4
<1>7. ASSUME NEW u \in Thread, pc'[u] = "update", NEW k \in DOMAIN stats_',
             k \in updating'[u].done
      PROVE  stats_'[k].current_prediction_accesses_ = 0
  <2>1. CASE pc[u] = "update" /\ k \in updating[u].done
    <3>1. k \in DOMAIN stats_ => stats_[k].current_prediction_accesses_ = 0
      BY <1>3, <1>7, <2>1 DEF Flushed
    <3> QED
      BY <1>7, <3>1 DEF NothingCounted
  <2> QED
    BY <1>7, <2>1
<1> QED
  BY <1>5, <1>6, <1>7 DEF FlushedInv, Flushed, NothingLeft

LEMMA FlushedIsKept ==
  ASSUME HolderInv, ByTool, ProgramInv, ArbitersInv, StatsInv, UpdatesInv, FlushedInv, ToolNext
  PROVE  FlushedInv'
<1>0. StatsInv'
  BY StatsAreKept
<1>1. ASSUME NothingCounted, overlapped => overlapped', UNCHANGED <<pc, updating, global_enable_>>
      PROVE  FlushedInv'
  <2>1. \A u \in Thread : pc'[u] = "disable" => pc[u] = "disable"
    BY <1>1
  <2>2. \A u \in Thread : pc'[u] = "update" =>
          \A k \in DOMAIN stats_' : k \in updating'[u].done =>
            pc[u] = "update" /\ k \in updating[u].done
    BY <1>1
  <2> QED
    BY <1>0, <1>1, <2>1, <2>2, FlushedAfter
<1>2. UNCHANGED stats_ => NothingCounted
  BY DEF NothingCounted
<1>3. ASSUME NEW t \in Thread, ThreadStart(t) PROVE FlushedInv'
  <2>1. NothingCounted
    BY <1>3, StartStats
  <2> QED
    BY <1>1, <1>3, <2>1 DEF ThreadStart, Allocate
<1>4. ASSUME NEW t \in Thread, Calling(t) PROVE FlushedInv'
  <2>1. UNCHANGED <<vars, updating, stats_, overlapped>>
    BY <1>4, CallingIsQuiet
  <2>2. UNCHANGED pc \/ pc' = [pc EXCEPT ![t] = "record"]
    BY <1>4 DEF Calling, Execute, CallNext, Call
  <2>3. \A u \in Thread : pc'[u] \in {"update", "disable"} => pc'[u] = pc[u]
    BY <2>2 DEF ProgramInv
  <2>4. UNCHANGED global_enable_
    BY <2>1 DEF vars
  <2>5. \A u \in Thread : pc'[u] = "disable" => pc[u] = "disable"
    BY <2>3
  <2>6. \A u \in Thread : pc'[u] = "update" =>
          \A k \in DOMAIN stats_' : k \in updating'[u].done =>
            pc[u] = "update" /\ k \in updating[u].done
    BY <2>1, <2>3
  <2> QED
    BY <1>0, <1>2, <2>1, <2>4, <2>5, <2>6, FlushedAfter
<1>5. ASSUME NEW t \in Thread, RecordMem(t) \/ RecordFetch(t) PROVE FlushedInv'
  <2>1. /\ pc' = [pc EXCEPT ![t] = "program"] /\ UNCHANGED updating
        /\ overlapped' = (overlapped \/ Overlaps(t))
    BY <1>5 DEF RecordMem, RecordFetch, Returned
  <2>2. UNCHANGED global_enable_ /\ (UNCHANGED stats_ \/ global_enable_)
    BY <1>5, RecordStats
  <2>3. CASE overlapped'
    BY <2>3 DEF FlushedInv
  <2>4. CASE ~overlapped'
    <3>1. ~overlapped /\ \A u \in Thread \ {t} : pc[u] \notin {"update", "disable"}
      BY <2>1, <2>4 DEF Overlaps
    <3>2. \A u \in Thread : pc'[u] \notin {"update", "disable"}
      BY <2>1, <3>1 DEF ProgramInv
    <3>3. ~global_enable_' => UNCHANGED stats_ /\ Flushed(Keys)
      BY <2>2, <3>1 DEF FlushedInv
    <3> QED
      BY <3>2, <3>3 DEF FlushedInv, Flushed
  <2> QED
    BY <2>3, <2>4
<1>6. ASSUME NEW t \in Thread, Marking(t) PROVE FlushedInv'
  <2>1. /\ \A u \in Thread \ {t} : pc'[u] = pc[u] /\ updating'[u] = updating[u]
        /\ overlapped => overlapped'
    BY <1>6, MarkingMoves
  <2>2. NothingCounted
    <3>1. UNCHANGED prediction_sizes_ /\ (UNCHANGED stats_ \/ Stop(t))
      BY <1>6, MarkingIsQuiet DEF recordVars
    <3>2. Stop(t) => stats_' \in {AllUpdated, stats_}
      BY DEF Stop
    <3> QED
      BY <1>2, <3>1, <3>2, StopStats
  <2>3. pc'[t] # "disable" /\ (pc'[t] = "update" => updating'[t].done = {})
    <3>1. CASE pc'[t] \in {"program", "enable", "stop"}
      BY <3>1
    <3>2. ASSUME NEW next \in {"disable", "program"}, pc'[t] = "update",
                 updating' = [updating EXCEPT ![t] =
                                [done |-> {}, key |-> <<>>, step |-> "hits", next |-> next]]
          PROVE  updating'[t].done = {}
      <4>1. t \in DOMAIN updating
        BY <1>6 DEF UpdatesInv
      <4>2. updating'[t] = [done |-> {}, key |-> <<>>, step |-> "hits", next |-> next]
        BY <3>2, <4>1
      <4> QED
        BY <4>2
    <3> QED
      BY <1>6, <3>1, <3>2, MarkingMoves
  <2>4. ~global_enable_' => ~global_enable_ \/ (\E u \in Thread : pc[u] = "disable") \/ NothingLeft
    <3>1. CASE Stop(t)
      <4>1. CASE global_enable_
        <5>1. stats_' = AllUpdated
          BY <3>1, <4>1 DEF Stop
        <5>2. DOMAIN AllUpdated = DOMAIN stats_
              /\ \A k \in DOMAIN stats_ : AllUpdated[k].current_prediction_accesses_ = 0
          BY AllUpdatedEffect
        <5> HIDE DEF AllUpdated
        <5>3. NothingLeft
          BY <5>1, <5>2 DEF NothingLeft
        <5> QED
          BY <5>3
      <4> QED
        BY <4>1
    <3>2. CASE Disable(t)
      BY <1>6, <3>2 DEF Disable
    <3>3. CASE StartTimer(t)
      BY <3>3 DEF StartTimer, set_global_enable
    <3>4. CASE StopTimer(t) \/ Enable(t) \/ EndPeriod(t)
      BY <3>4 DEF StopTimer, Enable, EndPeriod, vars
    <3>5. CASE \E enable \in BOOLEAN : LocalPeriod(t, enable)
      BY <3>5 DEF LocalPeriod, SetThreadEnabled
    <3> QED
      BY <1>6, <3>1, <3>2, <3>3, <3>4, <3>5 DEF Marking
  <2>5. \A u \in Thread : pc'[u] = "disable" => pc[u] = "disable"
    BY <2>1, <2>3
  <2>6. \A u \in Thread : pc'[u] = "update" =>
          \A k \in DOMAIN stats_' : k \in updating'[u].done =>
            pc[u] = "update" /\ k \in updating[u].done
    BY <2>1, <2>3
  <2> QED
    BY <1>0, <2>1, <2>2, <2>4, <2>5, <2>6, FlushedAfter
<1>7. ASSUME NEW t \in Thread, Update(t) PROVE FlushedInv'
  <2>1. /\ NothingCounted /\ DOMAIN stats_' = DOMAIN stats_
        /\ ClearUpdated(t) /\ updating[t].key \in DOMAIN stats_ =>
             stats_'[updating[t].key].current_prediction_accesses_ = 0
    BY <1>7, UpdateStats
  <2>2. \A u \in Thread \ {t} : pc'[u] = pc[u] /\ updating'[u] = updating[u]
    BY <1>7, UpdaterAfter
  <2>3. pc[t] = "update" /\ (overlapped => overlapped') /\ UNCHANGED global_enable_
    BY <1>7 DEF Update, vars
  <2>4. CASE UNCHANGED pc /\ updating'[t].done = updating[t].done
    <3>1. \A u \in Thread : pc'[u] = "disable" => pc[u] = "disable"
      BY <2>4
    <3>2. \A u \in Thread : pc'[u] = "update" =>
            \A k \in DOMAIN stats_' : k \in updating'[u].done =>
              pc[u] = "update" /\ k \in updating[u].done
      BY <2>2, <2>4
    <3> QED
      BY <1>0, <2>1, <2>3, <3>1, <3>2, FlushedAfter
  <2>5. CASE /\ UNCHANGED pc /\ ClearUpdated(t)
             /\ updating'[t].done = updating[t].done \cup {updating[t].key}
    <3>1. \A u \in Thread : pc'[u] = "disable" => pc[u] = "disable"
      BY <2>5
    <3>2. \A u \in Thread : pc'[u] = "update" =>
            \A k \in DOMAIN stats_' : k \in updating'[u].done =>
              \/ stats_'[k].current_prediction_accesses_ = 0
              \/ pc[u] = "update" /\ k \in updating[u].done
      BY <2>1, <2>2, <2>5
    <3> QED
      BY <1>0, <2>1, <2>3, <3>1, <3>2, FlushedAfter
  <2>6. CASE /\ DOMAIN stats_ \subseteq updating[t].done /\ UNCHANGED stats_
             /\ pc'[t] \in {"disable", "program"}
    <3>1. ~overlapped' => NothingLeft
      BY <1>7, <2>3, <2>6 DEF FlushedInv, Flushed, NothingLeft
    <3>2. \A u \in Thread : pc'[u] = "disable" /\ ~overlapped' => pc[u] = "disable" \/ NothingLeft
      BY <3>1
    <3>3. \A u \in Thread : pc'[u] = "update" =>
            \A k \in DOMAIN stats_' : k \in updating'[u].done =>
              pc[u] = "update" /\ k \in updating[u].done
      BY <2>2, <2>6
    <3> QED
      BY <1>0, <2>1, <2>3, <3>2, <3>3, FlushedAfter
  <2> QED
    BY <1>7, <2>4, <2>5, <2>6, UpdaterAfter
<1>8. ASSUME NEW s \in setup.sizes, AddPredictionSize(s[1], s[2]) PROVE FlushedInv'
  <2>1. NothingCounted
    BY <1>8, AddSizeStats
  <2>2. UNCHANGED <<pc, updating>> /\ (overlapped => overlapped') /\ UNCHANGED global_enable_
    BY <1>8 DEF AddPredictionSize, vars
  <2> QED
    BY <1>1, <2>1, <2>2
<1>9. ASSUME Fini PROVE FlushedInv'
  <2>1. stats_' = AllUpdated /\ pc' = [t \in Thread |-> "ended"]
    BY <1>9 DEF Fini
  <2>2. DOMAIN AllUpdated = DOMAIN stats_
        /\ \A k \in DOMAIN stats_ : AllUpdated[k].current_prediction_accesses_ = 0
    BY AllUpdatedEffect
  <2>3. \A u \in Thread : pc'[u] # "update" /\ pc'[u] # "disable"
    BY <2>1
  <2> HIDE DEF AllUpdated
  <2> QED
    BY <2>1, <2>2, <2>3 DEF FlushedInv, Flushed
<1> QED
  BY <1>3, <1>4, <1>5, <1>6, <1>7, <1>8, <1>9, ToolSteps

-----------------------------------------------------------------------------
(* The samples and what the stacks count                                   *)

SamplesInv ==
  \A k \in DOMAIN stats_ :
    /\ Counted(stats_[k])
    /\ k[1] = "sim" => /\ k[2] \in Used("sim")
                       /\ stats_[k].cold_miss_count_ = sim_stacks_[k[2]].coldCount
                       /\ stats_[k].inval_miss_count_ = sim_stacks_[k[2]].coherenceMisses

\* Neither the samples nor the stacks change.
LEMMA SamplesQuiet ==
  ASSUME SamplesInv, UNCHANGED <<setup, threads_seen_, sim_stacks_>>,
         DOMAIN stats_' = DOMAIN stats_,
         \A k \in DOMAIN stats_ : SameSamples(stats_[k], stats_'[k])
  PROVE  SamplesInv'
<1>1. Used("sim")' = Used("sim")
  BY DEF Used, Uses
<1> SUFFICES ASSUME NEW k \in DOMAIN stats_
             PROVE  /\ Counted(stats_'[k])
                    /\ k[1] = "sim" =>
                         /\ k[2] \in Used("sim")
                         /\ stats_'[k].cold_miss_count_ = sim_stacks_[k[2]].coldCount
                         /\ stats_'[k].inval_miss_count_ = sim_stacks_[k[2]].coherenceMisses
  BY <1>1 DEF SamplesInv
<1>2. Counted(stats_'[k])
  BY DEF SamplesInv, SameSamples, Counted
<1> QED
  BY <1>2 DEF SamplesInv, SameSamples

\* A thread that starts brings a stack and statistics without misses.
LEMMA StartSamples ==
  ASSUME HolderInv, ByTool, StatsInv, SamplesInv, NEW t \in Thread, ThreadStart(t)
  PROVE  SamplesInv'
<1> DEFINE D == DOMAIN stats_ \cup KeysOf(t)
           new(k) == SetRatioPredictionSizes(NewStats, prediction_sizes_[k[1]])
<1>1. /\ stats_' = [k \in D |-> IF k \in DOMAIN stats_ THEN stats_[k] ELSE new(k)]
      /\ t \notin threads_seen_ /\ threads_seen_' = threads_seen_ \cup {t} /\ setup' = setup
      /\ sim_stacks_' = AddIf(Uses("sim"), sim_stacks_, t)
  BY DEF ThreadStart, Allocate
<1>2. Used("sim")' = IF Uses("sim") THEN Used("sim") \cup {t} ELSE {}
  BY <1>1 DEF Used, Uses
<1>3. sim_stacks_ \in [Used("sim") -> Sound] /\ t \notin Used("sim")
  BY <1>1 DEF HolderInv, StacksInv, Used
<1>4. Uses("sim") => /\ sim_stacks_'[t] = NewStack
                     /\ \A k \in Used("sim") : sim_stacks_'[k] = sim_stacks_[k]
  BY <1>1, <1>3 DEF AddIf, WithStack
<1>5. NewStack.coldCount = 0 /\ NewStack.coherenceMisses = 0
  BY DEF NewStack
<1>6. KeysOf(t) \subseteq Keys /\ prediction_sizes_ \in [{"sim", "pair", "all"} -> SUBSET Nat]
  BY KeysType DEF StatsInv
<1>7. \A k \in KeysOf(t) : Counted(new(k)) /\ new(k).cold_miss_count_ = 0
                                            /\ new(k).inval_miss_count_ = 0
  <2>1. \A k \in Keys : k[1] \in {"sim", "pair", "all"}
    BY DEF Keys
  <2>2. \A k \in KeysOf(t) : prediction_sizes_[k[1]] \in SUBSET Nat
    BY <1>6, <2>1
  <2> QED
    BY <2>2, NewStatsEffect
<1>8. \A k \in KeysOf(t) : k[1] = "sim" => k[2] = t /\ Uses("sim")
  <2> SUFFICES ASSUME NEW k \in KeysOf(t), k[1] = "sim" PROVE k[2] = t /\ Uses("sim")
    OBVIOUS
  <2>1. CASE Uses("sim") /\ k = <<"sim", t>>
    BY <2>1
  <2>2. CASE k = <<"pair", PairOf(t)>> \/ k = <<"all", 0>>
    <3>1. k[1] # "sim"
      BY <2>2
    <3> QED
      BY <3>1
  <2> QED
    BY <2>1, <2>2 DEF KeysOf
<1> SUFFICES ASSUME NEW k \in D
             PROVE  /\ Counted(stats_'[k])
                    /\ k[1] = "sim" =>
                         /\ k[2] \in Used("sim")'
                         /\ stats_'[k].cold_miss_count_ = sim_stacks_'[k[2]].coldCount
                         /\ stats_'[k].inval_miss_count_ = sim_stacks_'[k[2]].coherenceMisses
  BY <1>1 DEF SamplesInv
<1> HIDE DEF new
<1>9. CASE k \in DOMAIN stats_
  <2>1. stats_'[k] = stats_[k]
    BY <1>1, <1>9
  <2>2. k[1] = "sim" => k[2] \in Used("sim") /\ Uses("sim")
    BY <1>9 DEF SamplesInv, Used
  <2> QED
    BY <1>2, <1>4, <1>9, <2>1, <2>2 DEF SamplesInv
<1>10. CASE k \notin DOMAIN stats_
  <2>1. stats_'[k] = new(k) /\ k \in KeysOf(t)
    BY <1>1, <1>10
  <2> QED
    BY <1>2, <1>4, <1>5, <1>7, <1>8, <2>1
<1> QED
  BY <1>9, <1>10

\* An access brings its samples and leaves its misses in the stack.
LEMMA RecordSamples ==
  ASSUME HolderInv, ByTool, ProgramInv, ArbitersInv, StatsInv, SamplesInv, NEW t \in Thread,
         RecordMem(t) \/ RecordFetch(t)
  PROVE  SamplesInv'
<1>1. CASE ~Recording(t)
  <2>1. UNCHANGED <<vars, stats_>>
    BY <1>1 DEF RecordMem, RecordFetch
  <2>2. UNCHANGED <<setup, threads_seen_, sim_stacks_>>
    BY <2>1 DEF vars
  <2> QED
    BY <2>1, <2>2, SamplesQuiet DEF SameSamples
<1>2. CASE Recording(t)
  <2>1. t \in threads_seen_ /\ StacksInv'
    BY <1>2, RecordMemEffect, RecordFetchEffect
  <2>2. stats_' = Sampled(t) /\ UNCHANGED <<setup, threads_seen_>>
    BY <1>2 DEF RecordMem, RecordFetch, Access, Fetch
  <2>3. Uses("sim") => CountsAfter(t)
    <3> SUFFICES ASSUME Uses("sim") PROVE CountsAfter(t)
      OBVIOUS
    <3>1. StacksInv
      BY DEF HolderInv
    <3>2. CASE RecordMem(t)
      <4>1. PICK requested \in SUBSET Addr :
              Access(t, Head(todo[t]).access, Head(todo[t]).is_write, requested)
        BY <1>2, <3>2, RecordMemEffect
      <4>2. Head(todo[t]).access \in Access_ /\ Head(todo[t]).is_write \in BOOLEAN
        BY <3>2, RefType DEF RecordMem
      <4> QED
        BY <2>1, <3>1, <4>1, <4>2, AccessCounts
    <3>3. CASE RecordFetch(t)
      <4>1. PICK fetches \in Seq(Access_) : Len(fetches) <= 2 /\ Fetch(t, fetches)
        BY <1>2, <3>3, RecordFetchEffect
      <4> QED
        BY <2>1, <3>1, <4>1, FetchCounts
    <3> QED
      BY <3>2, <3>3
  <2>4. Used("sim")' = Used("sim")
    BY <2>2 DEF Used, Uses
  <2>5. /\ DOMAIN Sampled(t) = DOMAIN stats_
        /\ \A k \in DOMAIN stats_ :
             /\ k \notin KeysOf(t) => Sampled(t)[k] = stats_[k]
             /\ k = <<"sim", t>> /\ k \in KeysOf(t) =>
                  Sampled(t)[k] = Samples(stats_[k], sim_stacks_'[t].dists)
                  /\ sim_stacks_'[t].dists \in Seq(Int)
             /\ Counted(stats_[k]) => Counted(Sampled(t)[k])
    BY <2>1, <2>2, SampledEffect
  <2>6. DOMAIN stats_ \subseteq Keys /\ \A k \in DOMAIN stats_ : stats_[k] \in Stats
    BY TableType DEF StatsInv
  <2> SUFFICES ASSUME NEW k \in DOMAIN stats_
               PROVE  /\ Counted(Sampled(t)[k])
                      /\ k[1] = "sim" =>
                           /\ k[2] \in Used("sim")
                           /\ Sampled(t)[k].cold_miss_count_ = sim_stacks_'[k[2]].coldCount
                           /\ Sampled(t)[k].inval_miss_count_
                                = sim_stacks_'[k[2]].coherenceMisses
    BY <2>2, <2>4, <2>5 DEF SamplesInv
  <2>7. Counted(Sampled(t)[k])
    BY <2>5 DEF SamplesInv
  <2>8. ASSUME k[1] = "sim"
        PROVE  /\ k[2] \in Used("sim")
               /\ Sampled(t)[k].cold_miss_count_ = sim_stacks_'[k[2]].coldCount
               /\ Sampled(t)[k].inval_miss_count_ = sim_stacks_'[k[2]].coherenceMisses
    <3>1. /\ k[2] \in Used("sim") /\ Uses("sim")
          /\ stats_[k].cold_miss_count_ = sim_stacks_[k[2]].coldCount
          /\ stats_[k].inval_miss_count_ = sim_stacks_[k[2]].coherenceMisses
      BY <2>8 DEF SamplesInv, Used
    <3>2. k = <<"sim", k[2]>>
      BY <2>6, <2>8 DEF Keys
    <3>3. CASE k[2] = t
      <4> DEFINE r == Samples(stats_[k], sim_stacks_'[t].dists)
                 d == sim_stacks_'[t].dists
      <4>1. k = <<"sim", t>> /\ k \in KeysOf(t)
        BY <3>1, <3>2, <3>3 DEF KeysOf
      <4>2. Sampled(t)[k] = r /\ d \in Seq(Int)
        BY <2>5, <4>1
      <4>3. /\ r.cold_miss_count_ = stats_[k].cold_miss_count_ + NumberOf(d, kColdMiss)
            /\ r.inval_miss_count_ = stats_[k].inval_miss_count_ + NumberOf(d, kInvalidationMiss)
        BY <2>6, <4>2, SamplesEffect
      <4>4. Counts(sim_stacks_[t], sim_stacks_'[t], d)
        BY <2>3, <3>1, <3>3 DEF CountsAfter
      <4> HIDE DEF r, d
      <4> QED
        BY <3>1, <3>3, <4>2, <4>3, <4>4 DEF Counts
    <3>4. CASE k[2] # t
      <4>1. k \notin KeysOf(t)
        <5>1. k # <<"sim", t>> /\ k # <<"pair", PairOf(t)>> /\ k # <<"all", 0>>
          BY <3>2, <3>4
        <5> QED
          BY <5>1 DEF KeysOf
      <4>2. Sampled(t)[k] = stats_[k]
        BY <2>5, <4>1
      <4>3. /\ sim_stacks_'[k[2]].coldCount = sim_stacks_[k[2]].coldCount
            /\ sim_stacks_'[k[2]].coherenceMisses = sim_stacks_[k[2]].coherenceMisses
        BY <2>3, <3>1, <3>4 DEF CountsAfter
      <4> QED
        BY <3>1, <4>2, <4>3
    <3> QED
      BY <3>3, <3>4
  <2> QED
    BY <2>7, <2>8
<1> QED
  BY <1>1, <1>2

\* The three changes of UpdateRatioPredictions are none of the samples.
LEMMA SamplesAreKept ==
  ASSUME HolderInv, ByTool, ProgramInv, ArbitersInv, StatsInv, UpdatesInv, SamplesInv, ToolNext
  PROVE  SamplesInv'
<1>1. DOMAIN stats_ \subseteq Keys /\ \A k \in DOMAIN stats_ : stats_[k] \in Stats
  BY TableType DEF StatsInv
<1>2. \A s : SameSamples(s, s)
  BY DEF SameSamples
<1>3. UNCHANGED vars => UNCHANGED <<setup, threads_seen_, sim_stacks_>>
  BY DEF vars
<1>4. ASSUME NEW t \in Thread, ThreadStart(t) PROVE SamplesInv'
  BY <1>4, StartSamples
<1>5. ASSUME NEW t \in Thread, Calling(t) PROVE SamplesInv'
  <2>1. UNCHANGED <<setup, threads_seen_, sim_stacks_, stats_>>
    BY <1>3, <1>5, CallingIsQuiet
  <2> QED
    BY <1>2, <2>1, SamplesQuiet
<1>6. ASSUME NEW t \in Thread, RecordMem(t) \/ RecordFetch(t) PROVE SamplesInv'
  BY <1>6, RecordSamples
<1>7. ASSUME stats_' \in {AllUpdated, stats_}, UNCHANGED <<setup, threads_seen_, sim_stacks_>>
      PROVE  SamplesInv'
  <2>1. CASE stats_' = AllUpdated
    <3>1. DOMAIN AllUpdated = DOMAIN stats_
          /\ \A k \in DOMAIN stats_ : SameSamples(stats_[k], AllUpdated[k])
      BY AllUpdatedEffect
    <3> HIDE DEF AllUpdated
    <3> QED
      BY <1>7, <2>1, <3>1, SamplesQuiet
  <2>2. CASE stats_' = stats_
    BY <1>2, <1>7, <2>2, SamplesQuiet
  <2> QED
    BY <1>7, <2>1, <2>2
<1>8. ASSUME NEW t \in Thread, Marking(t) PROVE SamplesInv'
  <2>1. UNCHANGED <<setup, threads_seen_, sim_stacks_>> /\ (UNCHANGED stats_ \/ Stop(t))
    BY <1>8, MarkingIsQuiet
  <2>2. Stop(t) => stats_' \in {AllUpdated, stats_}
    BY DEF Stop
  <2> QED
    BY <1>7, <2>1, <2>2
<1>9. ASSUME NEW t \in Thread, Update(t) PROVE SamplesInv'
  <2>1. UNCHANGED <<setup, threads_seen_, sim_stacks_>>
    BY <1>3, <1>9, OthersAreQuiet
  <2>2. ASSUME NEW k, NEW s, stats_' = [stats_ EXCEPT ![k] = s],
               k \in DOMAIN stats_ => SameSamples(stats_[k], s)
        PROVE  SamplesInv'
    <3>1. DOMAIN stats_' = DOMAIN stats_
          /\ \A other \in DOMAIN stats_ : stats_'[other] = IF other = k THEN s ELSE stats_[other]
      BY <2>2
    <3>2. \A other \in DOMAIN stats_ : SameSamples(stats_[other], stats_'[other])
      BY <1>2, <2>2, <3>1
    <3> QED
      BY <2>1, <3>1, <3>2, SamplesQuiet
  <2> DEFINE key == updating[t].key
  <2>3. \A k \in DOMAIN stats_ : /\ SameSamples(stats_[k], PushHits(stats_[k]))
                                 /\ SameSamples(stats_[k], PushAccesses(stats_[k]))
                                 /\ SameSamples(stats_[k], ClearAccesses(stats_[k]))
    BY <1>1, PushHitsEffect, PushAccessesEffect, ClearAccessesEffect
  <2>4. CASE \E k \in DOMAIN stats_ : Steps(t, "hits", "push", k, PushHits(stats_[k]))
    BY <2>2, <2>3, <2>4 DEF Steps
  <2>5. CASE Steps(t, "push", "clear", key, PushAccesses(stats_[key]))
    BY <2>2, <2>3, <2>5 DEF Steps
  <2>6. CASE Steps(t, "clear", "hits", key, ClearAccesses(stats_[key]))
    BY <2>2, <2>3, <2>6 DEF Steps
  <2>7. CASE UNCHANGED stats_
    BY <1>2, <2>1, <2>7, SamplesQuiet
  <2> QED
    BY <1>9, <2>4, <2>5, <2>6, <2>7, UpdateSteps
<1>10. ASSUME NEW s \in setup.sizes, AddPredictionSize(s[1], s[2]) PROVE SamplesInv'
  <2>1. UNCHANGED <<setup, threads_seen_, sim_stacks_>>
    BY <1>3, <1>10, OthersAreQuiet
  <2>2. s[2] \in Nat
    <3>1. setup \in Setups
      BY DEF HolderInv, StacksInv
    <3>2. setup.sizes \subseteq {"sim", "pair", "all"} \X Nat
      BY <3>1, ReuseDistanceAssumption
    <3> QED
      BY <3>2
  <2>3. stats_' = [k \in DOMAIN stats_ |-> IF k[1] = s[1] THEN AddRatioPredictionSize(stats_[k], s[2])
                                           ELSE stats_[k]]
    BY <1>10 DEF AddPredictionSize
  <2>4. \A k \in DOMAIN stats_ : SameSamples(stats_[k], AddRatioPredictionSize(stats_[k], s[2]))
    BY <1>1, <2>2, AddSizeEffect
  <2>5. \A k \in DOMAIN stats_ : SameSamples(stats_[k], stats_'[k])
    BY <1>2, <2>3, <2>4
  <2> QED
    BY <2>1, <2>3, <2>5, SamplesQuiet
<1>11. ASSUME Fini PROVE SamplesInv'
  <2>1. stats_' = AllUpdated
    BY <1>11 DEF Fini
  <2>2. UNCHANGED <<setup, threads_seen_, sim_stacks_>>
    BY <1>3, <1>11, OthersAreQuiet
  <2> QED
    BY <1>7, <2>1, <2>2
<1> QED
  BY <1>4, <1>5, <1>6, <1>8, <1>9, <1>10, <1>11, ToolSteps

-----------------------------------------------------------------------------
(* The periods                                                             *)

\* A thread in a handler without the lock, and one that has a stack at hand there.
InHandler(t) == pc[t] \in {"update", "disable"}
AtHand(t) == pc[t] = "update" /\ updating[t].step # "hits"

\* The periods of a stack add up, as far as the update of the thread that has it at hand
\* has come.
Complete(k) ==
  \/ (\A t \in Thread : AtHand(t) => updating[t].key # k) /\ Between(stats_[k], given[k])
  \/ \E t \in Thread :
       /\ AtHand(t) /\ updating[t].key = k
       /\ \/ updating[t].step = "push" /\ AtPush(stats_[k], given[k])
          \/ updating[t].step = "clear" /\ AtClear(stats_[k], given[k])

OneHandler == \A t, u \in Thread : InHandler(t) /\ InHandler(u) => t = u

PeriodsInv ==
  /\ DOMAIN given = DOMAIN stats_
  /\ \A k \in DOMAIN stats_ : given[k] \in SUBSET DOMAIN stats_[k].current_prediction_hits_
  /\ \A t \in Thread : AtHand(t) => updating[t].key \in DOMAIN stats_
  /\ ~overlapped => OneHandler /\ \A k \in DOMAIN stats_ : Complete(k)

\* All stages of an update are kept.
KeepsStages(s, r, sizes) ==
  /\ Between(s, sizes) => Between(r, sizes)
  /\ AtPush(s, sizes) => AtPush(r, sizes)
  /\ AtClear(s, sizes) => AtClear(r, sizes)

NobodyAtHand == \A t \in Thread : ~AtHand(t)

LEMMA StillOneHandler ==
  ASSUME PeriodsInv, overlapped => overlapped', NEW t \in Thread,
         \A u \in Thread \ {t} : pc'[u] = pc[u],
         InHandler(t)' => InHandler(t) \/ overlapped' \/ ~Overlaps(t)
  PROVE  ~overlapped' => OneHandler'
<1> SUFFICES ASSUME ~overlapped', NEW u \in Thread, NEW v \in Thread,
                    InHandler(u)', InHandler(v)', u # v
             PROVE  FALSE
  BY DEF OneHandler
<1>1. OneHandler
  BY DEF PeriodsInv
<1>2. \A w \in Thread \ {t} : InHandler(w)' => InHandler(w)
  BY DEF InHandler
<1>3. CASE InHandler(t)' /\ ~InHandler(t)
  <2>1. \A w \in Thread \ {t} : ~InHandler(w)
    BY <1>3 DEF Overlaps, InHandler
  <2> QED
    BY <1>2, <2>1
<1>4. CASE ~InHandler(t)' \/ InHandler(t)
  BY <1>1, <1>2, <1>4 DEF OneHandler
<1> QED
  BY <1>3, <1>4

\* Nothing comes to hand or leaves it; stacks keep their stages or, while nothing is at
\* hand, their sums; new ones have none.
LEMMA PeriodsAfter ==
  ASSUME PeriodsInv, overlapped => overlapped', ~overlapped' => OneHandler',
         \A u \in Thread : AtHand(u)' <=> AtHand(u),
         \A u \in Thread : AtHand(u) => updating'[u] = updating[u],
         DOMAIN given' = DOMAIN stats_', DOMAIN stats_ \subseteq DOMAIN stats_',
         \A k \in DOMAIN stats_' :
           given'[k] \in SUBSET DOMAIN stats_'[k].current_prediction_hits_,
         \A k \in DOMAIN stats_ :
           /\ given'[k] = given[k]
           /\ ~overlapped' =>
                \/ KeepsStages(stats_[k], stats_'[k], given[k])
                \/ NobodyAtHand /\ (Between(stats_[k], given[k]) => Between(stats_'[k], given[k])),
         \A k \in DOMAIN stats_' \ DOMAIN stats_ : Between(stats_'[k], given'[k])
  PROVE  PeriodsInv'
<1>1. \A u \in Thread : AtHand(u)' => updating'[u].key \in DOMAIN stats_'
  BY DEF PeriodsInv
<1>2. ASSUME ~overlapped', NEW k \in DOMAIN stats_ PROVE Complete(k)'
  <2>1. Complete(k) /\ given'[k] = given[k]
    BY <1>2 DEF PeriodsInv
  <2>2. CASE /\ \A u \in Thread : AtHand(u) => updating[u].key # k
             /\ Between(stats_[k], given[k])
    <3>1. \A u \in Thread : AtHand(u)' => updating'[u].key # k
      BY <2>2
    <3>2. Between(stats_'[k], given'[k])
      BY <1>2, <2>1, <2>2 DEF KeepsStages
    <3> QED
      BY <3>1, <3>2 DEF Complete
  <2>3. ASSUME NEW u \in Thread, AtHand(u), updating[u].key = k,
               \/ updating[u].step = "push" /\ AtPush(stats_[k], given[k])
               \/ updating[u].step = "clear" /\ AtClear(stats_[k], given[k])
        PROVE  Complete(k)'
    <3>1. KeepsStages(stats_[k], stats_'[k], given[k])
      BY <1>2, <2>3 DEF NobodyAtHand
    <3>2. AtHand(u)' /\ updating'[u] = updating[u]
      BY <2>3
    <3>3. \/ updating'[u].step = "push" /\ AtPush(stats_'[k], given'[k])
          \/ updating'[u].step = "clear" /\ AtClear(stats_'[k], given'[k])
      BY <2>1, <2>3, <3>1, <3>2 DEF KeepsStages
    <3> QED
      BY <2>3, <3>2, <3>3 DEF Complete
  <2> QED
    BY <2>1, <2>2, <2>3 DEF Complete
<1>3. ASSUME ~overlapped', NEW k \in DOMAIN stats_' \ DOMAIN stats_ PROVE Complete(k)'
  <2>1. \A u \in Thread : AtHand(u)' => updating'[u].key # k
    BY <1>3 DEF PeriodsInv
  <2> QED
    BY <1>3, <2>1 DEF Complete
<1> QED
  BY <1>1, <1>2, <1>3 DEF PeriodsInv

\* One stack changes, by a step of an update that nothing overlaps.
LEMMA PeriodsAtHand ==
  ASSUME PeriodsInv, overlapped => overlapped', UNCHANGED <<given, pc>>,
         NEW t \in Thread, pc[t] = "update", overlapped' \/ ~Overlaps(t),
         \A u \in Thread \ {t} : updating'[u] = updating[u],
         NEW k \in DOMAIN stats_, NEW s, stats_' = [stats_ EXCEPT ![k] = s],
         SameSizes(stats_[k], s),
         updating[t].step # "hits" => updating[t].key = k, updating'[t].key = k,
         \/ /\ updating[t].step = "hits" /\ updating'[t].step = "push"
            /\ Between(stats_[k], given[k]) => AtPush(s, given[k])
         \/ /\ updating[t].step = "push" /\ updating'[t].step = "clear"
            /\ AtPush(stats_[k], given[k]) => AtClear(s, given[k])
         \/ /\ updating[t].step = "clear" /\ updating'[t].step = "hits"
            /\ AtClear(stats_[k], given[k]) => Between(s, given[k])
  PROVE  PeriodsInv'
<1>1. /\ DOMAIN stats_' = DOMAIN stats_ /\ stats_'[k] = s
      /\ \A other \in DOMAIN stats_ : other # k => stats_'[other] = stats_[other]
  OBVIOUS
<1>2. \A other \in DOMAIN stats_ :
        given'[other] \in SUBSET DOMAIN stats_'[other].current_prediction_hits_
  BY <1>1 DEF PeriodsInv, SameSizes
<1>3. \A u \in Thread : AtHand(u)' => updating'[u].key \in DOMAIN stats_'
  BY <1>1 DEF PeriodsInv, AtHand
<1>4. ASSUME ~overlapped' PROVE OneHandler' /\ \A other \in DOMAIN stats_ : Complete(other)'
  <2>1. /\ \A u \in Thread : InHandler(u)' <=> InHandler(u)
        /\ \A u \in Thread \ {t} : ~AtHand(u) /\ ~AtHand(u)'
    BY <1>4 DEF InHandler, Overlaps, AtHand
  <2>2. OneHandler'
    BY <1>4, <2>1 DEF PeriodsInv, OneHandler
  <2>3. AtHand(t) <=> updating[t].step # "hits"
    BY DEF AtHand
  <2>4. AtHand(t)' <=> updating'[t].step # "hits"
    BY DEF AtHand
  <2>5. ASSUME NEW other \in DOMAIN stats_, other # k PROVE Complete(other)'
    <3>1. Between(stats_[other], given[other])
      BY <1>4, <2>1, <2>3, <2>5 DEF PeriodsInv, Complete
    <3>2. \A u \in Thread : AtHand(u)' => updating'[u].key # other
      BY <2>1, <2>5
    <3> QED
      BY <1>1, <2>5, <3>1, <3>2 DEF Complete
  <2>6. Complete(k)
    BY <1>4 DEF PeriodsInv
  <2>7. Complete(k)'
    <3>1. CASE updating[t].step = "hits" /\ updating'[t].step = "push"
      <4>1. Between(stats_[k], given[k])
        BY <2>1, <2>3, <2>6, <3>1 DEF Complete
      <4>2. AtPush(stats_'[k], given'[k])
        BY <1>1, <3>1, <4>1
      <4> QED
        BY <2>4, <3>1, <4>2 DEF Complete
    <3>2. CASE updating[t].step = "push" /\ updating'[t].step = "clear"
      <4>1. AtPush(stats_[k], given[k])
        BY <2>1, <2>3, <2>6, <3>2 DEF Complete
      <4>2. AtClear(stats_'[k], given'[k])
        BY <1>1, <3>2, <4>1
      <4> QED
        BY <2>4, <3>2, <4>2 DEF Complete
    <3>3. CASE updating[t].step = "clear" /\ updating'[t].step = "hits"
      <4>1. AtClear(stats_[k], given[k])
        BY <2>1, <2>3, <2>6, <3>3 DEF Complete
      <4>2. Between(stats_'[k], given'[k])
        BY <1>1, <3>3, <4>1
      <4>3. \A u \in Thread : ~AtHand(u)'
        BY <2>1, <2>4, <3>3
      <4> QED
        BY <4>2, <4>3 DEF Complete
    <3> QED
      BY <3>1, <3>2, <3>3
  <2> QED
    BY <2>2, <2>5, <2>7
<1> QED
  BY <1>1, <1>2, <1>3, <1>4 DEF PeriodsInv

\* No thread enters a handler without the lock, or a stop under it, unseen by the others.
LEMMA MarkingEnters ==
  ASSUME ProgramInv, NEW t \in Thread, Marking(t)
  PROVE  /\ pc[t] # "update"
         /\ InHandler(t)' => overlapped' \/ ~Overlaps(t)
         /\ Stop(t) => pc[t] = "stop" /\ (overlapped' \/ ~Overlaps(t))
<1>1. t \in DOMAIN pc
  BY DEF ProgramInv
<1>2. Marked(t) => pc[t] = "program"
  BY DEF Marked
<1>3. pc[t] # "update"
  BY <1>2 DEF Marking, StartTimer, StopTimer, Enable, Stop, Disable, EndPeriod, LocalPeriod
<1>4. Stop(t) => pc[t] = "stop" /\ (overlapped' \/ ~Overlaps(t))
  BY DEF Stop
<1>5. ASSUME NEW next, Updating(t, next) PROVE overlapped' \/ ~Overlaps(t)
  BY <1>5 DEF Updating
<1>6. ASSUME NEW next \in {"program", "enable", "stop"}, pc' = [pc EXCEPT ![t] = next]
      PROVE  ~InHandler(t)'
  BY <1>1, <1>6 DEF InHandler
<1>7. InHandler(t)' => overlapped' \/ ~Overlaps(t)
  <2>1. CASE StartTimer(t)
    BY <1>6, <2>1 DEF StartTimer
  <2>2. CASE StopTimer(t)
    BY <1>5, <1>6, <2>2 DEF StopTimer
  <2>3. CASE Enable(t)
    BY <1>6, <2>3 DEF Enable
  <2>4. CASE Stop(t)
    BY <1>6, <2>4 DEF Stop
  <2>5. CASE Disable(t)
    BY <1>6, <2>5 DEF Disable
  <2>6. CASE EndPeriod(t)
    BY <1>5, <2>6 DEF EndPeriod
  <2>7. CASE \E enable \in BOOLEAN : LocalPeriod(t, enable)
    BY <1>2, <2>7 DEF LocalPeriod, InHandler
  <2> QED
    BY <2>1, <2>2, <2>3, <2>4, <2>5, <2>6, <2>7 DEF Marking
<1> QED
  BY <1>3, <1>4, <1>7

LEMMA StartPeriods ==
  ASSUME StatsInv, PeriodsInv, NEW t \in Thread, ThreadStart(t)
  PROVE  PeriodsInv'
<1> DEFINE D == DOMAIN stats_ \cup KeysOf(t)
           sizes(k) == prediction_sizes_[k[1]]
           new(k) == SetRatioPredictionSizes(NewStats, sizes(k))
<1>1. /\ stats_' = [k \in D |-> IF k \in DOMAIN stats_ THEN stats_[k] ELSE new(k)]
      /\ given' = [k \in D |-> IF k \in DOMAIN stats_ THEN given[k] ELSE sizes(k)]
      /\ UNCHANGED <<pc, updating>> /\ overlapped' = (overlapped \/ Overlaps(t))
  BY DEF ThreadStart
<1>2. \A k \in KeysOf(t) : /\ DOMAIN new(k).current_prediction_hits_ = sizes(k)
                           /\ Between(new(k), sizes(k))
  <2>1. KeysOf(t) \subseteq Keys /\ prediction_sizes_ \in [{"sim", "pair", "all"} -> SUBSET Nat]
    BY KeysType DEF StatsInv
  <2>2. \A k \in Keys : k[1] \in {"sim", "pair", "all"}
    BY DEF Keys
  <2>3. \A k \in KeysOf(t) : sizes(k) \in SUBSET Nat
    BY <2>1, <2>2
  <2> QED
    BY <2>3, NewStatsEffect
<1> HIDE DEF sizes, new
<1>3. DOMAIN given' = D /\ DOMAIN stats_' = D /\ DOMAIN stats_ \subseteq D
  BY <1>1
<1>4. \A k \in DOMAIN stats_ : given'[k] = given[k] /\ stats_'[k] = stats_[k]
  BY <1>1
<1>5. \A k \in D \ DOMAIN stats_ : given'[k] = sizes(k) /\ stats_'[k] = new(k)
  BY <1>1
<1>6. \A k \in D : given'[k] \in SUBSET DOMAIN stats_'[k].current_prediction_hits_
  BY <1>2, <1>4, <1>5 DEF PeriodsInv
<1>7. \A k \in D \ DOMAIN stats_ : Between(stats_'[k], given'[k])
  BY <1>2, <1>5
<1>8. \A u \in Thread : /\ AtHand(u)' <=> AtHand(u)
                        /\ AtHand(u) => updating'[u] = updating[u]
                        /\ InHandler(u)' <=> InHandler(u)
  BY <1>1 DEF AtHand, InHandler
<1>9. \A k \in DOMAIN stats_ : KeepsStages(stats_[k], stats_'[k], given[k])
  BY <1>4 DEF KeepsStages
<1>10. ~overlapped' => OneHandler'
  BY <1>1, <1>8 DEF PeriodsInv, OneHandler
<1> HIDE DEF D
<1> QED
  BY <1>1, <1>3, <1>4, <1>6, <1>7, <1>8, <1>9, <1>10, PeriodsAfter

\* The steps that change what is counted of a stack, if anything, with no other stack made.
LEMMA PeriodsOfSame ==
  ASSUME PeriodsInv, overlapped => overlapped', ~overlapped' => OneHandler', UNCHANGED given,
         \A u \in Thread : AtHand(u)' <=> AtHand(u),
         \A u \in Thread : AtHand(u) => updating'[u] = updating[u],
         DOMAIN stats_' = DOMAIN stats_,
         \A k \in DOMAIN stats_ :
           /\ DOMAIN stats_[k].current_prediction_hits_
                \subseteq DOMAIN stats_'[k].current_prediction_hits_
           /\ ~overlapped' =>
                \/ KeepsStages(stats_[k], stats_'[k], given[k])
                \/ NobodyAtHand /\ (Between(stats_[k], given[k]) => Between(stats_'[k], given[k]))
  PROVE  PeriodsInv'
<1>1. DOMAIN given' = DOMAIN stats_' /\ DOMAIN stats_ \subseteq DOMAIN stats_'
  BY DEF PeriodsInv
<1>2. \A k \in DOMAIN stats_' :
        given'[k] \in SUBSET DOMAIN stats_'[k].current_prediction_hits_
  BY DEF PeriodsInv
<1>3. \A k \in DOMAIN stats_' \ DOMAIN stats_ : Between(stats_'[k], given'[k])
  OBVIOUS
<1> QED
  BY <1>1, <1>2, <1>3, PeriodsAfter

\* An access finds all stacks settled, or something has fallen into an update.
LEMMA RecordPeriods ==
  ASSUME HolderInv, ByTool, ProgramInv, ArbitersInv, StatsInv, PeriodsInv, NEW t \in Thread,
         RecordMem(t) \/ RecordFetch(t)
  PROVE  PeriodsInv'
<1>1. /\ pc[t] = "record" /\ pc' = [pc EXCEPT ![t] = "program"]
      /\ UNCHANGED <<updating, given>> /\ overlapped' = (overlapped \/ Overlaps(t))
  BY DEF RecordMem, RecordFetch, Returned
<1>2. pc'[t] = "program" /\ \A u \in Thread \ {t} : pc'[u] = pc[u]
  BY <1>1 DEF ProgramInv
<1>3. \A u \in Thread : AtHand(u)' <=> AtHand(u)
  BY <1>1, <1>2 DEF AtHand
<1>4. ~InHandler(t)'
  BY <1>2 DEF InHandler
<1>5. ~overlapped' => OneHandler'
  BY <1>1, <1>2, <1>4, StillOneHandler
<1>6. ~overlapped' => NobodyAtHand
  BY <1>1 DEF NobodyAtHand, AtHand, Overlaps
<1>7. /\ DOMAIN stats_' = DOMAIN stats_
      /\ \A k \in DOMAIN stats_ :
           /\ SameSizes(stats_[k], stats_'[k])
           /\ Between(stats_[k], given[k]) => Between(stats_'[k], given[k])
  <2>1. CASE Recording(t)
    <3>1. t \in threads_seen_ /\ StacksInv'
      BY <2>1, RecordMemEffect, RecordFetchEffect
    <3>2. stats_' = Sampled(t) /\ UNCHANGED <<setup, threads_seen_>>
      BY <2>1 DEF RecordMem, RecordFetch, Access, Fetch
    <3> QED
      BY <3>1, <3>2, SampledEffect
  <2>2. CASE ~Recording(t)
    BY <2>2 DEF RecordMem, RecordFetch, SameSizes
  <2> QED
    BY <2>1, <2>2
<1>8. \A k \in DOMAIN stats_ : DOMAIN stats_[k].current_prediction_hits_
                                 \subseteq DOMAIN stats_'[k].current_prediction_hits_
  BY <1>7 DEF SameSizes
<1> QED
  BY <1>1, <1>3, <1>5, <1>6, <1>7, <1>8, PeriodsOfSame

\* All stacks are updated under the lock, or at the end.
LEMMA StopPeriods ==
  ASSUME StatsInv, PeriodsInv, overlapped => overlapped', ~overlapped' => OneHandler',
         UNCHANGED given, \A u \in Thread : AtHand(u)' <=> AtHand(u),
         \A u \in Thread : AtHand(u) => updating'[u] = updating[u],
         stats_' = stats_ \/ (stats_' = AllUpdated /\ (overlapped' \/ NobodyAtHand))
  PROVE  PeriodsInv'
<1>1. /\ DOMAIN AllUpdated = DOMAIN stats_
      /\ \A k \in DOMAIN stats_ :
           /\ SameSizes(stats_[k], AllUpdated[k])
           /\ Between(stats_[k], given[k]) => Between(AllUpdated[k], given[k])
  BY AllUpdatedEffect
<1> HIDE DEF AllUpdated
<1>2. CASE stats_' = stats_
  <2>1. \A k \in DOMAIN stats_ : KeepsStages(stats_[k], stats_'[k], given[k])
    BY <1>2 DEF KeepsStages
  <2> QED
    BY <1>2, <2>1, PeriodsOfSame
<1>3. CASE stats_' = AllUpdated /\ (overlapped' \/ NobodyAtHand)
  <2>1. \A k \in DOMAIN stats_ : DOMAIN stats_[k].current_prediction_hits_
                                   \subseteq DOMAIN stats_'[k].current_prediction_hits_
    BY <1>1, <1>3 DEF SameSizes
  <2> QED
    BY <1>1, <1>3, <2>1, PeriodsOfSame
<1> QED
  BY <1>2, <1>3

LEMMA UpdatePeriods ==
  ASSUME ProgramInv, StatsInv, UpdatesInv, PeriodsInv, NEW t \in Thread, Update(t)
  PROVE  PeriodsInv'
<1> DEFINE key == updating[t].key
<1>1. /\ pc[t] = "update" /\ UNCHANGED given
      /\ overlapped' = (overlapped \/ Overlaps(t))
  BY DEF Update, recordVars
<1>2. \A u \in Thread \ {t} : pc'[u] = pc[u] /\ updating'[u] = updating[u]
  BY UpdaterAfter
<1>3. \A k \in DOMAIN stats_ : stats_[k] \in Stats
  BY TableType DEF StatsInv
<1>4. updating[t].step # "hits" => key \in DOMAIN stats_
  BY <1>1 DEF PeriodsInv, AtHand
<1>5. ASSUME NEW k \in DOMAIN stats_, Steps(t, "hits", "push", k, PushHits(stats_[k]))
      PROVE  PeriodsInv'
  <2> DEFINE s == PushHits(stats_[k])
  <2>1. SameSizes(stats_[k], s) /\ (Between(stats_[k], given[k]) => AtPush(s, given[k]))
    BY <1>3, PushHitsEffect DEF SameSizes
  <2> HIDE DEF s
  <2>2. Steps(t, "hits", "push", k, s)
    BY <1>5 DEF s
  <2> QED
    BY <1>1, <1>2, <2>1, <2>2, PeriodsAtHand DEF Steps
<1>6. ASSUME Steps(t, "push", "clear", key, PushAccesses(stats_[key]))
      PROVE  PeriodsInv'
  <2> DEFINE s == PushAccesses(stats_[key])
  <2>1. key \in DOMAIN stats_
    BY <1>4, <1>6 DEF Steps
  <2>2. SameSizes(stats_[key], s) /\ (AtPush(stats_[key], given[key]) => AtClear(s, given[key]))
    BY <1>3, <2>1, PushAccessesEffect DEF SameSizes
  <2> HIDE DEF s
  <2>3. Steps(t, "push", "clear", key, s)
    BY <1>6 DEF s
  <2> QED
    BY <1>1, <1>2, <2>1, <2>2, <2>3, PeriodsAtHand DEF Steps
<1>7. ASSUME Steps(t, "clear", "hits", key, ClearAccesses(stats_[key]))
      PROVE  PeriodsInv'
  <2> DEFINE s == ClearAccesses(stats_[key])
  <2>1. key \in DOMAIN stats_
    BY <1>4, <1>7 DEF Steps
  <2>2. SameSizes(stats_[key], s) /\ (AtClear(stats_[key], given[key]) => Between(s, given[key]))
    BY <1>3, <2>1, ClearAccessesEffect DEF SameSizes
  <2> HIDE DEF s
  <2>3. Steps(t, "clear", "hits", key, s)
    BY <1>7 DEF s
  <2> QED
    BY <1>1, <1>2, <2>1, <2>2, <2>3, PeriodsAtHand DEF Steps
<1>8. ASSUME updating[t].step = "hits", UNCHANGED stats_, pc'[t] \in {"disable", "program"}
      PROVE  PeriodsInv'
  <2>1. \A u \in Thread : /\ AtHand(u)' <=> AtHand(u)
                          /\ AtHand(u) => updating'[u] = updating[u]
    BY <1>2, <1>8 DEF AtHand
  <2>2. InHandler(t)
    BY <1>1 DEF InHandler
  <2>3. ~overlapped' => OneHandler'
    BY <1>1, <1>2, <2>2, StillOneHandler
  <2> QED
    BY <1>1, <1>8, <2>1, <2>3, StopPeriods
<1> QED
  BY <1>5, <1>6, <1>7, <1>8, UpdateSteps

LEMMA AddSizePeriods ==
  ASSUME HolderInv, StatsInv, PeriodsInv, NEW s \in setup.sizes, AddPredictionSize(s[1], s[2])
  PROVE  PeriodsInv'
<1> DEFINE after(k) == IF k[1] = s[1] THEN AddRatioPredictionSize(stats_[k], s[2]) ELSE stats_[k]
<1>1. s[2] \in Nat
  <2>1. setup \in Setups
    BY DEF HolderInv, StacksInv
  <2>2. setup.sizes \subseteq {"sim", "pair", "all"} \X Nat
    BY <2>1, ReuseDistanceAssumption
  <2> QED
    BY <2>2
<1>2. /\ stats_' = [k \in DOMAIN stats_ |-> after(k)]
      /\ UNCHANGED <<pc, updating, given>>
      /\ overlapped => overlapped'
  BY DEF AddPredictionSize
<1>3. \A k \in DOMAIN stats_ : stats_[k] \in Stats
  BY TableType DEF StatsInv
<1>4. ASSUME NEW k \in DOMAIN stats_
      PROVE  /\ DOMAIN stats_[k].current_prediction_hits_
                  \subseteq DOMAIN after(k).current_prediction_hits_
             /\ KeepsStages(stats_[k], after(k), given[k])
  <2>1. CASE k[1] = s[1]
    <3>1. after(k) = AddRatioPredictionSize(stats_[k], s[2])
      BY <2>1
    <3>2. given[k] \in SUBSET DOMAIN stats_[k].current_prediction_hits_
      BY DEF PeriodsInv
    <3> DEFINE old == stats_[k]
               r == AddRatioPredictionSize(old, s[2])
    <3>3. /\ DOMAIN old.current_prediction_hits_ \subseteq DOMAIN r.current_prediction_hits_
          /\ \A sizes \in SUBSET DOMAIN old.current_prediction_hits_ :
               /\ Between(old, sizes) => Between(r, sizes)
               /\ AtPush(old, sizes) => AtPush(r, sizes)
               /\ AtClear(old, sizes) => AtClear(r, sizes)
      <4>1. old \in Stats
        BY <1>3
      <4> HIDE DEF old
      <4> QED
        BY <1>1, <4>1, AddSizeEffect
    <3>4. after(k) = r
      BY <3>1
    <3> HIDE DEF after, r
    <3> QED
      BY <3>2, <3>3, <3>4 DEF KeepsStages
  <2>2. CASE k[1] # s[1]
    BY <2>2 DEF KeepsStages
  <2> QED
    BY <2>1, <2>2
<1> HIDE DEF after
<1>5. \A u \in Thread : /\ AtHand(u)' <=> AtHand(u)
                        /\ AtHand(u) => updating'[u] = updating[u]
                        /\ InHandler(u)' <=> InHandler(u)
  BY <1>2 DEF AtHand, InHandler
<1>6. ~overlapped' => OneHandler'
  BY <1>2, <1>5 DEF PeriodsInv, OneHandler
<1>7. DOMAIN stats_' = DOMAIN stats_ /\ \A k \in DOMAIN stats_ : stats_'[k] = after(k)
  BY <1>2
<1> QED
  BY <1>2, <1>4, <1>5, <1>6, <1>7, PeriodsOfSame

LEMMA PeriodsAreKept ==
  ASSUME HolderInv, ByTool, ProgramInv, ArbitersInv, StatsInv, UpdatesInv, PeriodsInv, ToolNext
  PROVE  PeriodsInv'
<1>1. ASSUME NEW t \in Thread, ThreadStart(t) PROVE PeriodsInv'
  BY <1>1, StartPeriods
<1>2. ASSUME NEW t \in Thread, Calling(t) PROVE PeriodsInv'
  <2>1. UNCHANGED <<updating, given, stats_, overlapped>>
    BY <1>2, CallingIsQuiet DEF recordVars
  <2>2. pc[t] = "program" /\ (UNCHANGED pc \/ pc' = [pc EXCEPT ![t] = "record"])
    BY <1>2 DEF Calling, Execute, CallNext, Call
  <2>3. pc'[t] \in {"program", "record"} /\ \A u \in Thread \ {t} : pc'[u] = pc[u]
    BY <2>2 DEF ProgramInv
  <2>4. \A u \in Thread : AtHand(u)' <=> AtHand(u)
    BY <2>1, <2>2, <2>3 DEF AtHand
  <2>5. ~InHandler(t)'
    BY <2>3 DEF InHandler
  <2>6. ~overlapped' => OneHandler'
    BY <2>1, <2>3, <2>5, StillOneHandler
  <2> QED
    BY <2>1, <2>4, <2>6, StopPeriods
<1>3. ASSUME NEW t \in Thread, RecordMem(t) \/ RecordFetch(t) PROVE PeriodsInv'
  BY <1>3, RecordPeriods
<1>4. ASSUME NEW t \in Thread, Marking(t) PROVE PeriodsInv'
  <2>1. /\ \A u \in Thread \ {t} : pc'[u] = pc[u] /\ updating'[u] = updating[u]
        /\ overlapped => overlapped'
    BY <1>4, MarkingMoves
  <2>2. pc[t] # "update" /\ (InHandler(t)' => overlapped' \/ ~Overlaps(t))
    BY <1>4, MarkingEnters
  <2>3. UNCHANGED given
    BY <1>4, MarkingIsQuiet DEF recordVars
  <2>4. ~overlapped' => OneHandler'
    BY <2>1, <2>2, StillOneHandler
  <2>5. ~AtHand(t)'
    <3>1. CASE pc'[t] \in {"program", "enable", "stop"}
      BY <3>1 DEF AtHand
    <3>2. ASSUME NEW next,
                 updating' = [updating EXCEPT ![t] =
                                [done |-> {}, key |-> <<>>, step |-> "hits", next |-> next]]
          PROVE  ~AtHand(t)'
      <4>1. updating'[t] = [done |-> {}, key |-> <<>>, step |-> "hits", next |-> next]
        BY <3>2 DEF UpdatesInv
      <4> QED
        BY <4>1 DEF AtHand
    <3> QED
      BY <1>4, <3>1, <3>2, MarkingMoves
  <2>6. \A u \in Thread : /\ AtHand(u)' <=> AtHand(u)
                          /\ AtHand(u) => updating'[u] = updating[u]
    BY <2>1, <2>2, <2>5 DEF AtHand
  <2>7. stats_' = stats_ \/ (stats_' = AllUpdated /\ (overlapped' \/ NobodyAtHand))
    <3>1. CASE Stop(t)
      <4>1. stats_' = stats_ \/ stats_' = AllUpdated
        BY <3>1 DEF Stop
      <4>2. overlapped' \/ NobodyAtHand
        BY <1>4, <2>2, <3>1, MarkingEnters DEF NobodyAtHand, AtHand, Overlaps
      <4> QED
        BY <4>1, <4>2
    <3> QED
      BY <1>4, <3>1, MarkingIsQuiet
  <2> QED
    BY <2>1, <2>3, <2>4, <2>6, <2>7, StopPeriods
<1>5. ASSUME NEW t \in Thread, Update(t) PROVE PeriodsInv'
  BY <1>5, UpdatePeriods
<1>6. ASSUME NEW s \in setup.sizes, AddPredictionSize(s[1], s[2]) PROVE PeriodsInv'
  BY <1>6, AddSizePeriods
<1>7. ASSUME Fini PROVE PeriodsInv'
  <2>1. /\ stats_' = AllUpdated /\ UNCHANGED <<updating, given, overlapped>>
        /\ \A u \in Thread : pc[u] = "program" /\ pc'[u] = "ended"
    BY <1>7 DEF Fini, recordVars
  <2>2. \A u \in Thread : ~AtHand(u) /\ ~AtHand(u)' /\ ~InHandler(u)'
    BY <2>1 DEF AtHand, InHandler
  <2>3. NobodyAtHand /\ OneHandler'
    BY <2>2 DEF NobodyAtHand, OneHandler
  <2> QED
    BY <2>1, <2>2, <2>3, StopPeriods
<1> QED
  BY <1>1, <1>2, <1>3, <1>4, <1>5, <1>6, <1>7, ToolSteps

-----------------------------------------------------------------------------
(* The theorems                                                            *)

LEMMA ToolInvHolds == ToolInit => ToolInv
<1> SUFFICES ASSUME ToolInit PROVE ToolInv
  OBVIOUS
<1>1. PICK enable \in BOOLEAN : InitStacks(enable)
  BY DEF ToolInit
<1>2. HolderInv
  BY <1>1, HolderInvHolds
<1>3. /\ threads_seen_ = {} /\ global_enable_ = ~ByTool
      /\ pc = [t \in Thread |-> "program"] /\ todo = [t \in Thread |-> <<>>]
      /\ updating = [t \in Thread |-> <<>>]
      /\ prefetchers_ = <<>> /\ stats_ = <<>>
      /\ prediction_sizes_ = [kind \in {"sim", "pair", "all"} |-> {}]
  BY <1>1 DEF ToolInit, InitStacks
<1>4. ProgramInv
  <2>1. <<>> \in Seq(Call_)
    OBVIOUS
  <2> QED
    BY <1>3, <2>1 DEF ProgramInv
<1>5. <<>> \in [{} -> SpacedArbiter] /\ <<>> \in [{} -> Stats] /\ DOMAIN <<>> = {}
  OBVIOUS
<1>6. ArbitersInv
  <2>1. Used("sim") = {}
    BY <1>3 DEF Used
  <2> QED
    BY <1>3, <1>5, <2>1 DEF ArbitersInv
<1>7. StatsInv
  <2>1. stats_ \in StatsTables
    <3>1. {} \in SUBSET Keys
      OBVIOUS
    <3> QED
      BY <1>3, <1>5, <3>1, TableType
  <2>2. prediction_sizes_ \in [{"sim", "pair", "all"} -> SUBSET Nat]
    BY <1>3
  <2> QED
    BY <2>1, <2>2 DEF StatsInv
<1>8. UpdatesInv
  BY <1>3 DEF UpdatesInv
<1>9. FlushedInv
  BY <1>3, <1>5 DEF FlushedInv, Flushed
<1> QED
  BY <1>2, <1>3, <1>4, <1>6, <1>7, <1>8, <1>9 DEF ToolInv

LEMMA SetupStays ==
  ASSUME HolderInv, ByTool => ProgramInv /\ ArbitersInv,
         ToolNext \/ UNCHANGED allVars
  PROVE  setup' = setup
<1>1. StackStep \/ UNCHANGED vars
  BY ToolStepIsStackStep DEF allVars
<1>2. ASSUME NEW t, NEW a, NEW is_write, NEW requested, Access(t, a, is_write, requested)
      PROVE  setup' = setup
  BY <1>2 DEF Access
<1>3. ASSUME NEW t, NEW fetches, Fetch(t, fetches) PROVE setup' = setup
  BY <1>3 DEF Fetch
<1>4. ASSUME NEW t, Allocate(t) PROVE setup' = setup
  BY <1>4 DEF Allocate
<1>5. ASSUME NEW t, NEW enable, SetThreadEnabled(t, enable) PROVE setup' = setup
  BY <1>5 DEF SetThreadEnabled
<1>6. EndParallelRegion => setup' = setup
  BY DEF EndParallelRegion
<1>7. ASSUME NEW enable, set_global_enable(enable) PROVE setup' = setup
  BY <1>7 DEF set_global_enable
<1>8. UNCHANGED vars => setup' = setup
  BY DEF vars
<1> QED
  BY <1>1, <1>2, <1>3, <1>4, <1>5, <1>6, <1>7, <1>8 DEF StackStep

LEMMA ToolInvIsKept ==
  ASSUME ToolInv, ToolNext \/ UNCHANGED allVars
  PROVE  ToolInv' /\ (StackStep \/ UNCHANGED vars)
<1>1. /\ HolderInv
      /\ ByTool => ProgramInv /\ ArbitersInv /\ StatsInv /\ UpdatesInv /\ FlushedInv
      /\ ~ByTool => prefetchers_ = <<>>
  BY DEF ToolInv
<1>2. StackStep \/ UNCHANGED vars
  BY <1>1, ToolStepIsStackStep DEF allVars
<1>3. HolderInv'
  BY <1>1, <1>2, HolderInvIsKept
<1>4. setup' = setup
  BY <1>1, SetupStays
<1>5. ByTool' = ByTool
  BY <1>4 DEF ByTool
<1>6. CASE ~ByTool
  <2>1. UNCHANGED toolVars
    BY <1>6 DEF ToolNext, allVars
  <2>2. prefetchers_' = <<>>
    BY <1>1, <1>6, <2>1 DEF toolVars, recordVars
  <2> QED
    BY <1>2, <1>3, <1>5, <1>6, <2>2 DEF ToolInv
<1>7. CASE ByTool /\ ToolNext
  <2>1. ProgramInv'
    BY <1>1, <1>7, ProgramIsKept
  <2>2. ArbitersInv'
    BY <1>1, <1>7, ArbitersAreKept
  <2>3. StatsInv'
    BY <1>1, <1>7, StatsAreKept
  <2>4. UpdatesInv'
    BY <1>1, <1>7, UpdatesAreKept
  <2>5. FlushedInv'
    BY <1>1, <1>7, FlushedIsKept
  <2> QED
    BY <1>2, <1>3, <1>5, <1>7, <2>1, <2>2, <2>3, <2>4, <2>5 DEF ToolInv
<1>8. CASE ByTool /\ UNCHANGED allVars
  <2>1. UNCHANGED vars /\ UNCHANGED toolVars
    BY <1>8 DEF allVars
  <2>2. /\ UNCHANGED <<setup, global_enable_, threads_seen_, sim_stacks_>>
        /\ UNCHANGED <<pc, todo, updating, stats_, prefetchers_, prediction_sizes_, overlapped>>
    BY <2>1 DEF vars, toolVars, programVars, recordVars
  <2>3. ProgramInv'
    BY <1>1, <1>8, <2>2 DEF ProgramInv
  <2>4. ArbitersInv'
    <3>1. Used("sim")' = Used("sim")
      BY <2>2 DEF Used, Uses
    <3> QED
      BY <1>1, <1>8, <2>2, <3>1 DEF ArbitersInv
  <2>5. StatsInv'
    BY <1>1, <1>8, <2>2 DEF StatsInv
  <2>6. UpdatesInv'
    BY <1>1, <1>8, <2>2 DEF UpdatesInv
  <2>7. FlushedInv'
    BY <1>1, <1>8, <2>2 DEF FlushedInv, Flushed
  <2> QED
    BY <1>2, <1>3, <1>5, <1>8, <2>3, <2>4, <2>5, <2>6, <2>7 DEF ToolInv
<1> QED
  BY <1>6, <1>7, <1>8

LEMMA ToolInvIsInvariant == ToolSpec => []ToolInv
<1>1. ToolInit => ToolInv
  BY ToolInvHolds
<1>2. ToolInv /\ [ToolNext]_allVars => ToolInv'
  BY ToolInvIsKept
<1> QED
  BY <1>1, <1>2, PTL DEF ToolSpec

\* StackHolder under its tools, whatever their threads execute and their arbiters prefetch:
\* the misses of a stack are explained by its first accesses and invalidations, ...
THEOREM ToolMissesAreExplained == ToolSpec => []MissesAreAccounted
<1>1. ToolInv => MissesAreAccounted
  BY MissesFollow DEF ToolInv
<1> QED
  BY <1>1, ToolInvIsInvariant, PTL

\* ... the shared stack has what a pair of threads has, ...
THEOREM ToolSharedIncludesPrivate == ToolSpec => []SharingIncludes
<1>1. ToolInv => SharingIncludes
  BY DEF ToolInv, HolderInv
<1> QED
  BY <1>1, ToolInvIsInvariant, PTL

\* ... and the stacks are coherent caches: of a fetch or prefetch by a tool as of any access,
\* a block is taken from another stack only by a write.
THEOREM ToolStacksAreCoherent == ToolSpec => ImplementsCoherentCopies
<1>1. ToolInit => Sim!Init /\ Pairs!Init
  BY NoCopiesFirst DEF ToolInit
<1>2. ToolInv /\ [ToolNext]_allVars => SimStep /\ PairsStep
  <2> SUFFICES ASSUME ToolInv, [ToolNext]_allVars PROVE SimStep /\ PairsStep
    OBVIOUS
  <2>1. HolderInv /\ (StackStep \/ UNCHANGED vars)
    BY ToolInvIsKept DEF ToolInv
  <2> QED
    BY <2>1, StackStepIsCoherent
<1> QED
  BY <1>1, <1>2, ToolInvIsInvariant, PTL
     DEF ToolSpec, ImplementsCoherentCopies, Sim!Spec, Pairs!Spec, SimStep, PairsStep

\* PrefetchArbiter: a block is not issued twice within kPrefetchRepeatFrequency references,
\* whatever its prefetchers ask for and however long their requests wait in its queue, and
\* its set of recent requests is that of its queue of them.
THEOREM RepeatsAreSpaced == ToolSpec => []PrefetchesAreSpaced
<1>1. ASSUME ToolInv PROVE PrefetchesAreSpaced
  <2>1. \A t \in DOMAIN prefetchers_ : prefetchers_[t] \in SpacedArbiter
    <3>1. CASE ByTool
      BY <1>1, <3>1 DEF ToolInv, ArbitersInv
    <3>2. CASE ~ByTool
      BY <1>1, <3>2 DEF ToolInv
    <3> QED
      BY <3>1, <3>2
  <2> QED
    BY <2>1, SpacedArbiters DEF PrefetchesAreSpaced
<1> QED
  BY <1>1, ToolInvIsInvariant, PTL

\* PrefetchArbiter and StackHolder::Access: what the arbiter of a thread takes for prefetched
\* the stack of this thread has, unless another thread has invalidated it there.
THEOREM PrefetchedStaysInStack == ToolSpec => []PrefetchedIsInStack
<1>1. ASSUME ToolInv PROVE PrefetchedIsInStack
  <2>1. CASE ByTool
    <3>1. /\ DOMAIN prefetchers_ = Used("sim")
          /\ \A t \in Used("sim") : prefetchers_[t].prefetched_addrs_ \subseteq Known(sim_stacks_[t])
      BY <1>1, <2>1 DEF ToolInv, ArbitersInv
    <3> QED
      BY <3>1 DEF PrefetchedIsInStack, Known, Missing, InBlocks
  <2>2. CASE ~ByTool
    BY <1>1, <2>2 DEF ToolInv, PrefetchedIsInStack
  <2> QED
    BY <2>1, <2>2
<1> QED
  BY <1>1, ToolInvIsInvariant, PTL

\* The end of the timer in reusedistance and reusedistance2stacks: while recording is off
\* all accesses have been counted for a period, unless a step fell into an unlocked update.
THEOREM StoppedStacksAreFlushed == ToolSpec => []StoppedIsFlushed
<1>1. ASSUME ToolInv PROVE StoppedIsFlushed
  <2>1. ASSUME ByTool, ~global_enable_, ~overlapped
        PROVE  \A k \in DOMAIN stats_ : stats_[k].current_prediction_accesses_ = 0
    <3>1. Flushed(Keys) /\ stats_ \in StatsTables
      BY <1>1, <2>1 DEF ToolInv, FlushedInv, StatsInv
    <3>2. DOMAIN stats_ \subseteq Keys
      BY <3>1, TableType
    <3> QED
      BY <3>1, <3>2 DEF Flushed
  <2> QED
    BY <2>1 DEF StoppedIsFlushed
<1> QED
  BY <1>1, ToolInvIsInvariant, PTL

\* The statistics besides: their samples and their periods.
LedgerInv == ToolInv /\ IF ByTool THEN SamplesInv /\ PeriodsInv ELSE stats_ = <<>>

LEMMA LedgerHolds == ToolInit => LedgerInv
<1> SUFFICES ASSUME ToolInit PROVE LedgerInv
  OBVIOUS
<1>1. /\ pc = [t \in Thread |-> "program"] /\ stats_ = <<>> /\ given = <<>>
  BY DEF ToolInit
<1>2. DOMAIN stats_ = {} /\ DOMAIN given = {}
  BY <1>1
<1>3. SamplesInv
  BY <1>2 DEF SamplesInv
<1>4. \A t \in Thread : ~AtHand(t) /\ ~InHandler(t)
  BY <1>1 DEF AtHand, InHandler
<1>5. PeriodsInv
  BY <1>2, <1>4 DEF PeriodsInv, OneHandler
<1> QED
  BY <1>1, <1>3, <1>5, ToolInvHolds DEF LedgerInv

LEMMA LedgerIsKept ==
  ASSUME LedgerInv, ToolNext \/ UNCHANGED allVars
  PROVE  LedgerInv'
<1>1. /\ ToolInv /\ HolderInv
      /\ ByTool => ProgramInv /\ ArbitersInv /\ StatsInv /\ UpdatesInv /\ SamplesInv /\ PeriodsInv
      /\ ~ByTool => stats_ = <<>>
  BY DEF LedgerInv, ToolInv
<1>2. ToolInv'
  BY <1>1, ToolInvIsKept
<1>3. ByTool' = ByTool
  BY <1>1, SetupStays DEF ByTool
<1>4. CASE ~ByTool
  <2>1. UNCHANGED toolVars
    BY <1>4 DEF ToolNext, allVars
  <2> QED
    BY <1>1, <1>2, <1>3, <1>4, <2>1 DEF toolVars, LedgerInv
<1>5. CASE ByTool /\ ToolNext
  <2>1. SamplesInv'
    BY <1>1, <1>5, SamplesAreKept
  <2>2. PeriodsInv'
    BY <1>1, <1>5, PeriodsAreKept
  <2> QED
    BY <1>2, <1>3, <1>5, <2>1, <2>2 DEF LedgerInv
<1>6. CASE ByTool /\ UNCHANGED allVars
  <2>1. /\ UNCHANGED <<setup, threads_seen_, sim_stacks_>>
        /\ UNCHANGED <<pc, updating, stats_, given, overlapped>>
    BY <1>6 DEF allVars, vars, toolVars, recordVars
  <2>2. SamplesInv'
    BY <1>1, <1>6, <2>1, SamplesQuiet DEF SameSamples
  <2>3. PeriodsInv'
    <3>1. \A u \in Thread : (AtHand(u)' <=> AtHand(u)) /\ (InHandler(u)' <=> InHandler(u))
      BY <2>1 DEF AtHand, InHandler
    <3>2. ~overlapped' => OneHandler'
      BY <1>1, <1>6, <2>1, <3>1 DEF PeriodsInv, OneHandler
    <3> QED
      BY <1>1, <1>6, <2>1, <3>1, <3>2, StopPeriods
  <2> QED
    BY <1>2, <1>3, <1>6, <2>2, <2>3 DEF LedgerInv
<1> QED
  BY <1>4, <1>5, <1>6

LEMMA LedgerIsInvariant == ToolSpec => []LedgerInv
<1>1. ToolInit => LedgerInv
  BY LedgerHolds
<1>2. LedgerInv /\ [ToolNext]_allVars => LedgerInv'
  BY LedgerIsKept
<1> QED
  BY <1>1, <1>2, PTL DEF ToolSpec

LEMMA LedgerHasSamples ==
  ASSUME LedgerInv
  PROVE  SamplesAddUp
<1>1. CASE ByTool
  BY <1>1 DEF LedgerInv, SamplesInv, SamplesAddUp, Counted
<1>2. CASE ~ByTool
  BY <1>2 DEF LedgerInv, SamplesAddUp
<1> QED
  BY <1>1, <1>2

LEMMA LedgerHasPeriods ==
  ASSUME LedgerInv
  PROVE  PeriodsAddUp
<1>1. CASE ByTool
  <2> SUFFICES ASSUME NobodyUpdates, ~overlapped, NEW k \in DOMAIN stats_
               PROVE  Between(stats_[k], given[k])
    BY DEF PeriodsAddUp, Between, Aligned
  <2>1. Complete(k)
    BY <1>1 DEF LedgerInv, PeriodsInv
  <2>2. \A t \in Thread : ~AtHand(t)
    BY DEF NobodyUpdates, AtHand
  <2> QED
    BY <2>1, <2>2 DEF Complete
<1>2. CASE ~ByTool
  BY <1>2 DEF LedgerInv, PeriodsAddUp
<1> QED
  BY <1>1, <1>2

\* ReuseStackStats::AddSample and UpdateRatioPredictions, and the stacks they are told of:
\* every sample is a miss of its kind or in a bucket, and a thread has the misses its stack
\* has counted, over any accesses, fetches and prefetches.  Unless a step fell into an update
\* without the lock, the periods share out the samples, with no more hits in any than
\* accesses, and only a size added late lacks the first of them.
THEOREM StatisticsAddUp == ToolSpec => []StatsAddUp
<1>1. LedgerInv => StatsAddUp
  BY LedgerHasSamples, LedgerHasPeriods DEF StatsAddUp
<1> QED
  BY <1>1, LedgerIsInvariant, PTL
=============================================================================
