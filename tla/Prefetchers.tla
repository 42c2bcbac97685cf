---------------------------- MODULE Prefetchers ----------------------------
(***************************************************************************)
(* The prefetchers and their arbiter, prefetcher.{h,cc}, strideprefetcher  *)
(* and globalstreamprefetcher, as operators on records.  They work on      *)
(* numbers of blocks.  StackHolder gives every thread an arbiter without   *)
(* delay and a stride prefetcher; the tests have the other kinds, and      *)
(* delays.                                                                 *)
(*                                                                         *)
(* Left out: what is only counted and printed; lastStride of a stride,     *)
(* which nothing reads; the wrap of an address that is asked for below 0;  *)
(* that a stride is an int: the blocks are taken to be less than 2^31      *)
(* apart, as the difference of two addresses is cut to 32 bits.            *)
(***************************************************************************)
EXTENDS ReuseStack

CONSTANTS
  kMissDistance,               \* a distance above is a miss
  kPrefetchRepeatFrequency,
  kRequestProximity,
  kStrideTableSize,
  kStreamTableSize

ASSUME PrefetcherAssumption ==
  /\ {kMissDistance, kPrefetchRepeatFrequency} \subseteq Nat
  /\ {kRequestProximity, kStrideTableSize, kStreamTableSize} \subseteq Nat \ {0}

kAddressMax == -1            \* no address
Max_Conf == 65535
kMaxConfidence == 7
kPrefetchConfidenceThreshold == 2

\* The misses without a distance are the largest ones.
is_miss(dist) == dist \in {kColdMiss, kInvalidationMiss} \/ dist > kMissDistance

-----------------------------------------------------------------------------
(* Each Access gives the prefetcher with the address it asks for.          *)

NewDCU == [kind |-> "dcu", recent_accesses_ |-> <<>>, asks |-> kAddressMax]

\* The ring of recent accesses is a sequence of the last ones.
DCUAccess(p, addr) ==
  LET recent == p.recent_accesses_
      kept == IF Len(recent) < kRequestProximity THEN recent ELSE Tail(recent)
  IN [p EXCEPT !.recent_accesses_ = Append(kept, addr),
               !.asks = IF addr \in ToSet(recent) THEN addr + 1 ELSE kAddressMax]

NewStride ==
  [kind |-> "stride", prefetch_record_ |-> {}, stride_table_ |-> <<>>, asks |-> kAddressMax]

\* Some entry of the least confidence: the first one in the order of the hash table.
StrideVictim(table) ==
  CHOOSE pc \in DOMAIN table :
    \A other \in DOMAIN table : table[pc].confidence <= table[other].confidence

StrideMiss(table, addr, PC) ==
  LET kept == IF Cardinality(DOMAIN table) < kStrideTableSize THEN table
              ELSE Restrict(table, DOMAIN table \ {StrideVictim(table)})
  IN [pc \in DOMAIN kept \cup {PC} |->
        IF pc = PC THEN [missAddr |-> addr, stride |-> 0, confidence |-> 0] ELSE kept[pc]]

StrideHit(entry, addr) ==
  LET new_stride == addr - entry.missAddr
  IN [ missAddr |-> addr, stride |-> new_stride,
       confidence |-> IF new_stride = entry.stride /\ new_stride # 0
                        THEN Min({entry.confidence + 1, Max_Conf}) ELSE 0 ]

StrideAccess(p, addr, PC, dist) ==
  IF ~is_miss(dist) /\ addr \notin p.prefetch_record_ THEN [p EXCEPT !.asks = kAddressMax]
  ELSE IF PC \notin DOMAIN p.stride_table_
    THEN [p EXCEPT !.stride_table_ = StrideMiss(@, addr, PC), !.asks = kAddressMax,
                   !.prefetch_record_ = @ \ {addr}]
    ELSE LET entry == StrideHit(p.stride_table_[PC], addr)
             asked == IF entry.confidence <= 0 THEN {} ELSE {addr + entry.stride}
         IN [p EXCEPT !.stride_table_[PC] = entry,
                      !.prefetch_record_ = (@ \ {addr}) \cup asked,
                      !.asks = IF asked = {} THEN kAddressMax ELSE Min(asked)]

NewStream == [kind |-> "stream", prefetch_record_ |-> {}, streams_ |-> <<>>, asks |-> kAddressMax]

Follows(s, addr) == s.stride # 0 /\ s.last_miss + s.stride = addr
Alternates(s, addr) == s.last_stride # 0 /\ s.last_miss + s.last_stride = addr
\* Addresses are unsigned: a stream at one of the first four is near nothing, as
\* last_miss - 4 wraps around.
IsNear(s, addr) == s.last_miss >= 4 /\ addr \in s.last_miss - 4 .. s.last_miss + 4

\* A stream whose stride, or the one before it, leads to the address: the address to
\* ask for is next, and a stream that is not confident forgets where it is.
Matched(s, addr) ==
  LET confidence == Min({s.confidence + 1, kMaxConfidence})
      sure == confidence >= kPrefetchConfidenceThreshold
      strides == IF Follows(s, addr) THEN s
                 ELSE [s EXCEPT !.last_stride = s.stride, !.stride = addr - s.last_miss]
      next == addr + s.stride
  IN [ stream |-> [strides EXCEPT !.confidence = confidence,
                                  !.last_miss = IF sure THEN addr ELSE @],
       asks |-> IF sure THEN next ELSE kAddressMax, done |-> TRUE ]

\* A stream near an address that no stride leads to.
Neared(s, addr) ==
  LET moved == [s EXCEPT !.stride = addr - s.last_miss, !.last_miss = addr]
      confidence == Max({s.confidence - 1, 0})
      sure == confidence > kPrefetchConfidenceThreshold
  IN IF s.stride = 0
       THEN [ stream |-> [moved EXCEPT !.confidence = @ + 1], asks |-> kAddressMax, done |-> TRUE ]
     ELSE IF s.last_stride = 0
       THEN [ stream |-> [moved EXCEPT !.last_stride = s.stride], asks |-> kAddressMax,
              done |-> TRUE ]
     ELSE [ stream |-> [s EXCEPT !.confidence = confidence,
                                 !.last_miss = IF sure THEN addr ELSE @],
            asks |-> IF sure THEN addr + s.stride ELSE kAddressMax, done |-> sure ]

NearStream(streams, addr, acc, i) ==
  IF acc.done \/ ~IsNear(streams[i], addr) THEN acc
  ELSE LET n == Neared(streams[i], addr)
       IN [ streams |-> [acc.streams EXCEPT ![i] = n.stream], asks |-> n.asks, done |-> n.done ]

\* Every near stream in turn, until one is done.
NearStreams(streams, addr) ==
  FoldLeft(LAMBDA acc, i : NearStream(streams, addr, acc, i),
           [streams |-> streams, asks |-> kAddressMax, done |-> FALSE],
           [i \in DOMAIN streams |-> i])

\* The first stream of the least confidence makes room.
WithStream(streams, addr) ==
  LET least == Min({streams[i].confidence : i \in DOMAIN streams})
      victim == Min({i \in DOMAIN streams : streams[i].confidence = least})
  IN Append(IF Len(streams) < kStreamTableSize THEN streams ELSE RemoveAt(streams, victim),
            [last_miss |-> addr, stride |-> 0, last_stride |-> 0, confidence |-> 0])

\* Writes are ignored.
StreamAccess(p, addr, dist, write) ==
  LET streams == p.streams_
      matches == {i \in DOMAIN streams : Follows(streams[i], addr) \/ Alternates(streams[i], addr)}
      first == Min(matches)
      matched == Matched(streams[first], addr)
      near == NearStreams(streams, addr)
      result ==
        IF matches # {} THEN [streams |-> [streams EXCEPT ![first] = matched.stream],
                              asks |-> matched.asks]
        ELSE IF \E i \in DOMAIN streams : IsNear(streams[i], addr)
          THEN [streams |-> near.streams, asks |-> near.asks]
        ELSE [streams |-> WithStream(streams, addr), asks |-> kAddressMax]
  IN IF write \/ (~is_miss(dist) /\ addr \notin p.prefetch_record_)
       THEN [p EXCEPT !.asks = kAddressMax]
       ELSE [p EXCEPT !.streams_ = result.streams, !.asks = result.asks,
                      !.prefetch_record_ = (@ \ {addr}) \cup ({result.asks} \ {kAddressMax})]

PrefetcherAccess(p, addr, PC, dist, write) ==
  CASE p.kind = "dcu" -> DCUAccess(p, addr)
    [] p.kind = "stride" -> StrideAccess(p, addr, PC, dist)
    [] p.kind = "stream" -> StreamAccess(p, addr, dist, write)

-----------------------------------------------------------------------------
(* The arbiter                                                             *)

NewArbiter(delay, prefetchers) ==
  [ kPrefetchDelay |-> delay, prefetchers_ |-> prefetchers,
    current_time_ |-> 0,
    prefetch_queue_ |-> <<>>,            \* of [addr, time]
    recent_prefetches_ |-> <<>>,         \* of [addr, expire_time]
    recent_prefetch_addrs_ |-> {},
    prefetched_addrs_ |-> {},            \* prefetched, not accessed since
    issued |-> <<>> ]                    \* history: <<block, time>> of each prefetch

\* What is left of a list when these are erased from it.
Without(list, erased) ==
  FoldLeft(LAMBDA kept, r : IF r \in erased THEN kept ELSE Append(kept, r), <<>>, list)

\* Mutant: a recent prefetch expires with its delay.
SetRequestInputSoon(arbiter, addr) ==
  LET now == arbiter.current_time_
      expired == {r \in ToSet(arbiter.recent_prefetches_) : r.expire_time <= now}
      recent == Without(arbiter.recent_prefetches_, expired)
  IN IF addr \in {r.addr : r \in ToSet(recent)} THEN arbiter
     ELSE [ arbiter EXCEPT
              !.prefetch_queue_ = Append(@, [addr |-> addr, time |-> now + arbiter.kPrefetchDelay]),
              !.recent_prefetches_ =
                 Append(recent, [addr |-> addr, expire_time |-> now + arbiter.kPrefetchDelay]),
              !.recent_prefetch_addrs_ = {r.addr : r \in ToSet(recent)} \cup {addr} ]

\* A request is queued unless there was one for the block recently.  Requests expire in
\* their order, so that the expired ones are the first.
SetRequestInput(arbiter, addr) ==
  LET now == arbiter.current_time_
      expired == {r \in ToSet(arbiter.recent_prefetches_) : r.expire_time <= now}
      recent == Without(arbiter.recent_prefetches_, expired)
      addrs == arbiter.recent_prefetch_addrs_ \ {r.addr : r \in expired}
      aged == [arbiter EXCEPT !.recent_prefetches_ = recent, !.recent_prefetch_addrs_ = addrs]
  IN IF addr \in addrs THEN aged
     ELSE [ aged EXCEPT
              !.prefetch_queue_ = Append(@, [addr |-> addr, time |-> now + arbiter.kPrefetchDelay]),
              !.recent_prefetches_ =
                 Append(@, [addr |-> addr, expire_time |-> now + kPrefetchRepeatFrequency]),
              !.recent_prefetch_addrs_ = @ \cup {addr} ]

\* The first request that is due is made, the others that are due are dropped.
GetRequestOutput(arbiter) ==
  LET now == arbiter.current_time_
      queue == arbiter.prefetch_queue_
      due == {i \in DOMAIN queue : queue[i].time <= now}
      first == queue[Min(due)].addr
      waiting == [arbiter EXCEPT !.prefetch_queue_ = Without(@, {queue[i] : i \in due})]
  IN IF due = {} THEN waiting
     ELSE [waiting EXCEPT !.prefetched_addrs_ = @ \cup {first},
                          !.issued = Append(@, <<first, now>>)]

\* The turn of a prefetcher.
Turn(arbiter, i, addr, PC, dist, write) ==
  LET p == PrefetcherAccess(arbiter.prefetchers_[i], addr, PC, dist, write)
      turned == [arbiter EXCEPT !.prefetchers_[i] = p]
  IN IF p.asks = kAddressMax THEN turned ELSE SetRequestInput(turned, p.asks)

\* The arbiter after an access.  An access cancels the requests for its block.
ArbiterAccess(arbiter, addr, PC, dist, write) ==
  LET timed == [arbiter EXCEPT !.current_time_ = @ + 1,
                               !.prefetch_queue_ =
                                  Without(@, {r \in ToSet(@) : r.addr = addr}),
                               !.prefetched_addrs_ = @ \ {addr}]
  IN GetRequestOutput(FoldLeft(LAMBDA a, i : Turn(a, i, addr, PC, dist, write), timed,
                               [i \in DOMAIN arbiter.prefetchers_ |-> i]))

\* What an access made the arbiter prefetch: no block or one.
Requested(arbiter) ==
  {r[1] : r \in {q \in ToSet(arbiter.issued) : q[2] = arbiter.current_time_}}
=============================================================================
