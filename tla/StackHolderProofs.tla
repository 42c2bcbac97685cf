------------------------- MODULE StackHolderProofs -------------------------
(***************************************************************************)
(* Theorems about StackHolder, for any threads, blocks and setups: what    *)
(* its operations do to the blocks of a stack and to its counts, what the  *)
(* stacks have in common, and that they are coherent caches.               *)
(***************************************************************************)
EXTENDS StackHolder, FiniteSetTheorems, TLAPS

-----------------------------------------------------------------------------
(* Folds over finite sets                                                  *)

LEMMA LeastOf ==
  ASSUME NEW T, T \subseteq Nat, T # {}
  PROVE  \E m \in T : \A k \in T : m <= k
<1> DEFINE Less == OpToRel(<, Nat)
<1>1. \A x, y \in Nat : x < y => <<x, y>> \in Less
  BY DEF OpToRel
<1>2. IsWellFoundedOn(Less, Nat)
  BY NatLessThanWellFounded
<1> HIDE DEF Less
<1>3. PICK m \in T : \A k \in T : ~ (<<k, m>> \in Less)
  BY <1>2, WFMin
<1>4. \A k \in T : ~ (k < m)
  BY <1>1, <1>3
<1>5. m \in Nat /\ \A k \in T : k \in Nat
  OBVIOUS
<1> QED
  BY <1>4, <1>5

\* A set of numbers with 0 and the successor of each of its members has them all.
LEMMA Successors ==
  ASSUME NEW Good, 0 \in Good, \A n \in Nat : n \in Good => n + 1 \in Good
  PROVE  Nat \subseteq Good
<1> SUFFICES ASSUME Nat \ Good # {} PROVE FALSE
  OBVIOUS
<1>1. PICK m \in Nat \ Good : \A k \in Nat \ Good : m <= k
  BY LeastOf
<1>2. m # 0
  OBVIOUS
<1>3. m - 1 \in Nat /\ (m - 1) + 1 = m /\ ~ (m <= m - 1)
  BY <1>2
<1> QED
  BY <1>1, <1>3

\* A property of the empty set that each set takes over from itself without some
\* member of it.
LEMMA Members ==
  ASSUME NEW T, IsFiniteSet(T), NEW Good, {} \in Good,
         \A s \in SUBSET T : s # {} => \E x \in s : s \ {x} \in Good => s \in Good
  PROVE  T \in Good
<1> DEFINE Sized == {n \in Nat : \A s \in SUBSET T : Cardinality(s) = n => s \in Good}
<1>1. \A s \in SUBSET T : IsFiniteSet(s) /\ Cardinality(s) \in Nat
  BY FS_Subset, FS_CardinalityType
<1>2. 0 \in Sized
  BY <1>1, FS_EmptySet
<1>3. ASSUME NEW n \in Nat, n \in Sized PROVE n + 1 \in Sized
  <2> SUFFICES ASSUME NEW s \in SUBSET T, Cardinality(s) = n + 1 PROVE s \in Good
    OBVIOUS
  <2>1. s # {}
    BY <1>3, FS_EmptySet
  <2>2. PICK x \in s : s \ {x} \in Good => s \in Good
    BY <2>1
  <2>3. Cardinality(s \ {x}) = n
    <3>1. x \in s /\ IsFiniteSet(s)
      BY <1>1, <2>2
    <3>2. Cardinality(s \ {x}) = Cardinality(s) - 1
      BY <3>1, FS_RemoveElement
    <3> QED
      BY <1>3, <3>2
  <2> QED
    BY <1>3, <2>2, <2>3
<1> HIDE DEF Sized
<1>4. Cardinality(T) \in Sized
  BY <1>1, <1>2, <1>3, Successors
<1> QED
  BY <1>4 DEF Sized

IsFold(f, T, R, base, step, pick) ==
  /\ f \in [SUBSET T -> R]
  /\ \A s \in SUBSET T :
       f[s] = IF s = {} THEN base ELSE step[<<pick[s], f[s \ {pick[s]}]>>]

\* The function over all subsets of a finite set that a fold is made of exists.
LEMMA FoldExists ==
  ASSUME NEW T, IsFiniteSet(T), NEW R, NEW base \in R, NEW step, NEW pick,
         \A x \in T, r \in R : step[<<x, r>>] \in R,
         \A s \in SUBSET T : s # {} => pick[s] \in s
  PROVE  \E f : IsFold(f, T, R, base, step, pick)
<1> DEFINE Small(n) == {s \in SUBSET T : Cardinality(s) <= n}
           FoldsTo(f, n) == \A s \in Small(n) :
             f[s] = IF s = {} THEN base ELSE step[<<pick[s], f[s \ {pick[s]}]>>]
           Good == {n \in Nat : \E f \in [Small(n) -> R] : FoldsTo(f, n)}
<1>1. \A s \in SUBSET T : IsFiniteSet(s) /\ Cardinality(s) \in Nat
  BY FS_Subset, FS_CardinalityType
<1>2. 0 \in Good
  <2>1. \A s \in Small(0) : s = {}
    BY <1>1, FS_EmptySet
  <2>2. [s \in Small(0) |-> base] \in [Small(0) -> R] /\ FoldsTo([s \in Small(0) |-> base], 0)
    BY <2>1
  <2> QED
    BY <2>2
<1>3. ASSUME NEW n \in Nat, n \in Good PROVE n + 1 \in Good
  <2>1. PICK f \in [Small(n) -> R] : FoldsTo(f, n)
    BY <1>3
  <2>2. ASSUME NEW s \in Small(n + 1), s # {}
        PROVE  pick[s] \in T /\ s \ {pick[s]} \in Small(n)
    <3>1. pick[s] \in s
      BY <2>2
    <3>2. Cardinality(s \ {pick[s]}) = Cardinality(s) - 1
      BY <1>1, <3>1, FS_RemoveElement
    <3> QED
      BY <1>1, <3>1, <3>2
  <2> DEFINE g == [s \in Small(n + 1) |->
                     IF s \in Small(n) THEN f[s] ELSE step[<<pick[s], f[s \ {pick[s]}]>>]]
  <2>3. {} \in Small(n)
    BY <1>1, FS_EmptySet
  <2>4. ASSUME NEW s \in Small(n + 1) PROVE g[s] \in R
    BY <2>2, <2>3, <2>4
  <2>5. g \in [Small(n + 1) -> R]
    BY <2>4
  <2>6. \A s \in Small(n + 1) : s # {} => g[s \ {pick[s]}] = f[s \ {pick[s]}]
    <3>1. Small(n) \subseteq Small(n + 1)
      BY <1>1
    <3> QED
      BY <2>2, <3>1
  <2>7. FoldsTo(g, n + 1)
    <3> SUFFICES ASSUME NEW s \in Small(n + 1)
                 PROVE  g[s] = IF s = {} THEN base ELSE step[<<pick[s], g[s \ {pick[s]}]>>]
      OBVIOUS
    <3>1. CASE s \in Small(n)
      BY <2>1, <2>6, <3>1
    <3>2. CASE s \notin Small(n)
      BY <2>3, <2>6, <3>2
    <3> QED
      BY <3>1, <3>2
  <2> HIDE DEF g, FoldsTo, Small
  <2> QED
    BY <2>5, <2>7
<1> HIDE DEF Good
<1>4. Cardinality(T) \in Good
  BY <1>1, <1>2, <1>3, Successors
<1>5. \A s \in SUBSET T : Cardinality(s) <= Cardinality(T)
  BY FS_Subset
<1>6. Small(Cardinality(T)) = SUBSET T
  BY <1>5
<1> HIDE DEF Small
<1> QED
  BY <1>4, <1>6 DEF Good, IsFold

\* A set of numbers up to n has a greatest one.
LEMMA GreatestOf ==
  ASSUME NEW n \in Nat, NEW T, T \subseteq 0 .. n, T # {}
  PROVE  Max(T) \in T /\ \A k \in T : k <= Max(T)
<1> DEFINE U == {n - k : k \in T}
<1>1. \A k \in T : k \in Nat /\ n - k \in Nat /\ n - k \in U
  OBVIOUS
<1>2. U \subseteq Nat /\ U # {}
  <2>1. ASSUME NEW u \in U PROVE u \in Nat
    <3>1. PICK k \in T : u = n - k
      BY <2>1
    <3> QED
      BY <1>1, <3>1
  <2> HIDE DEF U
  <2> QED
    BY <1>1, <2>1
<1>3. PICK m \in U : \A k \in U : m <= k
  BY <1>2, LeastOf
<1>4. PICK g \in T : m = n - g
  BY <1>3
<1>5. \A k \in T : g >= k
  <2> SUFFICES ASSUME NEW k \in T PROVE g >= k
    OBVIOUS
  <2>1. n - g <= n - k /\ g \in Nat /\ k \in Nat
    BY <1>1, <1>3, <1>4
  <2> QED
    BY <2>1
<1>6. Max(T) \in T /\ \A k \in T : Max(T) >= k
  BY <1>4, <1>5 DEF Max
<1> QED
  BY <1>1, <1>6

-----------------------------------------------------------------------------
(* Lists of blocks and holes                                               *)

\* A list with no block in it twice.
Once(list) ==
  /\ list \in Seq(Int)
  /\ \A i, j \in DOMAIN list : list[i] = list[j] /\ list[i] # Hole => i = j

LEMMA RemoveAtValue ==
  ASSUME NEW S, NEW l \in Seq(S), NEW i \in DOMAIN l
  PROVE  /\ RemoveAt(l, i) \in Seq(S)
         /\ Len(RemoveAt(l, i)) = Len(l) - 1
         /\ \A j \in 1 .. Len(l) - 1 :
              RemoveAt(l, i)[j] = IF j < i THEN l[j] ELSE l[j + 1]
<1> DEFINE front == SubSeq(l, 1, i - 1)
           back == SubSeq(l, i + 1, Len(l))
<1>1. i \in 1 .. Len(l) /\ Len(l) \in Nat
  OBVIOUS
<1>2. front \in Seq(S) /\ Len(front) = i - 1 /\ \A j \in 1 .. i - 1 : front[j] = l[j]
  BY <1>1
<1>3. /\ back \in Seq(S) /\ Len(back) = Len(l) - i
      /\ \A j \in 1 .. Len(l) - i : back[j] = l[j + i]
  BY <1>1
<1> HIDE DEF front, back
<1>4. front \o back \in Seq(S) /\ Len(front \o back) = Len(l) - 1
  BY <1>1, <1>2, <1>3
<1>5. ASSUME NEW j \in 1 .. Len(l) - 1
      PROVE  (front \o back)[j] = IF j < i THEN l[j] ELSE l[j + 1]
  <2>1. CASE j < i
    BY <1>1, <1>2, <1>3, <1>5, <2>1
  <2>2. CASE ~ (j < i)
    <3>1. j - Len(front) \in 1 .. Len(l) - i /\ j > Len(front) /\ (j - Len(front)) + i = j + 1
      BY <1>1, <1>2, <1>5, <2>2
    <3>2. (front \o back)[j] = back[j - Len(front)]
      <4>1. Len(front) \in Nat /\ j \in 1 .. Len(front) + Len(back) /\ ~ (j <= Len(front))
        <5>1. Len(front) \in Nat /\ Len(front) + Len(back) = Len(l) - 1
          BY <1>1, <1>2, <1>3
        <5>2. j \in Int /\ j > Len(front)
          BY <1>1, <1>5, <3>1
        <5> QED
          BY <1>1, <1>5, <5>1, <5>2
      <4>2. \A p, q \in Seq(S) : \A k \in 1 .. Len(p) + Len(q) :
              ~ (k <= Len(p)) => (p \o q)[k] = q[k - Len(p)]
        OBVIOUS
      <4>3. front \in Seq(S) /\ back \in Seq(S)
        BY <1>2, <1>3
      <4> QED
        BY <4>1, <4>2, <4>3, Zenon
    <3> QED
      BY <1>3, <2>2, <3>1, <3>2
  <2> QED
    BY <2>1, <2>2
<1>6. RemoveAt(l, i) = front \o back
  BY DEF RemoveAt, front, back
<1> QED
  BY <1>4, <1>5, <1>6

LEMMA RemovalEffect ==
  ASSUME NEW l, Once(l), NEW i \in DOMAIN l
  PROVE  /\ Once(RemoveAt(l, i))
         /\ BlocksOf(RemoveAt(l, i)) = BlocksOf(l) \ {l[i]}
<1> DEFINE r == RemoveAt(l, i)
           from(j) == IF j < i THEN j ELSE j + 1
<1>1. l \in Seq(Int) /\ i \in 1 .. Len(l) /\ Len(l) \in Nat /\ DOMAIN l = 1 .. Len(l)
  BY DEF Once
<1>2. /\ r \in Seq(Int) /\ Len(r) = Len(l) - 1
      /\ \A j \in 1 .. Len(l) - 1 : r[j] = IF j < i THEN l[j] ELSE l[j + 1]
  BY <1>1, RemoveAtValue
<1> HIDE DEF r
<1>0. DOMAIN r = 1 .. Len(l) - 1
  BY <1>1, <1>2
<1>3. \A j \in DOMAIN r : from(j) \in DOMAIN l /\ from(j) # i /\ r[j] = l[from(j)]
  <2> SUFFICES ASSUME NEW j \in 1 .. Len(l) - 1
               PROVE  from(j) \in DOMAIN l /\ from(j) # i /\ r[j] = l[from(j)]
    BY <1>0
  <2>1. r[j] = IF j < i THEN l[j] ELSE l[j + 1]
    BY <1>2
  <2>2. from(j) \in 1 .. Len(l) /\ from(j) # i
    BY <1>1
  <2> QED
    BY <1>1, <2>1, <2>2
<1>4. \A j, k \in DOMAIN r : from(j) = from(k) => j = k
  BY <1>0, <1>1
<1>5. \A k \in DOMAIN l : k # i => \E j \in DOMAIN r : from(j) = k
  <2> SUFFICES ASSUME NEW k \in DOMAIN l, k # i PROVE \E j \in DOMAIN r : from(j) = k
    OBVIOUS
  <2>1. CASE k < i
    BY <1>0, <1>1, <2>1
  <2>2. CASE k > i
    <3>1. k - 1 \in DOMAIN r /\ from(k - 1) = k
      BY <1>0, <1>1, <2>2
    <3> QED
      BY <3>1
  <2> QED
    BY <1>1, <2>1, <2>2
<1> HIDE DEF from
<1>6. Once(r)
  BY <1>2, <1>3, <1>4 DEF Once
<1>7. \A k \in DOMAIN l : k # i /\ l[k] # Hole => l[k] # l[i]
  BY DEF Once
<1>8. BlocksOf(r) \subseteq BlocksOf(l) \ {l[i]}
  BY <1>3, <1>7 DEF BlocksOf, ToSet
<1>9. BlocksOf(l) \ {l[i]} \subseteq BlocksOf(r)
  BY <1>3, <1>5 DEF BlocksOf, ToSet
<1> QED
  BY <1>6, <1>8, <1>9 DEF r

LEMMA ReplacementEffect ==
  ASSUME NEW l, Once(l), NEW i \in DOMAIN l
  PROVE  /\ Once(ReplaceAt(l, i, Hole))
         /\ DOMAIN ReplaceAt(l, i, Hole) = DOMAIN l
         /\ \A j \in DOMAIN l : ReplaceAt(l, i, Hole)[j] = IF j = i THEN Hole ELSE l[j]
         /\ BlocksOf(ReplaceAt(l, i, Hole)) = BlocksOf(l) \ {l[i]}
<1> DEFINE r == ReplaceAt(l, i, Hole)
<1>1. l \in Seq(Int) /\ i \in 1 .. Len(l)
  BY DEF Once
<1>2. /\ r \in Seq(Int) /\ DOMAIN r = DOMAIN l
      /\ \A j \in DOMAIN l : r[j] = IF j = i THEN Hole ELSE l[j]
  BY <1>1 DEF ReplaceAt, Hole
<1> HIDE DEF r
<1>3. Once(r)
  BY <1>2 DEF Once
<1>4. \A k \in DOMAIN l : k # i /\ l[k] # Hole => l[k] # l[i]
  BY DEF Once
<1>5. BlocksOf(r) = BlocksOf(l) \ {l[i]}
  BY <1>2, <1>4 DEF BlocksOf, ToSet
<1> QED
  BY <1>2, <1>3, <1>5 DEF r

LEMMA ConsEffect ==
  ASSUME NEW l, Once(l), NEW a \in Int \ {Hole}, a \notin BlocksOf(l)
  PROVE  Once(Cons(a, l)) /\ BlocksOf(Cons(a, l)) = BlocksOf(l) \cup {a}
<1> DEFINE r == Cons(a, l)
<1>1. l \in Seq(Int) /\ Len(l) \in Nat /\ DOMAIN l = 1 .. Len(l)
  BY DEF Once
<1>2. /\ r \in Seq(Int) /\ Len(r) = Len(l) + 1
      /\ \A j \in 1 .. Len(l) + 1 : r[j] = IF j = 1 THEN a ELSE l[j - 1]
  BY <1>1 DEF Cons
<1> HIDE DEF r
<1>3. DOMAIN r = 1 .. Len(l) + 1
  BY <1>2
<1>4. \A j \in DOMAIN r : j # 1 => j - 1 \in DOMAIN l /\ r[j] = l[j - 1]
  BY <1>1, <1>2, <1>3
<1>5. \A k \in DOMAIN l : k + 1 \in DOMAIN r /\ r[k + 1] = l[k]
  <2> SUFFICES ASSUME NEW k \in DOMAIN l PROVE k + 1 \in DOMAIN r /\ r[k + 1] = l[k]
    OBVIOUS
  <2>1. k + 1 \in DOMAIN r /\ k + 1 # 1 /\ (k + 1) - 1 = k
    BY <1>1, <1>3
  <2>2. r[k + 1] = l[(k + 1) - 1]
    BY <1>4, <2>1
  <2> QED
    BY <2>1, <2>2
<1>6. 1 \in DOMAIN r /\ r[1] = a
  BY <1>1, <1>2, <1>3
<1>7. \A k \in DOMAIN l : l[k] # a
  BY DEF BlocksOf, ToSet
<1>8. Once(r)
  <2>1. ASSUME NEW i \in DOMAIN r, NEW j \in DOMAIN r, r[i] = r[j], r[i] # Hole PROVE i = j
    <3>1. i = 1 <=> j = 1
      BY <1>4, <1>6, <1>7, <2>1
    <3>2. CASE i # 1
      <4>1. i - 1 = j - 1
        BY <1>4, <2>1, <3>1, <3>2 DEF Once
      <4> QED
        BY <1>3, <4>1
    <3> QED
      BY <3>1, <3>2
  <2> QED
    BY <1>2, <2>1 DEF Once
<1>9. BlocksOf(r) = BlocksOf(l) \cup {a}
  <2>1. BlocksOf(r) \subseteq BlocksOf(l) \cup {a}
    BY <1>4, <1>6 DEF BlocksOf, ToSet
  <2>2. BlocksOf(l) \cup {a} \subseteq BlocksOf(r)
    BY <1>5, <1>6 DEF BlocksOf, ToSet
  <2> QED
    BY <2>1, <2>2
<1> QED
  BY <1>8, <1>9 DEF r

LEMMA DepthValue ==
  ASSUME NEW l, Once(l), NEW a \in Int \ {Hole}
  PROVE  /\ DepthIn(l, a) = NotFound <=> a \notin BlocksOf(l)
         /\ a \in BlocksOf(l) => DepthIn(l, a) + 1 \in DOMAIN l /\ l[DepthIn(l, a) + 1] = a
<1>1. a \in BlocksOf(l) <=> a \in ToSet(l)
  BY DEF BlocksOf
<1>2. CASE a \in ToSet(l)
  <2>1. \E i \in DOMAIN l : l[i] = a
    BY <1>2 DEF ToSet
  <2> DEFINE i == CHOOSE i \in DOMAIN l : l[i] = a
  <2>2. i \in DOMAIN l /\ l[i] = a
    BY <2>1
  <2>3. DepthIn(l, a) = i - 1
    BY <1>2 DEF DepthIn
  <2> HIDE DEF i
  <2>4. i \in Nat \ {0} /\ (i - 1) + 1 = i
    BY <2>2 DEF Once
  <2> QED
    BY <1>1, <1>2, <2>2, <2>3, <2>4 DEF NotFound
<1>3. CASE a \notin ToSet(l)
  BY <1>1, <1>3 DEF DepthIn
<1> QED
  BY <1>2, <1>3

LEMMA InvalidatedBlocks ==
  ASSUME NEW l, Once(l), NEW a \in BlocksOf(l), a \in Int
  PROVE  Once(Invalidated(l, a)) /\ BlocksOf(Invalidated(l, a)) = BlocksOf(l) \ {a}
<1>1. a # Hole
  BY DEF BlocksOf
<1>2. DepthIn(l, a) + 1 \in DOMAIN l /\ l[DepthIn(l, a) + 1] = a
  BY <1>1, DepthValue
<1> QED
  BY <1>2, ReplacementEffect DEF Invalidated

LEMMA AccessedBlocks ==
  ASSUME NEW l, Once(l), NEW a \in Int \ {Hole}
  PROVE  Once(Accessed(l, a)) /\ BlocksOf(Accessed(l, a)) = BlocksOf(l) \cup {a}
<1> DEFINE depth == DepthIn(l, a)
           holes == HolesOf(l)
           deepest == Max(holes)
           hole_filled == holes # {} /\ (depth = NotFound \/ deepest <= depth)
           left == IF depth = NotFound THEN l
                   ELSE IF hole_filled THEN ReplaceAt(l, depth + 1, Hole)
                   ELSE RemoveAt(l, depth + 1)
           rest == IF hole_filled THEN RemoveAt(left, deepest) ELSE left
<1>1. Accessed(l, a) = Cons(a, rest)
  BY DEF Accessed
<1>2. l \in Seq(Int) /\ Len(l) \in Nat /\ DOMAIN l = 1 .. Len(l)
  BY DEF Once
<1>3. holes # {} => deepest \in DOMAIN l /\ l[deepest] = Hole
  <2>1. holes \subseteq 0 .. Len(l)
    BY <1>2 DEF HolesOf
  <2>2. holes # {} => deepest \in holes
    BY <1>2, <2>1, GreatestOf
  <2> QED
    BY <2>2 DEF HolesOf
<1>4. /\ depth = NotFound <=> a \notin BlocksOf(l)
      /\ depth # NotFound => depth + 1 \in DOMAIN l /\ l[depth + 1] = a
  BY DepthValue
<1> HIDE DEF depth, holes, deepest
<1>5. Once(left) /\ BlocksOf(left) = BlocksOf(l) \ {a}
  BY <1>4, RemovalEffect, ReplacementEffect
<1>6. hole_filled => deepest \in DOMAIN left /\ left[deepest] = Hole
  BY <1>3, <1>4, ReplacementEffect
<1> HIDE DEF left
<1>7. Once(rest) /\ BlocksOf(rest) = BlocksOf(l) \ {a}
  <2>1. CASE hole_filled
    <3>1. Once(rest) /\ BlocksOf(rest) = BlocksOf(left) \ {Hole}
      BY <1>5, <1>6, <2>1, RemovalEffect
    <3> QED
      BY <1>5, <3>1 DEF BlocksOf
  <2>2. CASE ~hole_filled
    BY <1>5, <2>2
  <2> QED
    BY <2>1, <2>2
<1> HIDE DEF rest
<1>8. Once(Cons(a, rest)) /\ BlocksOf(Cons(a, rest)) = BlocksOf(rest) \cup {a}
  BY <1>7, ConsEffect
<1>9. (BlocksOf(l) \ {a}) \cup {a} = BlocksOf(l) \cup {a}
  OBVIOUS
<1> QED
  BY <1>1, <1>7, <1>8, <1>9

-----------------------------------------------------------------------------
(* The operations of a stack                                               *)

Addr == Int \ {Hole}
Missing(s) == DOMAIN s.invalidatedAddrs

\* The blocks that a stack has had.
Known(s) == BlocksOf(s.list) \cup Missing(s)

\* Bags with one of each of their members.
OneEach == UNION {[D -> {1}] : D \in SUBSET Int}

StackRecord ==
  [ list : Seq(Int),
    invalidatedAddrs : OneEach,
    coldCount : Nat, coherenceMisses : Nat,
    prefetchColdCount : Nat, prefetchCoherenceMisses : Nat,
    invalCount : Nat,
    dists : Seq(Int) ]

\* What MissesAreAccounted says of a stack.
Accounted(s) ==
  /\ \A b \in Missing(s) : s.invalidatedAddrs[b] = 1 /\ b \notin BlocksOf(s.list)
  /\ s.invalCount = s.coherenceMisses + s.prefetchCoherenceMisses + Cardinality(Missing(s))
  /\ s.coldCount + s.prefetchColdCount = Cardinality(BlocksOf(s.list)) + Cardinality(Missing(s))

\* The stacks there can be.
Sound ==
  {s \in StackRecord :
     /\ Once(s.list) /\ IsFiniteSet(BlocksOf(s.list)) /\ IsFiniteSet(Missing(s))
     /\ Accounted(s)}

LEMMA RecordFields ==
  ASSUME NEW s \in Sound
  PROVE  /\ s \in StackRecord
         /\ s.list \in Seq(Int) /\ Once(s.list)
         /\ s.invalidatedAddrs \in [Missing(s) -> {1}] /\ Missing(s) \subseteq Int
         /\ {s.coldCount, s.coherenceMisses, s.prefetchColdCount, s.prefetchCoherenceMisses,
             s.invalCount} \subseteq Nat
         /\ s.dists \in Seq(Int)
         /\ IsFiniteSet(BlocksOf(s.list)) /\ Cardinality(BlocksOf(s.list)) \in Nat
         /\ IsFiniteSet(Missing(s)) /\ Cardinality(Missing(s)) \in Nat
         /\ Accounted(s)
<1>1. s \in StackRecord /\ Once(s.list) /\ IsFiniteSet(BlocksOf(s.list))
      /\ IsFiniteSet(Missing(s)) /\ Accounted(s)
  BY DEF Sound
<1>2. \E D \in SUBSET Int : s.invalidatedAddrs \in [D -> {1}]
  BY <1>1 DEF StackRecord, OneEach
<1>3. s.invalidatedAddrs \in [Missing(s) -> {1}] /\ Missing(s) \subseteq Int
  BY <1>2 DEF Missing
<1>4. Cardinality(BlocksOf(s.list)) \in Nat /\ Cardinality(Missing(s)) \in Nat
  BY <1>1, FS_CardinalityType
<1> QED
  BY <1>1, <1>3, <1>4 DEF StackRecord

\* A block that is neither in the stack nor missing, one that is missing, and one that
\* is in the stack.
LEMMA Counting ==
  ASSUME NEW blocks, NEW missing, IsFiniteSet(blocks), IsFiniteSet(missing), NEW b,
         \A x \in missing : x \notin blocks
  PROVE  /\ IsFiniteSet(blocks \cup {b}) /\ IsFiniteSet(blocks \ {b})
         /\ IsFiniteSet(missing \cup {b}) /\ IsFiniteSet(missing \ {b})
         /\ b \notin blocks => Cardinality(blocks \cup {b}) = Cardinality(blocks) + 1
         /\ b \in blocks => Cardinality(blocks \cup {b}) = Cardinality(blocks)
         /\ b \in missing => Cardinality(missing \ {b}) = Cardinality(missing) - 1
         /\ b \in blocks => /\ Cardinality(blocks \ {b}) = Cardinality(blocks) - 1
                            /\ Cardinality(missing \cup {b}) = Cardinality(missing) + 1
  BY FS_AddElement, FS_RemoveElement

LEMMA NewStackSound ==
  NewStack \in Sound /\ BlocksOf(NewStack.list) = {} /\ NewStack # <<>>
<1>1. NewStack.invalidatedAddrs \in [{} -> {1}]
  BY DEF NewStack, EmptyBag, SetToBag
<1>2. NewStack.invalidatedAddrs \in OneEach
  BY <1>1 DEF OneEach
<1>3. NewStack \in StackRecord
  BY <1>2 DEF NewStack, StackRecord
<1>4. BlocksOf(NewStack.list) = {}
  BY DEF NewStack, BlocksOf, ToSet
<1>5. Missing(NewStack) = {}
  BY <1>1 DEF Missing
<1>6. Once(NewStack.list)
  BY DEF NewStack, Once
<1>7. Accounted(NewStack)
  <2>1. /\ NewStack.invalCount = 0 /\ NewStack.coldCount = 0 /\ NewStack.prefetchColdCount = 0
        /\ NewStack.coherenceMisses = 0 /\ NewStack.prefetchCoherenceMisses = 0
    BY DEF NewStack
  <2> QED
    BY <1>4, <1>5, <2>1, FS_EmptySet DEF Accounted
<1>8. NewStack # <<>>
  BY DEF NewStack
<1> QED
  BY <1>3, <1>4, <1>5, <1>6, <1>7, <1>8, FS_EmptySet DEF Sound

LEMMA ClearedDists ==
  ASSUME NEW s \in Sound
  PROVE  /\ [s EXCEPT !.dists = <<>>] \in Sound
         /\ [s EXCEPT !.dists = <<>>].list = s.list
         /\ [s EXCEPT !.dists = <<>>].invalidatedAddrs = s.invalidatedAddrs
<1> DEFINE r == [s EXCEPT !.dists = <<>>]
<1>1. s \in StackRecord /\ Once(s.list) /\ IsFiniteSet(BlocksOf(s.list))
      /\ IsFiniteSet(Missing(s)) /\ Accounted(s)
  BY RecordFields
<1>4. r \in StackRecord
  <2>1. <<>> \in Seq(Int)
    OBVIOUS
  <2> QED
    BY <1>1, <2>1 DEF StackRecord
<1>2. /\ r.list = s.list /\ r.invalidatedAddrs = s.invalidatedAddrs
      /\ r.coldCount = s.coldCount /\ r.prefetchColdCount = s.prefetchColdCount
      /\ r.coherenceMisses = s.coherenceMisses
      /\ r.prefetchCoherenceMisses = s.prefetchCoherenceMisses /\ r.invalCount = s.invalCount
  BY <1>1 DEF StackRecord
<1> HIDE DEF r
<1>3. r \in Sound
  BY <1>1, <1>2, <1>4 DEF Sound, Accounted, Missing
<1> QED
  BY <1>2, <1>3 DEF r

\* What an access does to a stack, its counts of misses apart: it moves the block to the
\* top, and if it was missing it is no longer.
LEMMA AccessedRecord ==
  ASSUME NEW s \in Sound, NEW b \in Addr, NEW r \in StackRecord,
         r.list = Accessed(s.list, b), r.invalCount = s.invalCount,
         b \in BlocksOf(s.list) =>
           /\ r.invalidatedAddrs = s.invalidatedAddrs
           /\ r.coldCount + r.prefetchColdCount = s.coldCount + s.prefetchColdCount
           /\ r.coherenceMisses + r.prefetchCoherenceMisses
                = s.coherenceMisses + s.prefetchCoherenceMisses,
         b \notin BlocksOf(s.list) /\ b \in Missing(s) =>
           /\ r.invalidatedAddrs = Forgotten(s.invalidatedAddrs, b)
           /\ r.coldCount + r.prefetchColdCount = s.coldCount + s.prefetchColdCount
           /\ r.coherenceMisses + r.prefetchCoherenceMisses
                = s.coherenceMisses + s.prefetchCoherenceMisses + 1,
         b \notin BlocksOf(s.list) /\ b \notin Missing(s) =>
           /\ r.invalidatedAddrs = s.invalidatedAddrs
           /\ r.coldCount + r.prefetchColdCount = s.coldCount + s.prefetchColdCount + 1
           /\ r.coherenceMisses + r.prefetchCoherenceMisses
                = s.coherenceMisses + s.prefetchCoherenceMisses
  PROVE  /\ r \in Sound /\ BlocksOf(r.list) = BlocksOf(s.list) \cup {b}
         /\ Known(s) \subseteq Known(r)
<1> DEFINE blocks == BlocksOf(s.list)
           missing == Missing(s)
<1>1. b \in Int \ {Hole}
  BY DEF Addr
<1>2. /\ Once(s.list) /\ s.invalidatedAddrs \in [missing -> {1}]
      /\ IsFiniteSet(blocks) /\ IsFiniteSet(missing) /\ Accounted(s)
      /\ Cardinality(blocks) \in Nat /\ Cardinality(missing) \in Nat
      /\ {s.coldCount, s.coherenceMisses, s.prefetchColdCount, s.prefetchCoherenceMisses,
          s.invalCount} \subseteq Nat
  BY RecordFields
<1>3. Once(r.list) /\ BlocksOf(r.list) = blocks \cup {b}
  BY <1>1, <1>2, AccessedBlocks
<1>4. \A x \in missing : x \notin blocks /\ s.invalidatedAddrs[x] = 1
  BY <1>2 DEF Accounted
<1>0. /\ r.invalCount = s.invalCount
      /\ b \in blocks =>
           /\ r.invalidatedAddrs = s.invalidatedAddrs
           /\ r.coldCount + r.prefetchColdCount = s.coldCount + s.prefetchColdCount
           /\ r.coherenceMisses + r.prefetchCoherenceMisses
                = s.coherenceMisses + s.prefetchCoherenceMisses
      /\ b \notin blocks /\ b \in missing =>
           /\ r.invalidatedAddrs = Forgotten(s.invalidatedAddrs, b)
           /\ r.coldCount + r.prefetchColdCount = s.coldCount + s.prefetchColdCount
           /\ r.coherenceMisses + r.prefetchCoherenceMisses
                = s.coherenceMisses + s.prefetchCoherenceMisses + 1
      /\ b \notin blocks /\ b \notin missing =>
           /\ r.invalidatedAddrs = s.invalidatedAddrs
           /\ r.coldCount + r.prefetchColdCount = s.coldCount + s.prefetchColdCount + 1
           /\ r.coherenceMisses + r.prefetchCoherenceMisses
                = s.coherenceMisses + s.prefetchCoherenceMisses
  OBVIOUS
<1>12. missing = DOMAIN s.invalidatedAddrs
  BY DEF Missing
<1> HIDE DEF blocks, missing
<1>5. /\ IsFiniteSet(blocks \cup {b}) /\ IsFiniteSet(missing \ {b})
      /\ b \notin blocks => Cardinality(blocks \cup {b}) = Cardinality(blocks) + 1
      /\ b \in blocks => Cardinality(blocks \cup {b}) = Cardinality(blocks)
      /\ b \in missing => Cardinality(missing \ {b}) = Cardinality(missing) - 1
  BY <1>2, FS_AddElement, FS_RemoveElement
<1>6. /\ s.invalCount = s.coherenceMisses + s.prefetchCoherenceMisses + Cardinality(missing)
      /\ s.coldCount + s.prefetchColdCount = Cardinality(blocks) + Cardinality(missing)
  BY <1>2 DEF Accounted, blocks, missing
<1>7. Missing(r) = missing \ {b} /\ \A x \in Missing(r) : r.invalidatedAddrs[x] = 1
  <2>1. CASE b \in blocks \/ b \notin missing
    BY <1>0, <1>4, <1>12, <2>1 DEF Missing
  <2>2. CASE b \notin blocks /\ b \in missing
    <3>1. Forgotten(s.invalidatedAddrs, b) = [x \in missing \ {b} |-> s.invalidatedAddrs[x]]
      BY <1>12 DEF Forgotten, Restrict
    <3> QED
      BY <1>0, <1>4, <2>2, <3>1 DEF Missing
  <2> QED
    BY <2>1, <2>2
<1>8. b \notin missing => missing \ {b} = missing
  OBVIOUS
<1>9. /\ r.invalCount = r.coherenceMisses + r.prefetchCoherenceMisses + Cardinality(Missing(r))
      /\ r.coldCount + r.prefetchColdCount = Cardinality(BlocksOf(r.list)) + Cardinality(Missing(r))
  <2>1. CASE b \in blocks
    <3>1. b \notin missing
      BY <1>4, <2>1
    <3> QED
      BY <1>0, <1>2, <1>3, <1>5, <1>6, <1>7, <1>8, <2>1, <3>1
  <2>2. CASE b \notin blocks /\ b \in missing
    BY <1>0, <1>2, <1>3, <1>5, <1>6, <1>7, <2>2
  <2>3. CASE b \notin blocks /\ b \notin missing
    <3>1. Missing(r) = missing
      BY <1>7, <1>8, <2>3
    <3>2. Cardinality(BlocksOf(r.list)) = Cardinality(blocks) + 1
      BY <1>3, <1>5, <2>3
    <3> QED
      BY <1>0, <1>2, <1>6, <2>3, <3>1, <3>2
  <2> QED
    BY <2>1, <2>2, <2>3
<1>10. \A x \in Missing(r) : x \notin BlocksOf(r.list)
  BY <1>3, <1>4, <1>7
<1>11. Accounted(r)
  BY <1>7, <1>9, <1>10 DEF Accounted
<1> QED
  BY <1>3, <1>5, <1>7, <1>11 DEF Sound, Known, blocks, missing

\* What is left of a stack when a block has been accessed.
LEMMA AccessBlockRecord ==
  ASSUME NEW s \in Sound, NEW b \in Addr
  PROVE  LET moved == Accessed(s.list, b)
             d == Append(s.dists, DistanceOf(s, b))
         IN
         /\ DistanceOf(s, b) \in Int /\ moved \in Seq(Int) /\ d \in Seq(Int)
         /\ Forgotten(s.invalidatedAddrs, b) \in OneEach
         /\ AccessBlock(s, b) =
              IF b \in BlocksOf(s.list) THEN [s EXCEPT !.list = moved, !.dists = d]
              ELSE IF b \in Missing(s)
                THEN [s EXCEPT !.list = moved, !.dists = d, !.coherenceMisses = @ + 1,
                               !.invalidatedAddrs = Forgotten(@, b)]
                ELSE [s EXCEPT !.list = moved, !.dists = d, !.coldCount = @ + 1]
<1> DEFINE r == AccessBlock(s, b)
           moved == Accessed(s.list, b)
           d == Append(s.dists, DistanceOf(s, b))
<1>1. b \in Int \ {Hole} /\ s \in StackRecord /\ Once(s.list)
  BY RecordFields DEF Addr
<1>2. DepthIn(s.list, b) # NotFound <=> b \in BlocksOf(s.list)
  BY <1>1, DepthValue
<1>3. moved \in Seq(Int)
  BY <1>1, AccessedBlocks DEF Once
<1>4. DistanceOf(s, b) \in Int
  <2>1. b \in BlocksOf(s.list) => DepthIn(s.list, b) + 1 \in DOMAIN s.list /\ s.list \in Seq(Int)
    BY <1>1, DepthValue DEF Once
  <2>2. b \in ToSet(s.list) => DepthIn(s.list, b) \in Int
    <3> SUFFICES ASSUME b \in ToSet(s.list) PROVE DepthIn(s.list, b) \in Int
      OBVIOUS
    <3>1. \E i \in DOMAIN s.list : s.list[i] = b
      BY DEF ToSet
    <3>2. (CHOOSE i \in DOMAIN s.list : s.list[i] = b) \in DOMAIN s.list
      BY <3>1
    <3>3. \A i \in DOMAIN s.list : i \in Int
      BY <1>1 DEF Once
    <3> QED
      BY <3>2, <3>3 DEF DepthIn
  <2> QED
    BY <2>2 DEF DistanceOf, kInvalidationMiss, kColdMiss, NotFound, BlocksOf
<1>5. d \in Seq(Int)
  BY <1>4, RecordFields
<1>6. Forgotten(s.invalidatedAddrs, b) \in OneEach
  <2>1. Forgotten(s.invalidatedAddrs, b) \in [Missing(s) \ {b} -> {1}] /\ Missing(s) \ {b} \subseteq Int
    BY RecordFields DEF Forgotten, Restrict, Missing
  <2> QED
    BY <2>1 DEF OneEach
<1> HIDE DEF moved, d
<1>7. r = IF b \in BlocksOf(s.list) THEN [s EXCEPT !.list = moved, !.dists = d]
          ELSE IF b \in Missing(s)
            THEN [s EXCEPT !.list = moved, !.dists = d, !.coherenceMisses = @ + 1,
                           !.invalidatedAddrs = Forgotten(@, b)]
            ELSE [s EXCEPT !.list = moved, !.dists = d, !.coldCount = @ + 1]
  <2>1. [s EXCEPT !.list = Accessed(@, b), !.dists = Append(@, DistanceOf(s, b))]
          = [s EXCEPT !.list = moved, !.dists = d]
    BY <1>1 DEF StackRecord, moved, d
  <2> DEFINE a == [s EXCEPT !.list = moved, !.dists = d]
  <2>2. [a EXCEPT !.coldCount = @ + 1]
          = [s EXCEPT !.list = moved, !.dists = d, !.coldCount = @ + 1]
    BY <1>1 DEF StackRecord
  <2>3. [a EXCEPT !.coherenceMisses = @ + 1, !.invalidatedAddrs = Forgotten(@, b)]
          = [s EXCEPT !.list = moved, !.dists = d, !.coherenceMisses = @ + 1,
                      !.invalidatedAddrs = Forgotten(@, b)]
    BY <1>1 DEF StackRecord
  <2> QED
    BY <1>2, <2>1, <2>2, <2>3 DEF AccessBlock, Missing
<1> QED
  BY <1>3, <1>4, <1>5, <1>6, <1>7 DEF r, moved, d

LEMMA AccessBlockEffect ==
  ASSUME NEW s \in Sound, NEW b \in Addr
  PROVE  /\ AccessBlock(s, b) \in Sound
         /\ BlocksOf(AccessBlock(s, b).list) = BlocksOf(s.list) \cup {b}
         /\ Known(s) \subseteq Known(AccessBlock(s, b))
<1> DEFINE r == AccessBlock(s, b)
           moved == Accessed(s.list, b)
           d == Append(s.dists, DistanceOf(s, b))
<1>1. b \in Int \ {Hole} /\ s \in StackRecord /\ Once(s.list)
  BY RecordFields DEF Addr
<1>2. moved \in Seq(Int) /\ d \in Seq(Int) /\ Forgotten(s.invalidatedAddrs, b) \in OneEach
  BY AccessBlockRecord
<1>3. r = IF b \in BlocksOf(s.list) THEN [s EXCEPT !.list = moved, !.dists = d]
          ELSE IF b \in Missing(s)
            THEN [s EXCEPT !.list = moved, !.dists = d, !.coherenceMisses = @ + 1,
                           !.invalidatedAddrs = Forgotten(@, b)]
            ELSE [s EXCEPT !.list = moved, !.dists = d, !.coldCount = @ + 1]
  BY AccessBlockRecord
<1> HIDE DEF moved, d
<1> HIDE DEF r
<1>4. r \in StackRecord
  <2>1. CASE b \in BlocksOf(s.list)
    BY <1>1, <1>2, <1>3, <2>1 DEF StackRecord
  <2>2. CASE b \notin BlocksOf(s.list) /\ b \in Missing(s)
    <3>1. s.coherenceMisses + 1 \in Nat /\ s.prefetchCoherenceMisses + 1 \in Nat
      BY RecordFields
    <3> QED
      BY <1>1, <1>2, <1>3, <2>2, <3>1 DEF StackRecord
  <2>3. CASE b \notin BlocksOf(s.list) /\ b \notin Missing(s)
    <3>1. s.coldCount + 1 \in Nat /\ s.prefetchColdCount + 1 \in Nat
      BY RecordFields
    <3> QED
      BY <1>1, <1>2, <1>3, <2>3, <3>1 DEF StackRecord
  <2> QED
    BY <2>1, <2>2, <2>3
<1>5. /\ r.list = moved /\ r.invalCount = s.invalCount
      /\ b \in BlocksOf(s.list) =>
           /\ r.invalidatedAddrs = s.invalidatedAddrs
           /\ r.coldCount + r.prefetchColdCount = s.coldCount + s.prefetchColdCount
           /\ r.coherenceMisses + r.prefetchCoherenceMisses
                = s.coherenceMisses + s.prefetchCoherenceMisses
  <2>1. CASE b \in BlocksOf(s.list)
    BY <1>1, <1>2, <1>3, <2>1 DEF StackRecord
  <2>2. CASE b \notin BlocksOf(s.list) /\ b \in Missing(s)
    BY <1>1, <1>2, <1>3, <2>2 DEF StackRecord
  <2>3. CASE b \notin BlocksOf(s.list) /\ b \notin Missing(s)
    BY <1>1, <1>2, <1>3, <2>3 DEF StackRecord
  <2> QED
    BY <2>1, <2>2, <2>3
<1>6. b \notin BlocksOf(s.list) /\ b \in Missing(s) =>
           /\ r.invalidatedAddrs = Forgotten(s.invalidatedAddrs, b)
           /\ r.coldCount + r.prefetchColdCount = s.coldCount + s.prefetchColdCount
           /\ r.coherenceMisses + r.prefetchCoherenceMisses
                = s.coherenceMisses + s.prefetchCoherenceMisses + 1
  BY <1>1, <1>3 DEF StackRecord
<1>7. b \notin BlocksOf(s.list) /\ b \notin Missing(s) =>
           /\ r.invalidatedAddrs = s.invalidatedAddrs
           /\ r.coldCount + r.prefetchColdCount = s.coldCount + s.prefetchColdCount + 1
           /\ r.coherenceMisses + r.prefetchCoherenceMisses
                = s.coherenceMisses + s.prefetchCoherenceMisses
  BY <1>1, <1>3 DEF StackRecord
<1>8. r.list = Accessed(s.list, b)
  BY <1>5 DEF moved
<1> QED
  BY <1>5, <1>6, <1>7, <1>8, <1>4, AccessedRecord DEF r

LEMMA PrefetchEffect ==
  ASSUME NEW s \in Sound, NEW b \in Addr
  PROVE  /\ Prefetch(s, b * blockBytes) \in Sound
         /\ BlocksOf(Prefetch(s, b * blockBytes).list) = BlocksOf(s.list) \cup {b}
         /\ Known(s) \subseteq Known(Prefetch(s, b * blockBytes))
<1> DEFINE r == Prefetch(s, b * blockBytes)
           moved == Accessed(s.list, b)
<1>0. (b * blockBytes) \div blockBytes = b
  BY BlockAssumption DEF Addr
<1>1. b \in Int \ {Hole} /\ s \in StackRecord /\ Once(s.list)
  BY RecordFields DEF Addr
<1>2. DepthIn(s.list, b) # NotFound <=> b \in BlocksOf(s.list)
  BY <1>1, DepthValue
<1>3. moved \in Seq(Int)
  BY <1>1, AccessedBlocks DEF Once
<1>6. Forgotten(s.invalidatedAddrs, b) \in OneEach
  <2>1. Forgotten(s.invalidatedAddrs, b) \in [Missing(s) \ {b} -> {1}] /\ Missing(s) \ {b} \subseteq Int
    BY RecordFields DEF Forgotten, Restrict, Missing
  <2> QED
    BY <2>1 DEF OneEach
<1> HIDE DEF moved
<1>7. r = IF b \in BlocksOf(s.list) THEN [s EXCEPT !.list = moved]
          ELSE IF b \in Missing(s)
            THEN [s EXCEPT !.list = moved, !.prefetchCoherenceMisses = @ + 1,
                           !.invalidatedAddrs = Forgotten(@, b)]
            ELSE [s EXCEPT !.list = moved, !.prefetchColdCount = @ + 1]
  <2>1. [s EXCEPT !.list = Accessed(@, b)] = [s EXCEPT !.list = moved]
    BY <1>1 DEF StackRecord, moved
  <2> DEFINE a == [s EXCEPT !.list = moved]
  <2>2. [a EXCEPT !.prefetchColdCount = @ + 1]
          = [s EXCEPT !.list = moved, !.prefetchColdCount = @ + 1]
    BY <1>1 DEF StackRecord
  <2>3. [a EXCEPT !.prefetchCoherenceMisses = @ + 1, !.invalidatedAddrs = Forgotten(@, b)]
          = [s EXCEPT !.list = moved, !.prefetchCoherenceMisses = @ + 1,
                      !.invalidatedAddrs = Forgotten(@, b)]
    BY <1>1 DEF StackRecord
  <2> QED
    BY <1>0, <1>2, <2>1, <2>2, <2>3 DEF Prefetch, Missing
<1> HIDE DEF r
<1>12. r \in StackRecord
  <2>1. CASE b \in BlocksOf(s.list)
    BY <1>1, <1>3, <1>7, <2>1 DEF StackRecord
  <2>2. CASE b \notin BlocksOf(s.list) /\ b \in Missing(s)
    <3>1. s.coherenceMisses + 1 \in Nat /\ s.prefetchCoherenceMisses + 1 \in Nat
      BY RecordFields
    <3> QED
      BY <1>1, <1>3, <1>6, <1>7, <2>2, <3>1 DEF StackRecord
  <2>3. CASE b \notin BlocksOf(s.list) /\ b \notin Missing(s)
    <3>1. s.coldCount + 1 \in Nat /\ s.prefetchColdCount + 1 \in Nat
      BY RecordFields
    <3> QED
      BY <1>1, <1>3, <1>7, <2>3, <3>1 DEF StackRecord
  <2> QED
    BY <2>1, <2>2, <2>3
<1>8. /\ r.list = moved /\ r.invalCount = s.invalCount
      /\ b \in BlocksOf(s.list) =>
           /\ r.invalidatedAddrs = s.invalidatedAddrs
           /\ r.coldCount + r.prefetchColdCount = s.coldCount + s.prefetchColdCount
           /\ r.coherenceMisses + r.prefetchCoherenceMisses
                = s.coherenceMisses + s.prefetchCoherenceMisses
  <2>1. CASE b \in BlocksOf(s.list)
    BY <1>1, <1>3, <1>7, <2>1 DEF StackRecord
  <2>2. CASE b \notin BlocksOf(s.list) /\ b \in Missing(s)
    BY <1>1, <1>3, <1>6, <1>7, <2>2 DEF StackRecord
  <2>3. CASE b \notin BlocksOf(s.list) /\ b \notin Missing(s)
    BY <1>1, <1>3, <1>7, <2>3 DEF StackRecord
  <2> QED
    BY <2>1, <2>2, <2>3
<1>9. b \notin BlocksOf(s.list) /\ b \in Missing(s) =>
           /\ r.invalidatedAddrs = Forgotten(s.invalidatedAddrs, b)
           /\ r.coldCount + r.prefetchColdCount = s.coldCount + s.prefetchColdCount
           /\ r.coherenceMisses + r.prefetchCoherenceMisses
                = s.coherenceMisses + s.prefetchCoherenceMisses + 1
  BY <1>1, <1>7 DEF StackRecord
<1>10. b \notin BlocksOf(s.list) /\ b \notin Missing(s) =>
           /\ r.invalidatedAddrs = s.invalidatedAddrs
           /\ r.coldCount + r.prefetchColdCount = s.coldCount + s.prefetchColdCount + 1
           /\ r.coherenceMisses + r.prefetchCoherenceMisses
                = s.coherenceMisses + s.prefetchCoherenceMisses
  BY <1>1, <1>7 DEF StackRecord
<1>11. r.list = Accessed(s.list, b)
  BY <1>8 DEF moved
<1> QED
  BY <1>8, <1>9, <1>10, <1>11, <1>12, AccessedRecord DEF r

LEMMA SnoopEffect ==
  ASSUME NEW s \in Sound, NEW address \in Int
  PROVE  /\ Snoop(s, address) \in Sound
         /\ BlocksOf(Snoop(s, address).list) = BlocksOf(s.list) \ {address \div blockBytes}
         /\ Known(s) \subseteq Known(Snoop(s, address))
<1> DEFINE r == Snoop(s, address)
           b == address \div blockBytes
           left == Invalidated(s.list, b)
           blocks == BlocksOf(s.list)
           missing == Missing(s)
<1>1. b \in Int
  BY BlockAssumption
<1>2. CASE b \notin blocks
  BY <1>2 DEF Snoop
<1>3. CASE b \in blocks
  <2>1. /\ s \in StackRecord /\ Once(s.list) /\ s.invalidatedAddrs \in [missing -> {1}]
        /\ missing \subseteq Int
        /\ IsFiniteSet(blocks) /\ IsFiniteSet(missing) /\ Accounted(s)
        /\ Cardinality(blocks) \in Nat /\ Cardinality(missing) \in Nat
        /\ missing = DOMAIN s.invalidatedAddrs
    BY RecordFields DEF Missing
  <2>2. Once(left) /\ left \in Seq(Int) /\ BlocksOf(left) = blocks \ {b}
    BY <1>1, <1>3, <2>1, InvalidatedBlocks DEF Once
  <2>3. /\ s.invalCount = s.coherenceMisses + s.prefetchCoherenceMisses + Cardinality(missing)
        /\ s.coldCount + s.prefetchColdCount = Cardinality(blocks) + Cardinality(missing)
        /\ \A x \in missing : x \notin blocks /\ s.invalidatedAddrs[x] = 1
    BY <2>1 DEF Accounted
  <2> DEFINE map == s.invalidatedAddrs (+) SetToBag({b})
  <2>4. map \in [missing \cup {b} -> {1}]
    <3>1. map = [x \in missing \cup {b} |->
                   (IF x \in missing THEN 1 ELSE 0) + (IF x \in {b} THEN 1 ELSE 0)]
      BY <2>1 DEF SetToBag, (+)
    <3>2. b \notin missing
      BY <1>3, <2>3
    <3>3. \A x \in missing \cup {b} :
            (IF x \in missing THEN 1 ELSE 0) + (IF x \in {b} THEN 1 ELSE 0) = 1
      BY <3>2
    <3> HIDE DEF map, missing, b
    <3> QED
      BY <3>1, <3>3
  <2>5. map \in OneEach
    BY <1>1, <2>1, <2>4 DEF OneEach
  <2>6. r = [s EXCEPT !.list = left, !.invalCount = @ + 1, !.invalidatedAddrs = map]
    BY <1>3, <2>1 DEF Snoop, StackRecord
  <2> HIDE DEF r, left, map
  <2>12. r \in StackRecord
    <3>1. s.invalCount + 1 \in Nat
      BY RecordFields
    <3> QED
      BY <2>1, <2>2, <2>5, <2>6, <3>1 DEF StackRecord
  <2>7. /\ r.list = left /\ r.invalCount = s.invalCount + 1
        /\ r.invalidatedAddrs = map
        /\ r.coldCount = s.coldCount /\ r.prefetchColdCount = s.prefetchColdCount
        /\ r.coherenceMisses = s.coherenceMisses
        /\ r.prefetchCoherenceMisses = s.prefetchCoherenceMisses
    BY <2>1, <2>2, <2>5, <2>6 DEF StackRecord
  <2>8. Missing(r) = missing \cup {b}
    BY <2>4, <2>7 DEF Missing
  <2> HIDE DEF b, blocks, missing
  <2>9. /\ IsFiniteSet(blocks \ {b}) /\ Cardinality(blocks \ {b}) = Cardinality(blocks) - 1
        /\ IsFiniteSet(missing \cup {b})
        /\ Cardinality(missing \cup {b}) = Cardinality(missing) + 1
    BY <1>3, <2>1, <2>3, FS_AddElement, FS_RemoveElement
  <2>10. {s.coldCount, s.coherenceMisses, s.prefetchColdCount, s.prefetchCoherenceMisses,
          s.invalCount} \subseteq Nat
    BY RecordFields
  <2>11. Accounted(r)
    <3>1. \A x \in missing \cup {b} : map[x] = 1 /\ x \notin blocks \ {b}
      BY <2>3, <2>4
    <3>2. r.invalCount = r.coherenceMisses + r.prefetchCoherenceMisses + Cardinality(missing \cup {b})
      BY <2>1, <2>3, <2>7, <2>9, <2>10
    <3>3. r.coldCount + r.prefetchColdCount = Cardinality(blocks \ {b}) + Cardinality(missing \cup {b})
      BY <2>1, <2>3, <2>7, <2>9, <2>10
    <3> QED
      BY <2>2, <2>7, <2>8, <3>1, <3>2, <3>3 DEF Accounted
  <2> QED
    BY <2>2, <2>7, <2>8, <2>9, <2>11, <2>12 DEF Sound, Known, r, b, blocks, missing
<1> QED
  BY <1>2, <1>3

-----------------------------------------------------------------------------
(* Accesses of several blocks                                              *)

LEMMA PickMax ==
  ASSUME NEW n \in Nat
  PROVE  IsFiniteSet(1 .. n) /\ \A u \in SUBSET (1 .. n) : u # {} => Max(u) \in u
<1>1. \A u \in SUBSET (1 .. n) : u # {} => Max(u) \in u
  <2> SUFFICES ASSUME NEW u \in SUBSET (1 .. n), u # {} PROVE Max(u) \in u
    OBVIOUS
  <2>1. u \subseteq 0 .. n
    OBVIOUS
  <2> QED
    BY <2>1, GreatestOf
<1>2. 1 \in Int /\ n \in Int
  OBVIOUS
<1> QED
  BY <1>1, <1>2, FS_Interval

\* The loop over the blocks of an access.
LEMMA AccessBlocksFold ==
  ASSUME NEW s \in Sound, NEW blocks \in Seq(Addr)
  PROVE  /\ IsFiniteSet(DOMAIN blocks)
         /\ \E f : /\ f[{}] = [s EXCEPT !.dists = <<>>]
                   /\ \A u \in SUBSET DOMAIN blocks : f[u] \in Sound
                   /\ \A u \in SUBSET DOMAIN blocks : u # {} =>
                        /\ Max(u) \in u
                        /\ f[u] = AccessBlock(f[u \ {Max(u)}], blocks[Max(u)])
                   /\ f[DOMAIN blocks] = AccessBlocks(s, blocks)
<1> DEFINE T == DOMAIN blocks
           base == [s EXCEPT !.dists = <<>>]
           Body(f) == [u \in SUBSET T |->
                         IF u = {} THEN base ELSE AccessBlock(f[u \ {Max(u)}], blocks[Max(u)])]
           iter == CHOOSE f : f = Body(f)
<1>1. base \in Sound /\ base.list = s.list /\ Known(base) = Known(s)
  BY ClearedDists DEF Known, Missing
<1>2. IsFiniteSet(T) /\ \A u \in SUBSET T : u # {} => Max(u) \in u
  <2>1. Len(blocks) \in Nat /\ T = 1 .. Len(blocks)
    OBVIOUS
  <2> QED
    BY <2>1, PickMax
<1>3. \A i \in T : blocks[i] \in Addr
  OBVIOUS
<1>4. AccessBlocks(s, blocks) = iter[T]
  BY DEF AccessBlocks, FoldLeft, MapThenFoldSet
<1> HIDE DEF base, T
<1>5. iter = Body(iter)
  <2> DEFINE step == [x \in T \X Sound |-> AccessBlock(x[2], blocks[x[1]])]
             pick == [u \in SUBSET T |-> Max(u)]
  <2>1. \A x \in T, r \in Sound : step[<<x, r>>] = AccessBlock(r, blocks[x])
    OBVIOUS
  <2>2. \A x \in T, r \in Sound : step[<<x, r>>] \in Sound
    BY <1>3, <2>1, AccessBlockEffect
  <2>3. \A u \in SUBSET T : pick[u] = Max(u)
    OBVIOUS
  <2>4. \A u \in SUBSET T : u # {} => pick[u] \in u
    BY <1>2, <2>3
  <2> HIDE DEF step, pick
  <2>5. PICK f : IsFold(f, T, Sound, base, step, pick)
    <3>1. IsFiniteSet(T)
      BY <1>2
    <3>2. base \in Sound
      BY <1>1
    <3> QED
      BY <2>2, <2>4, <3>1, <3>2, FoldExists
  <2>6. ASSUME NEW u \in SUBSET T
        PROVE  f[u] = IF u = {} THEN base ELSE AccessBlock(f[u \ {Max(u)}], blocks[Max(u)])
    <3>1. CASE u = {}
      BY <2>5, <3>1 DEF IsFold
    <3>2. CASE u # {}
      <4>1. Max(u) \in T /\ u \ {Max(u)} \in SUBSET T
        BY <1>2, <3>2
      <4>2. f[u \ {Max(u)}] \in Sound
        BY <2>5, <4>1 DEF IsFold
      <4>3. f[u] = step[<<Max(u), f[u \ {Max(u)}]>>]
        BY <2>3, <2>5, <3>2 DEF IsFold
      <4> QED
        BY <2>1, <3>2, <4>1, <4>2, <4>3
    <3> QED
      BY <3>1, <3>2
  <2>7. f = Body(f)
    <3>1. f \in [SUBSET T -> Sound]
      BY <2>5 DEF IsFold
    <3> QED
      BY <2>6, <3>1
  <2> HIDE DEF Body
  <2> QED
    BY <2>7
<1> HIDE DEF iter
<1>6. \A u \in SUBSET T :
        iter[u] = IF u = {} THEN base ELSE AccessBlock(iter[u \ {Max(u)}], blocks[Max(u)])
  BY <1>5
<1>7. ASSUME NEW v \in SUBSET T PROVE iter[v] \in Sound
  <2> DEFINE Good == {u \in SUBSET v : iter[u] \in Sound}
  <2>1. {} \in Good
    BY <1>1, <1>6
  <2>2. ASSUME NEW u \in SUBSET v, u # {} PROVE \E x \in u : u \ {x} \in Good => u \in Good
    <3>1. Max(u) \in u /\ Max(u) \in T
      BY <1>2, <2>2
    <3>2. iter[u] = AccessBlock(iter[u \ {Max(u)}], blocks[Max(u)])
      BY <1>6, <2>2
    <3>3. iter[u \ {Max(u)}] \in Sound => iter[u] \in Sound
      BY <1>3, <3>1, <3>2, AccessBlockEffect
    <3> QED
      BY <3>1, <3>3
  <2>3. IsFiniteSet(v)
    BY <1>2, FS_Subset
  <2> HIDE DEF Good
  <2>4. v \in Good
    BY <2>1, <2>2, <2>3, Members
  <2> QED
    BY <2>4 DEF Good
<1>8. /\ iter[{}] = base /\ iter[T] = AccessBlocks(s, blocks)
      /\ \A u \in SUBSET T : u # {} =>
           /\ Max(u) \in u
           /\ iter[u] = AccessBlock(iter[u \ {Max(u)}], blocks[Max(u)])
  BY <1>2, <1>4, <1>6
<1> QED
  BY <1>2, <1>7, <1>8 DEF T, base

LEMMA AccessBlocksEffect ==
  ASSUME NEW s \in Sound, NEW blocks \in Seq(Addr)
  PROVE  /\ AccessBlocks(s, blocks) \in Sound
         /\ BlocksOf(AccessBlocks(s, blocks).list) = BlocksOf(s.list) \cup ToSet(blocks)
         /\ Known(s) \subseteq Known(AccessBlocks(s, blocks))
<1> DEFINE T == DOMAIN blocks
           base == [s EXCEPT !.dists = <<>>]
<1>1. base \in Sound /\ base.list = s.list /\ Known(base) = Known(s)
  BY ClearedDists DEF Known, Missing
<1>3. \A i \in T : blocks[i] \in Addr
  OBVIOUS
<1> HIDE DEF base
<1>5. PICK iter : /\ iter[{}] = base
                  /\ \A u \in SUBSET T : iter[u] \in Sound
                  /\ \A u \in SUBSET T : u # {} =>
                       /\ Max(u) \in u
                       /\ iter[u] = AccessBlock(iter[u \ {Max(u)}], blocks[Max(u)])
                  /\ iter[T] = AccessBlocks(s, blocks)
  BY AccessBlocksFold DEF base
<1>6. IsFiniteSet(T)
  BY AccessBlocksFold
<1> HIDE DEF T
<1> DEFINE Good == {u \in SUBSET T : /\ iter[u] \in Sound
                                     /\ BlocksOf(iter[u].list)
                                          = BlocksOf(s.list) \cup {blocks[i] : i \in u}
                                     /\ Known(s) \subseteq Known(iter[u])}
<1>7. {} \in Good
  <2>1. iter[{}] = base
    BY <1>5
  <2> QED
    BY <1>1, <2>1
<1>8. ASSUME NEW u \in SUBSET T, u # {}
      PROVE  \E x \in u : u \ {x} \in Good => u \in Good
  <2> DEFINE m == Max(u)
  <2>1. m \in u
    BY <1>5, <1>8
  <2>2. ASSUME u \ {m} \in Good PROVE u \in Good
    <3>1. /\ iter[u \ {m}] \in Sound
          /\ BlocksOf(iter[u \ {m}].list) = BlocksOf(s.list) \cup {blocks[i] : i \in u \ {m}}
          /\ Known(s) \subseteq Known(iter[u \ {m}])
      BY <2>2
    <3>2. iter[u] = AccessBlock(iter[u \ {m}], blocks[m])
      BY <1>5, <1>8
    <3>3. blocks[m] \in Addr
      BY <1>3, <2>1
    <3> HIDE DEF m
    <3>4. /\ iter[u] \in Sound
          /\ BlocksOf(iter[u].list) = BlocksOf(iter[u \ {m}].list) \cup {blocks[m]}
          /\ Known(iter[u \ {m}]) \subseteq Known(iter[u])
      <4>1. \A r \in Sound, b \in Addr :
              /\ AccessBlock(r, b) \in Sound
              /\ BlocksOf(AccessBlock(r, b).list) = BlocksOf(r.list) \cup {b}
              /\ Known(r) \subseteq Known(AccessBlock(r, b))
        BY AccessBlockEffect
      <4>2. /\ AccessBlock(iter[u \ {m}], blocks[m]) \in Sound
            /\ BlocksOf(AccessBlock(iter[u \ {m}], blocks[m]).list)
                 = BlocksOf(iter[u \ {m}].list) \cup {blocks[m]}
            /\ Known(iter[u \ {m}]) \subseteq Known(AccessBlock(iter[u \ {m}], blocks[m]))
        BY <3>1, <3>3, <4>1, Zenon
      <4> QED
        BY <3>2, <4>2
    <3>5. {blocks[i] : i \in u \ {m}} \cup {blocks[m]} = {blocks[i] : i \in u}
      BY <2>1
    <3>6. BlocksOf(iter[u].list) = BlocksOf(s.list) \cup {blocks[i] : i \in u}
      BY <3>1, <3>4, <3>5
    <3> QED
      BY <3>1, <3>4, <3>6
  <2> HIDE DEF Good, m
  <2> QED
    BY <2>1, <2>2
<1>9. T \in Good
  <2> HIDE DEF Good
  <2> QED
    BY <1>6, <1>7, <1>8, Members
<1>10. ToSet(blocks) = {blocks[i] : i \in T}
  BY DEF ToSet, T
<1> QED
  BY <1>5, <1>9, <1>10

\* Where a sequence has this value, among some of its places.
Places(q, u, value) == {i \in u : q[i] = value}
NumberIn(q, u, value) == Cardinality(Places(q, u, value))
NumberOf(q, value) == NumberIn(q, DOMAIN q, value)

Agrees(x, value) == IF x = value THEN 1 ELSE 0

LEMMA NumberType ==
  ASSUME NEW u, IsFiniteSet(u), NEW q, NEW value
  PROVE  /\ IsFiniteSet(Places(q, u, value)) /\ Places(q, u, value) \subseteq u
         /\ NumberIn(q, u, value) \in Nat
<1>1. Places(q, u, value) \in SUBSET u
  BY DEF Places
<1>2. IsFiniteSet(Places(q, u, value))
  BY <1>1, FS_Subset
<1> QED
  BY <1>1, <1>2, FS_CardinalityType DEF NumberIn

LEMMA NumberWith ==
  ASSUME NEW u, IsFiniteSet(u), NEW m, m \notin u, NEW q, NEW p, NEW value,
         Places(p, u, value) = Places(q, u, value)
  PROVE  NumberIn(p, u \cup {m}, value) = NumberIn(q, u, value) + Agrees(p[m], value)
<1>1. IsFiniteSet(Places(q, u, value)) /\ m \notin Places(q, u, value)
  BY NumberType
<1>2. Cardinality(Places(q, u, value)) \in Nat
  BY <1>1, FS_CardinalityType
<1>3. CASE p[m] = value
  <2>1. Places(p, u \cup {m}, value) = Places(q, u, value) \cup {m}
    BY <1>3 DEF Places
  <2>2. Cardinality(Places(q, u, value) \cup {m}) = Cardinality(Places(q, u, value)) + 1
    BY <1>1, FS_AddElement
  <2> QED
    BY <1>2, <1>3, <2>1, <2>2 DEF NumberIn, Agrees
<1>4. CASE p[m] # value
  <2>1. Places(p, u \cup {m}, value) = Places(q, u, value)
    BY <1>4 DEF Places
  <2> QED
    BY <1>2, <1>4, <2>1 DEF NumberIn, Agrees
<1> QED
  BY <1>3, <1>4

LEMMA NumberAppended ==
  ASSUME NEW q \in Seq(Int), NEW x \in Int, NEW value
  PROVE  /\ NumberOf(q, value) \in Nat
         /\ NumberOf(Append(q, x), value) = NumberOf(q, value) + Agrees(x, value)
<1> DEFINE p == Append(q, x)
           m == Len(q) + 1
           u == DOMAIN q
<1>1. /\ Len(q) \in Nat /\ u = 1 .. Len(q) /\ DOMAIN p = u \cup {m} /\ m \notin u
      /\ \A i \in u : p[i] = q[i]
      /\ p[m] = x
  OBVIOUS
<1>2. IsFiniteSet(u)
  BY <1>1, PickMax
<1> HIDE DEF p, m, u
<1>3. Places(p, u, value) = Places(q, u, value)
  BY <1>1 DEF Places
<1>4. /\ NumberIn(q, u, value) \in Nat
      /\ NumberIn(p, u \cup {m}, value) = NumberIn(q, u, value) + Agrees(p[m], value)
  <2>1. m \notin u
    BY <1>1
  <2>2. NumberIn(q, u, value) \in Nat
    BY <1>2, NumberType
  <2>3. NumberIn(p, u \cup {m}, value) = NumberIn(q, u, value) + Agrees(p[m], value)
    BY <1>2, <1>3, <2>1, NumberWith, SMTT(30)
  <2> QED
    BY <2>2, <2>3
<1> QED
  BY <1>1, <1>4 DEF NumberOf, p, u

LEMMA NumberInNothing == \A q, value : NumberIn(q, {}, value) = 0
<1>1. \A q, value : Places(q, {}, value) = {}
  BY DEF Places
<1> QED
  BY <1>1, FS_EmptySet DEF NumberIn

\* The misses that a stack counts are those among the distances it returns.
LEMMA AccessBlockCounts ==
  ASSUME NEW s \in Sound, NEW b \in Addr
  PROVE  LET r == AccessBlock(s, b)
             d == DistanceOf(s, b)
         IN
         /\ r.dists = Append(s.dists, d) /\ d \in Int
         /\ r.coldCount = s.coldCount + Agrees(d, kColdMiss)
         /\ r.coherenceMisses = s.coherenceMisses + Agrees(d, kInvalidationMiss)
<1> DEFINE r == AccessBlock(s, b)
           moved == Accessed(s.list, b)
           d == DistanceOf(s, b)
           dists == Append(s.dists, d)
<1>1. b \in Int \ {Hole} /\ s \in StackRecord /\ Once(s.list)
      /\ s.coldCount \in Nat /\ s.coherenceMisses \in Nat
  BY RecordFields DEF Addr
<1>2. d \in Int /\ moved \in Seq(Int) /\ dists \in Seq(Int)
  BY AccessBlockRecord
<1>3. r = IF b \in BlocksOf(s.list) THEN [s EXCEPT !.list = moved, !.dists = dists]
          ELSE IF b \in Missing(s)
            THEN [s EXCEPT !.list = moved, !.dists = dists, !.coherenceMisses = @ + 1,
                           !.invalidatedAddrs = Forgotten(@, b)]
            ELSE [s EXCEPT !.list = moved, !.dists = dists, !.coldCount = @ + 1]
  BY AccessBlockRecord
<1>4. d = IF b \in BlocksOf(s.list) THEN DepthIn(s.list, b)
          ELSE IF b \in Missing(s) THEN kInvalidationMiss ELSE kColdMiss
  BY DEF DistanceOf, Missing
<1>5. b \in BlocksOf(s.list) => d # kColdMiss /\ d # kInvalidationMiss
  <2>1. b \in BlocksOf(s.list) => DepthIn(s.list, b) + 1 \in DOMAIN s.list /\ DepthIn(s.list, b) \in Int
    BY <1>1, <1>2, <1>4, DepthValue
  <2>2. DOMAIN s.list = 1 .. Len(s.list) /\ Len(s.list) \in Nat
    BY <1>1 DEF Once
  <2>3. b \in BlocksOf(s.list) => DepthIn(s.list, b) >= 0
    BY <2>1, <2>2
  <2> QED
    BY <1>4, <2>1, <2>3 DEF kColdMiss, NotFound, kInvalidationMiss
<1>6. kColdMiss # kInvalidationMiss
  BY DEF kColdMiss, NotFound, kInvalidationMiss
<1> HIDE DEF moved, dists, d, r
<1>7. CASE b \in BlocksOf(s.list)
  <2>1. r.dists = dists /\ r.coldCount = s.coldCount /\ r.coherenceMisses = s.coherenceMisses
    BY <1>1, <1>3, <1>7 DEF StackRecord
  <2> QED
    BY <1>1, <1>2, <1>5, <1>7, <2>1 DEF r, d, dists, Agrees
<1>8. CASE b \notin BlocksOf(s.list) /\ b \in Missing(s)
  <2>1. /\ r.dists = dists /\ r.coldCount = s.coldCount
        /\ r.coherenceMisses = s.coherenceMisses + 1
    BY <1>1, <1>3, <1>8 DEF StackRecord
  <2> QED
    BY <1>1, <1>2, <1>4, <1>6, <1>8, <2>1 DEF r, d, dists, Agrees
<1>9. CASE b \notin BlocksOf(s.list) /\ b \notin Missing(s)
  <2>1. /\ r.dists = dists /\ r.coldCount = s.coldCount + 1
        /\ r.coherenceMisses = s.coherenceMisses
    BY <1>1, <1>3, <1>9 DEF StackRecord
  <2> QED
    BY <1>1, <1>2, <1>4, <1>6, <1>9, <2>1 DEF r, d, dists, Agrees
<1> QED
  BY <1>7, <1>8, <1>9

\* With the misses among these distances.
Counts(s, r, dists) ==
  /\ r.coldCount = s.coldCount + NumberOf(dists, kColdMiss)
  /\ r.coherenceMisses = s.coherenceMisses + NumberOf(dists, kInvalidationMiss)

LEMMA AccessBlocksCounts ==
  ASSUME NEW s \in Sound, NEW blocks \in Seq(Addr)
  PROVE  LET r == AccessBlocks(s, blocks) IN Counts(s, r, r.dists)
<1> DEFINE T == DOMAIN blocks
           base == [s EXCEPT !.dists = <<>>]
<1>1. base \in Sound /\ Counts(s, base, base.dists)
  <2>1. s \in StackRecord /\ s.coldCount \in Nat /\ s.coherenceMisses \in Nat /\ base \in Sound
    BY RecordFields, ClearedDists
  <2>2. /\ base.coldCount = s.coldCount /\ base.coherenceMisses = s.coherenceMisses
        /\ base.dists = <<>>
    BY <2>1 DEF StackRecord
  <2>3. DOMAIN <<>> = {}
    OBVIOUS
  <2>4. \A value : NumberOf(<<>>, value) = 0
    BY <2>3, NumberInNothing DEF NumberOf
  <2> HIDE DEF base
  <2> QED
    BY <2>1, <2>2, <2>4 DEF Counts
<1>2. \A i \in T : blocks[i] \in Addr
  OBVIOUS
<1> HIDE DEF base
<1>3. PICK iter : /\ iter[{}] = base
                  /\ \A u \in SUBSET T : iter[u] \in Sound
                  /\ \A u \in SUBSET T : u # {} =>
                       /\ Max(u) \in u
                       /\ iter[u] = AccessBlock(iter[u \ {Max(u)}], blocks[Max(u)])
                  /\ iter[T] = AccessBlocks(s, blocks)
  BY AccessBlocksFold DEF base
<1>4. IsFiniteSet(T)
  BY AccessBlocksFold
<1> HIDE DEF T
<1> DEFINE Good == {u \in SUBSET T : Counts(s, iter[u], iter[u].dists)}
<1>5. {} \in Good
  BY <1>1, <1>3
<1>6. ASSUME NEW u \in SUBSET T, u # {} PROVE \E x \in u : u \ {x} \in Good => u \in Good
  <2> DEFINE m == Max(u)
             old == iter[u \ {m}]
             r == iter[u]
             b == blocks[m]
  <2>1. m \in u /\ r = AccessBlock(old, b) /\ old \in Sound /\ b \in Addr
    BY <1>2, <1>3, <1>6
  <2>2. ASSUME Counts(s, old, old.dists) PROVE Counts(s, r, r.dists)
    <3> DEFINE d == DistanceOf(old, b)
    <3> HIDE DEF m, old, r, b
    <3>1. /\ r.dists = Append(old.dists, d) /\ d \in Int
          /\ r.coldCount = old.coldCount + Agrees(d, kColdMiss)
          /\ r.coherenceMisses = old.coherenceMisses + Agrees(d, kInvalidationMiss)
      BY <2>1, AccessBlockCounts
    <3> HIDE DEF d
    <3>2. old.dists \in Seq(Int)
      BY <2>1, RecordFields
    <3>3. \A value : /\ NumberOf(old.dists, value) \in Nat
                     /\ NumberOf(r.dists, value)
                          = NumberOf(old.dists, value) + Agrees(d, value)
      BY <3>1, <3>2, NumberAppended
    <3>4. s.coldCount \in Nat /\ s.coherenceMisses \in Nat
      BY RecordFields
    <3>5. r.coldCount = s.coldCount + NumberOf(r.dists, kColdMiss)
      <4>1. old.coldCount = s.coldCount + NumberOf(old.dists, kColdMiss)
        BY <2>2 DEF Counts
      <4> QED
        BY <3>1, <3>3, <3>4, <4>1 DEF Agrees
    <3>6. r.coherenceMisses = s.coherenceMisses + NumberOf(r.dists, kInvalidationMiss)
      <4>1. old.coherenceMisses = s.coherenceMisses + NumberOf(old.dists, kInvalidationMiss)
        BY <2>2 DEF Counts
      <4> QED
        BY <3>1, <3>3, <3>4, <4>1 DEF Agrees
    <3> QED
      BY <3>5, <3>6 DEF Counts
  <2> QED
    BY <2>1, <2>2
<1> HIDE DEF Good
<1>7. T \in Good
  BY <1>4, <1>5, <1>6, Members
<1> QED
  BY <1>3, <1>7 DEF Good

\* Neither a prefetch nor an invalidation counts for them.
LEMMA OthersCountNothing ==
  ASSUME NEW s \in Sound, NEW address \in Int, NEW r \in {Prefetch(s, address), Snoop(s, address)}
  PROVE  r.coldCount = s.coldCount /\ r.coherenceMisses = s.coherenceMisses /\ r.dists = s.dists
<1>1. s \in StackRecord
  BY RecordFields
<1>2. CASE r = Prefetch(s, address)
  BY <1>1, <1>2 DEF Prefetch, StackRecord
<1>3. CASE r = Snoop(s, address)
  BY <1>1, <1>3 DEF Snoop, StackRecord
<1> QED
  BY <1>2, <1>3

LEMMA AccessBlocksOf ==
  ASSUME NEW address \in Nat, NEW size \in Nat
  PROVE  /\ BlocksOfAccess(address, size) \in Seq(Nat)
         /\ address \div blockBytes \in ToSet(BlocksOfAccess(address, size))
<1> DEFINE n == (size + blockBytes - 1) \div blockBytes
           m == Max({1, n})
<1>1. n \in Nat
  BY BlockAssumption
<1> HIDE DEF n
<1>2. m \in Nat /\ 1 <= m
  <2>1. {1, n} \subseteq 0 .. n + 1 /\ n + 1 \in Nat
    BY <1>1
  <2>2. m \in {1, n} /\ \A k \in {1, n} : k <= m
    BY <2>1, GreatestOf
  <2> QED
    BY <1>1, <2>2
<1>3. BlocksOfAccess(address, size)
        = [k \in 1 .. m |-> (address + (k - 1) * blockBytes) \div blockBytes]
  BY DEF BlocksOfAccess, n
<1> HIDE DEF m
<1>4. \A k \in 1 .. m : (address + (k - 1) * blockBytes) \div blockBytes \in Nat
  <2> SUFFICES ASSUME NEW k \in 1 .. m
               PROVE  (address + (k - 1) * blockBytes) \div blockBytes \in Nat
    OBVIOUS
  <2>1. (k - 1) * blockBytes \in Nat
    BY <1>2, BlockAssumption
  <2>2. address + (k - 1) * blockBytes \in Nat
    BY <2>1
  <2> QED
    BY <2>2, BlockAssumption
<1>5. (address + (1 - 1) * blockBytes) \div blockBytes = address \div blockBytes
  <2>1. (1 - 1) * blockBytes = 0
    BY BlockAssumption
  <2>2. address + (1 - 1) * blockBytes = address
    BY <2>1
  <2> QED
    BY <2>2
<1>6. BlocksOfAccess(address, size) \in Seq(Nat)
  BY <1>2, <1>3, <1>4
<1>7. 1 \in 1 .. m
  BY <1>2
<1> QED
  BY <1>3, <1>5, <1>6, <1>7 DEF ToSet

\* The blocks of an access.
Touches(a) == ToSet(BlocksOfAccess(a.address, a.size))

LEMMA AccessStackEffect ==
  ASSUME NEW s \in Sound, NEW address \in Nat, NEW size \in Nat
  PROVE  /\ AccessStack(s, address, size) \in Sound
         /\ BlocksOf(AccessStack(s, address, size).list)
              = BlocksOf(s.list) \cup ToSet(BlocksOfAccess(address, size))
         /\ Known(s) \subseteq Known(AccessStack(s, address, size))
<1>1. BlocksOfAccess(address, size) \in Seq(Addr)
  <2>1. Nat \subseteq Addr
    BY DEF Addr, Hole
  <2>2. BlocksOfAccess(address, size) \in Seq(Nat)
    BY AccessBlocksOf
  <2> QED
    BY <2>1, <2>2
<1> QED
  BY <1>1, AccessBlocksEffect DEF AccessStack

-----------------------------------------------------------------------------
(* The end of a region                                                     *)

Ref == [address : Nat, size : Nat, is_write : BOOLEAN]

\* What the buffered writes take from other threads, and what the buffered accesses touch.
WritesIn(refs) == {refs[i].address \div blockBytes : i \in {j \in DOMAIN refs : refs[j].is_write}}
TouchesIn(refs) == UNION {Touches(refs[i]) : i \in DOMAIN refs}

LEMMA ReplayOtherEffect ==
  ASSUME NEW s \in Sound, NEW ref \in Ref
  PROVE  /\ ReplayOther(s, ref) \in Sound
         /\ BlocksOf(ReplayOther(s, ref).list)
              = BlocksOf(s.list) \ (IF ref.is_write THEN {ref.address \div blockBytes} ELSE {})
<1>1. ref.address \in Int
  BY DEF Ref
<1>2. CASE ref.is_write
  BY <1>1, <1>2, SnoopEffect DEF ReplayOther
<1>3. CASE ~ref.is_write
  BY <1>3 DEF ReplayOther
<1> QED
  BY <1>2, <1>3

LEMMA ReplayOwnEffect ==
  ASSUME NEW s \in Sound, NEW ref \in Ref
  PROVE  /\ ReplayOwn(s, ref) \in Sound
         /\ BlocksOf(ReplayOwn(s, ref).list) = BlocksOf(s.list) \cup Touches(ref)
<1>1. ref.address \in Nat /\ ref.size \in Nat
  BY DEF Ref
<1> QED
  BY <1>1, AccessStackEffect DEF ReplayOwn, Touches

\* Accesses of another thread, one after the other.
LEMMA ReplayOthersEffect ==
  ASSUME NEW s \in Sound, NEW refs \in Seq(Ref)
  PROVE  /\ FoldLeft(ReplayOther, s, refs) \in Sound
         /\ BlocksOf(FoldLeft(ReplayOther, s, refs).list) = BlocksOf(s.list) \ WritesIn(refs)
<1> DEFINE T == DOMAIN refs
           Body(f) == [u \in SUBSET T |-> IF u = {} THEN s ELSE ReplayOther(f[u \ {Max(u)}], refs[Max(u)])]
           iter == CHOOSE f : f = Body(f)
<1>1. IsFiniteSet(T) /\ \A u \in SUBSET T : u # {} => Max(u) \in u
  <2>1. Len(refs) \in Nat /\ T = 1 .. Len(refs)
    OBVIOUS
  <2> QED
    BY <2>1, PickMax
<1>2. \A x \in T : refs[x] \in Ref
  OBVIOUS
<1>3. FoldLeft(ReplayOther, s, refs) = iter[T]
  BY DEF FoldLeft, MapThenFoldSet
<1>4. \A x \in T, r \in Sound :
        /\ ReplayOther(r, refs[x]) \in Sound
        /\ BlocksOf(ReplayOther(r, refs[x]).list) = BlocksOf(r.list) \ (IF refs[x].is_write THEN {refs[x].address \div blockBytes} ELSE {})
  BY <1>2, ReplayOtherEffect
<1> HIDE DEF T
<1>5. iter = Body(iter)
  <2> DEFINE step == [y \in T \X Sound |-> ReplayOther(y[2], refs[y[1]])]
             pick == [u \in SUBSET T |-> Max(u)]
  <2>1. \A x \in T, r \in Sound : step[<<x, r>>] = ReplayOther(r, refs[x])
    OBVIOUS
  <2>2. \A x \in T, r \in Sound : step[<<x, r>>] \in Sound
    BY <1>4, <2>1
  <2>3. \A u \in SUBSET T : pick[u] = Max(u)
    OBVIOUS
  <2>4. \A u \in SUBSET T : u # {} => pick[u] \in u
    BY <1>1, <2>3
  <2> HIDE DEF step, pick
  <2>5. PICK f : IsFold(f, T, Sound, s, step, pick)
    BY <1>1, <2>2, <2>4, FoldExists
  <2>6. ASSUME NEW u \in SUBSET T PROVE f[u] = IF u = {} THEN s ELSE ReplayOther(f[u \ {Max(u)}], refs[Max(u)])
    <3>1. CASE u = {}
      BY <2>5, <3>1 DEF IsFold
    <3>2. CASE u # {}
      <4> DEFINE m == Max(u)
      <4>1. m \in T /\ u \ {m} \in SUBSET T
        BY <1>1, <3>2
      <4>2. f[u \ {m}] \in Sound
        BY <2>5, <4>1 DEF IsFold
      <4>3. f[u] = step[<<m, f[u \ {m}]>>]
        BY <2>3, <2>5, <3>2 DEF IsFold
      <4> QED
        BY <2>1, <3>2, <4>1, <4>2, <4>3
    <3> QED
      BY <3>1, <3>2
  <2>7. f = Body(f)
    <3>1. f \in [SUBSET T -> Sound]
      BY <2>5 DEF IsFold
    <3> QED
      BY <2>6, <3>1
  <2> HIDE DEF Body
  <2> QED
    BY <2>7
<1> HIDE DEF iter
<1>6. \A u \in SUBSET T : iter[u] = IF u = {} THEN s ELSE ReplayOther(iter[u \ {Max(u)}], refs[Max(u)])
  BY <1>5
<1> DEFINE Good == {u \in SUBSET T : /\ iter[u] \in Sound
                                     /\ BlocksOf(iter[u].list) = BlocksOf(s.list) \ {refs[i].address \div blockBytes : i \in {j \in u : refs[j].is_write}}}
<1>7. {} \in Good
  BY <1>6
<1>8. ASSUME NEW u \in SUBSET T, u # {}
      PROVE  \E x \in u : u \ {x} \in Good => u \in Good
  <2> DEFINE m == Max(u)
  <2>1. m \in u
    BY <1>1, <1>8
  <2>2. iter[u] = ReplayOther(iter[u \ {m}], refs[m])
    BY <1>6, <1>8
  <2> HIDE DEF m
  <2>3. ASSUME u \ {m} \in Good PROVE u \in Good
    <3>1. iter[u \ {m}] \in Sound /\ BlocksOf(iter[u \ {m}].list) = BlocksOf(s.list) \ {refs[i].address \div blockBytes : i \in {j \in (u \ {m}) : refs[j].is_write}}
      BY <2>3
    <3>2. iter[u] \in Sound /\ BlocksOf(iter[u].list) = BlocksOf(iter[u \ {m}].list) \ (IF refs[m].is_write THEN {refs[m].address \div blockBytes} ELSE {})
      <4>1. m \in T
        BY <2>1
      <4>2. ReplayOther(iter[u \ {m}], refs[m]) \in Sound /\ BlocksOf(ReplayOther(iter[u \ {m}], refs[m]).list) = BlocksOf(iter[u \ {m}].list) \ (IF refs[m].is_write THEN {refs[m].address \div blockBytes} ELSE {})
        BY <1>4, <3>1, <4>1, Zenon
      <4> QED
        BY <2>2, <4>2
    <3>3. BlocksOf(iter[u].list) = BlocksOf(s.list) \ {refs[i].address \div blockBytes : i \in {j \in u : refs[j].is_write}}
      BY <2>1, <3>1, <3>2
    <3> QED
      BY <3>2, <3>3
  <2> HIDE DEF Good
  <2> QED
    BY <2>1, <2>3
<1>9. T \in Good
  <2> HIDE DEF Good
  <2> QED
    BY <1>1, <1>7, <1>8, Members
<1> QED
  BY <1>3, <1>9 DEF WritesIn, T

\* Accesses of the thread itself.
LEMMA ReplayOwnsEffect ==
  ASSUME NEW s \in Sound, NEW refs \in Seq(Ref)
  PROVE  /\ FoldLeft(ReplayOwn, s, refs) \in Sound
         /\ BlocksOf(FoldLeft(ReplayOwn, s, refs).list) = BlocksOf(s.list) \cup TouchesIn(refs)
<1> DEFINE T == DOMAIN refs
           Body(f) == [u \in SUBSET T |-> IF u = {} THEN s ELSE ReplayOwn(f[u \ {Max(u)}], refs[Max(u)])]
           iter == CHOOSE f : f = Body(f)
<1>1. IsFiniteSet(T) /\ \A u \in SUBSET T : u # {} => Max(u) \in u
  <2>1. Len(refs) \in Nat /\ T = 1 .. Len(refs)
    OBVIOUS
  <2> QED
    BY <2>1, PickMax
<1>2. \A x \in T : refs[x] \in Ref
  OBVIOUS
<1>3. FoldLeft(ReplayOwn, s, refs) = iter[T]
  BY DEF FoldLeft, MapThenFoldSet
<1>4. \A x \in T, r \in Sound :
        /\ ReplayOwn(r, refs[x]) \in Sound
        /\ BlocksOf(ReplayOwn(r, refs[x]).list) = BlocksOf(r.list) \cup Touches(refs[x])
  BY <1>2, ReplayOwnEffect
<1> HIDE DEF T
<1>5. iter = Body(iter)
  <2> DEFINE step == [y \in T \X Sound |-> ReplayOwn(y[2], refs[y[1]])]
             pick == [u \in SUBSET T |-> Max(u)]
  <2>1. \A x \in T, r \in Sound : step[<<x, r>>] = ReplayOwn(r, refs[x])
    OBVIOUS
  <2>2. \A x \in T, r \in Sound : step[<<x, r>>] \in Sound
    BY <1>4, <2>1
  <2>3. \A u \in SUBSET T : pick[u] = Max(u)
    OBVIOUS
  <2>4. \A u \in SUBSET T : u # {} => pick[u] \in u
    BY <1>1, <2>3
  <2> HIDE DEF step, pick
  <2>5. PICK f : IsFold(f, T, Sound, s, step, pick)
    BY <1>1, <2>2, <2>4, FoldExists
  <2>6. ASSUME NEW u \in SUBSET T PROVE f[u] = IF u = {} THEN s ELSE ReplayOwn(f[u \ {Max(u)}], refs[Max(u)])
    <3>1. CASE u = {}
      BY <2>5, <3>1 DEF IsFold
    <3>2. CASE u # {}
      <4> DEFINE m == Max(u)
      <4>1. m \in T /\ u \ {m} \in SUBSET T
        BY <1>1, <3>2
      <4>2. f[u \ {m}] \in Sound
        BY <2>5, <4>1 DEF IsFold
      <4>3. f[u] = step[<<m, f[u \ {m}]>>]
        BY <2>3, <2>5, <3>2 DEF IsFold
      <4> QED
        BY <2>1, <3>2, <4>1, <4>2, <4>3
    <3> QED
      BY <3>1, <3>2
  <2>7. f = Body(f)
    <3>1. f \in [SUBSET T -> Sound]
      BY <2>5 DEF IsFold
    <3> QED
      BY <2>6, <3>1
  <2> HIDE DEF Body
  <2> QED
    BY <2>7
<1> HIDE DEF iter
<1>6. \A u \in SUBSET T : iter[u] = IF u = {} THEN s ELSE ReplayOwn(iter[u \ {Max(u)}], refs[Max(u)])
  BY <1>5
<1> DEFINE Good == {u \in SUBSET T : /\ iter[u] \in Sound
                                     /\ BlocksOf(iter[u].list) = BlocksOf(s.list) \cup UNION {Touches(refs[i]) : i \in u}}
<1>7. {} \in Good
  BY <1>6
<1>8. ASSUME NEW u \in SUBSET T, u # {}
      PROVE  \E x \in u : u \ {x} \in Good => u \in Good
  <2> DEFINE m == Max(u)
  <2>1. m \in u
    BY <1>1, <1>8
  <2>2. iter[u] = ReplayOwn(iter[u \ {m}], refs[m])
    BY <1>6, <1>8
  <2> HIDE DEF m
  <2>3. ASSUME u \ {m} \in Good PROVE u \in Good
    <3>1. iter[u \ {m}] \in Sound /\ BlocksOf(iter[u \ {m}].list) = BlocksOf(s.list) \cup UNION {Touches(refs[i]) : i \in (u \ {m})}
      BY <2>3
    <3>2. iter[u] \in Sound /\ BlocksOf(iter[u].list) = BlocksOf(iter[u \ {m}].list) \cup Touches(refs[m])
      <4>1. m \in T
        BY <2>1
      <4>2. ReplayOwn(iter[u \ {m}], refs[m]) \in Sound /\ BlocksOf(ReplayOwn(iter[u \ {m}], refs[m]).list) = BlocksOf(iter[u \ {m}].list) \cup Touches(refs[m])
        BY <1>4, <3>1, <4>1, Zenon
      <4> QED
        BY <2>2, <4>2
    <3>3. BlocksOf(iter[u].list) = BlocksOf(s.list) \cup UNION {Touches(refs[i]) : i \in u}
      BY <2>1, <3>1, <3>2
    <3> QED
      BY <3>2, <3>3
  <2> HIDE DEF Good
  <2> QED
    BY <2>1, <2>3
<1>9. T \in Good
  <2> HIDE DEF Good
  <2> QED
    BY <1>1, <1>7, <1>8, Members
<1> QED
  BY <1>3, <1>9 DEF TouchesIn, T

\* The writes of all other threads, in any order.
LEMMA AfterOthersEffect ==
  ASSUME NEW s \in Sound, NEW t, IsFiniteSet(threads_seen_),
         \A u \in threads_seen_ : buffered_accesses_[u] \in Seq(Ref)
  PROVE  /\ AfterOthersWrites(s, t) \in Sound
         /\ BlocksOf(AfterOthersWrites(s, t).list) = BlocksOf(s.list) \ UNION {WritesIn(buffered_accesses_[u]) : u \in threads_seen_ \ {t}}
<1> DEFINE T == threads_seen_ \ {t}
           Body(f) == [u \in SUBSET T |-> IF u = {} THEN s ELSE AfterWritesOf((CHOOSE x \in u : TRUE), f[u \ {(CHOOSE x \in u : TRUE)}])]
           iter == CHOOSE f : f = Body(f)
<1>1. IsFiniteSet(T) /\ \A u \in SUBSET T : u # {} => (CHOOSE x \in u : TRUE) \in u
  <2>1. IsFiniteSet(T)
    BY FS_Subset
  <2> QED
    BY <2>1
<1>2. \A x \in T : buffered_accesses_[x] \in Seq(Ref)
  OBVIOUS
<1>3. AfterOthersWrites(s, t) = iter[T]
  BY DEF AfterOthersWrites, FoldSet, MapThenFoldSet
<1>4. \A x \in T, r \in Sound :
        /\ AfterWritesOf(x, r) \in Sound
        /\ BlocksOf(AfterWritesOf(x, r).list) = BlocksOf(r.list) \ WritesIn(buffered_accesses_[x])
  BY <1>2, ReplayOthersEffect DEF AfterWritesOf
<1> HIDE DEF T
<1>5. iter = Body(iter)
  <2> DEFINE step == [y \in T \X Sound |-> AfterWritesOf(y[1], y[2])]
             pick == [u \in SUBSET T |-> (CHOOSE x \in u : TRUE)]
  <2>1. \A x \in T, r \in Sound : step[<<x, r>>] = AfterWritesOf(x, r)
    OBVIOUS
  <2>2. \A x \in T, r \in Sound : step[<<x, r>>] \in Sound
    BY <1>4, <2>1
  <2>3. \A u \in SUBSET T : pick[u] = (CHOOSE x \in u : TRUE)
    OBVIOUS
  <2>4. \A u \in SUBSET T : u # {} => pick[u] \in u
    BY <1>1, <2>3
  <2> HIDE DEF step, pick
  <2>5. PICK f : IsFold(f, T, Sound, s, step, pick)
    BY <1>1, <2>2, <2>4, FoldExists
  <2>6. ASSUME NEW u \in SUBSET T PROVE f[u] = IF u = {} THEN s ELSE AfterWritesOf((CHOOSE x \in u : TRUE), f[u \ {(CHOOSE x \in u : TRUE)}])
    <3>1. CASE u = {}
      BY <2>5, <3>1 DEF IsFold
    <3>2. CASE u # {}
      <4> DEFINE m == (CHOOSE x \in u : TRUE)
      <4>1. m \in T /\ u \ {m} \in SUBSET T
        BY <1>1, <3>2
      <4>2. f[u \ {m}] \in Sound
        BY <2>5, <4>1 DEF IsFold
      <4>3. f[u] = step[<<m, f[u \ {m}]>>]
        BY <2>3, <2>5, <3>2 DEF IsFold
      <4> QED
        BY <2>1, <3>2, <4>1, <4>2, <4>3
    <3> QED
      BY <3>1, <3>2
  <2>7. f = Body(f)
    <3>1. f \in [SUBSET T -> Sound]
      BY <2>5 DEF IsFold
    <3> QED
      BY <2>6, <3>1
  <2> HIDE DEF Body
  <2> QED
    BY <2>7
<1> HIDE DEF iter
<1>6. \A u \in SUBSET T : iter[u] = IF u = {} THEN s ELSE AfterWritesOf((CHOOSE x \in u : TRUE), iter[u \ {(CHOOSE x \in u : TRUE)}])
  BY <1>5
<1> DEFINE Good == {u \in SUBSET T : /\ iter[u] \in Sound
                                     /\ BlocksOf(iter[u].list) = BlocksOf(s.list) \ UNION {WritesIn(buffered_accesses_[v]) : v \in u}}
<1>7. {} \in Good
  BY <1>6
<1>8. ASSUME NEW u \in SUBSET T, u # {}
      PROVE  \E x \in u : u \ {x} \in Good => u \in Good
  <2> DEFINE m == (CHOOSE x \in u : TRUE)
  <2>1. m \in u
    BY <1>1, <1>8
  <2>2. iter[u] = AfterWritesOf(m, iter[u \ {m}])
    BY <1>6, <1>8
  <2> HIDE DEF m
  <2>3. ASSUME u \ {m} \in Good PROVE u \in Good
    <3>1. iter[u \ {m}] \in Sound /\ BlocksOf(iter[u \ {m}].list) = BlocksOf(s.list) \ UNION {WritesIn(buffered_accesses_[v]) : v \in (u \ {m})}
      BY <2>3
    <3>2. iter[u] \in Sound /\ BlocksOf(iter[u].list) = BlocksOf(iter[u \ {m}].list) \ WritesIn(buffered_accesses_[m])
      <4>1. m \in T
        BY <2>1
      <4>2. AfterWritesOf(m, iter[u \ {m}]) \in Sound /\ BlocksOf(AfterWritesOf(m, iter[u \ {m}]).list) = BlocksOf(iter[u \ {m}].list) \ WritesIn(buffered_accesses_[m])
        BY <1>4, <3>1, <4>1, Zenon
      <4> QED
        BY <2>2, <4>2
    <3>3. BlocksOf(iter[u].list) = BlocksOf(s.list) \ UNION {WritesIn(buffered_accesses_[v]) : v \in u}
      BY <2>1, <3>1, <3>2
    <3> QED
      BY <3>2, <3>3
  <2> HIDE DEF Good
  <2> QED
    BY <2>1, <2>3
<1>9. T \in Good
  <2> HIDE DEF Good
  <2> QED
    BY <1>1, <1>7, <1>8, Members
<1> QED
  BY <1>3, <1>9 DEF T

-----------------------------------------------------------------------------
(* The stacks of all threads                                               *)

\* What is accessed, and its first block.
Access_ == [address : Nat, size : Nat]
First(a) == a.address \div blockBytes

LEMMA FirstIsTouched ==
  \A a \in Access_ : First(a) \in Touches(a) /\ First(a) \in Addr /\ Touches(a) \subseteq Addr
<1> SUFFICES ASSUME NEW a \in Access_
             PROVE  First(a) \in Touches(a) /\ First(a) \in Addr /\ Touches(a) \subseteq Addr
  OBVIOUS
<1>1. a.address \in Nat /\ a.size \in Nat
  BY DEF Access_
<1>2. BlocksOfAccess(a.address, a.size) \in Seq(Nat) /\ First(a) \in Touches(a)
  BY <1>1, AccessBlocksOf DEF First, Touches
<1>3. \A q \in Seq(Nat) : ToSet(q) \subseteq Nat
  BY DEF ToSet
<1>4. Touches(a) \subseteq Nat
  BY <1>2, <1>3 DEF Touches
<1>5. Nat \subseteq Addr
  BY DEF Addr, Hole
<1> QED
  BY <1>2, <1>4, <1>5

LEMMA AccessingEffect ==
  ASSUME NEW D, NEW stacks \in [D -> Sound], NEW key \in D, NEW a \in Access_
  PROVE  /\ Accessing(stacks, key, a) \in [D -> Sound]
         /\ \A k \in D : InBlocks(Accessing(stacks, key, a), k) =
              IF k = key THEN InBlocks(stacks, k) \cup Touches(a) ELSE InBlocks(stacks, k)
         /\ \A k \in D : Known(stacks[k]) \subseteq Known(Accessing(stacks, key, a)[k])
<1> DEFINE s == AccessStack(stacks[key], a.address, a.size)
<1>1. a.address \in Nat /\ a.size \in Nat
  BY DEF Access_
<1>2. /\ s \in Sound /\ BlocksOf(s.list) = BlocksOf(stacks[key].list) \cup Touches(a)
      /\ Known(stacks[key]) \subseteq Known(s)
  BY <1>1, AccessStackEffect DEF Touches
<1>3. Accessing(stacks, key, a) = [stacks EXCEPT ![key] = s]
  BY DEF Accessing
<1> HIDE DEF s
<1> QED
  BY <1>2, <1>3 DEF InBlocks

LEMMA SnoopedEffect ==
  ASSUME NEW D, NEW stacks \in [D -> Sound], NEW key \in D, NEW a \in Access_,
         NEW is_write \in BOOLEAN
  PROVE  /\ Snooped(stacks, key, a, is_write) \in [D -> Sound]
         /\ \A k \in D : InBlocks(Snooped(stacks, key, a, is_write), k) =
              IF is_write /\ k # key THEN InBlocks(stacks, k) \ {First(a)} ELSE InBlocks(stacks, k)
         /\ \A k \in D : Known(stacks[k]) \subseteq Known(Snooped(stacks, key, a, is_write)[k])
<1>1. a.address \in Int
  BY DEF Access_
<1>2. \A k \in D : /\ Snoop(stacks[k], a.address) \in Sound
                   /\ BlocksOf(Snoop(stacks[k], a.address).list)
                        = BlocksOf(stacks[k].list) \ {First(a)}
                   /\ Known(stacks[k]) \subseteq Known(Snoop(stacks[k], a.address))
  BY <1>1, SnoopEffect DEF First
<1>3. Snooped(stacks, key, a, is_write)
        = [k \in D |-> IF is_write /\ k # key THEN Snoop(stacks[k], a.address) ELSE stacks[k]]
  BY DEF Snooped
<1> QED
  BY <1>2, <1>3 DEF InBlocks

LEMMA PrefetchedEffect ==
  ASSUME NEW D, NEW stacks \in [D -> Sound], NEW key \in D, NEW requested \in SUBSET Addr
  PROVE  /\ Prefetched(stacks, key, requested) \in [D -> Sound]
         /\ \E R \in SUBSET requested :
              /\ R = {} <=> requested = {}
              /\ \A k \in D : InBlocks(Prefetched(stacks, key, requested), k) =
                   IF k = key THEN InBlocks(stacks, k) \cup R ELSE InBlocks(stacks, k)
         /\ \A k \in D : Known(stacks[k]) \subseteq Known(Prefetched(stacks, key, requested)[k])
<1>1. CASE requested = {}
  BY <1>1 DEF Prefetched
<1>2. CASE requested # {}
  <2> DEFINE b == CHOOSE b \in requested : TRUE
             s == Prefetch(stacks[key], b * blockBytes)
  <2>1. b \in requested /\ b \in Addr
    BY <1>2
  <2>2. Prefetched(stacks, key, requested) = [stacks EXCEPT ![key] = s]
    BY <1>2 DEF Prefetched
  <2> HIDE DEF b
  <2>3. /\ s \in Sound /\ BlocksOf(s.list) = BlocksOf(stacks[key].list) \cup {b}
        /\ Known(stacks[key]) \subseteq Known(s)
    BY <2>1, PrefetchEffect
  <2> HIDE DEF s
  <2>4. \A k \in D : InBlocks([stacks EXCEPT ![key] = s], k) =
                   IF k = key THEN InBlocks(stacks, k) \cup {b} ELSE InBlocks(stacks, k)
    BY <2>3 DEF InBlocks
  <2>5. /\ [stacks EXCEPT ![key] = s] \in [D -> Sound]
        /\ \A k \in D : Known(stacks[k]) \subseteq Known([stacks EXCEPT ![key] = s][k])
    BY <2>3
  <2>6. {b} \in SUBSET requested /\ {b} # {}
    BY <2>1
  <2> QED
    BY <1>2, <2>2, <2>4, <2>5, <2>6
<1> QED
  BY <1>1, <1>2

Used(kind) == IF Uses(kind) THEN threads_seen_ ELSE {}
PairsSeen == {PairOf(t) : t \in threads_seen_}

\* Each kind in use has a stack for every thread seen, pair of threads, or all of them.
StacksInv ==
  /\ setup \in Setups
  /\ threads_seen_ \subseteq setup.threads /\ threads_seen_ \subseteq Thread
  /\ \A t \in Thread : threads_enabled_[t] => t \in threads_seen_
  /\ threads_enabled_ \in [Thread -> BOOLEAN] /\ global_enable_ \in BOOLEAN
  /\ single_stacks_ \in [Used("single") -> Sound]
  /\ sim_stacks_ \in [Used("sim") -> Sound]
  /\ lazy_stacks_ \in [Used("lazy") -> Sound]
  /\ oracular_stacks_ \in [Used("oracular") -> Sound]
  /\ pair_share_stacks_ \in [IF Uses("shared") THEN PairsSeen ELSE {} -> Sound]
  /\ IF Uses("shared") /\ threads_seen_ # {} THEN simulated_shared_stack_ \in Sound
                                             ELSE simulated_shared_stack_ = <<>>
  /\ buffered_accesses_ \in [Thread -> Seq(Ref)]
  /\ \A t \in Thread \ threads_seen_ : buffered_accesses_[t] = <<>>

\* What the lazy stacks still have to lose.
LazyInv ==
  /\ \A p \in written : p[1] \in threads_seen_ /\ p[2] \in WritesIn(buffered_accesses_[p[1]])
  /\ Uses("sim") /\ Uses("lazy") =>
       \A t \in threads_seen_ : \A b \in InBlocks(lazy_stacks_, t) :
         b \in InBlocks(sim_stacks_, t) \/ \E u \in threads_seen_ \ {t} : <<u, b>> \in written

WrittenByOthers(t) == UNION {WritesIn(buffered_accesses_[u]) : u \in threads_seen_ \ {t}}

\* What the oracular stacks are to be told at the end of the region.
OracularInv ==
  Uses("sim") /\ Uses("oracular") /\ OnlyDemand /\ SizesFit =>
    \A t \in threads_seen_ :
      InBlocks(sim_stacks_, t) \subseteq
        (InBlocks(oracular_stacks_, t) \ WrittenByOthers(t)) \cup TouchesIn(buffered_accesses_[t])

HolderInv == StacksInv /\ LazyInv /\ OracularInv /\ SharingIncludes

\* An access of which no byte is lost in the buffer, where that is taken for granted.
Fits(a) == Uses("oracular") /\ SizesFit => BufferedSize(a.size) = a.size

\* A step of the stacks, whoever makes the accesses.
StackStep ==
  \/ \E t \in Thread, a \in Access_, is_write \in BOOLEAN, requested \in SUBSET Addr :
       /\ requested # {} => setup.do_prefetch
       /\ Fits(a)
       /\ Access(t, a, is_write, requested)
  \/ \E t \in Thread, fetches \in Seq(Access_) : Len(fetches) <= 2 /\ Fetch(t, fetches)
  \/ \E t \in Thread : Allocate(t) \/ \E enable \in BOOLEAN : SetThreadEnabled(t, enable)
  \/ EndParallelRegion
  \/ \E enable \in BOOLEAN : set_global_enable(enable)

\* What an access does to the blocks in the stacks.
AccessEffects(t, a, is_write, requested) ==
  /\ Uses("single") => \A k \in threads_seen_ :
       InBlocks(single_stacks_', k) =
         IF k = t THEN InBlocks(single_stacks_, k) \cup Touches(a) ELSE InBlocks(single_stacks_, k)
  /\ Uses("lazy") => \A k \in threads_seen_ :
       InBlocks(lazy_stacks_', k) =
         IF k = t THEN InBlocks(lazy_stacks_, k) \cup Touches(a) ELSE InBlocks(lazy_stacks_, k)
  /\ Uses("sim") => \E R \in SUBSET requested :
       /\ R = {} <=> requested = {}
       /\ \A k \in threads_seen_ :
            InBlocks(sim_stacks_', k) =
              IF k = t THEN InBlocks(sim_stacks_, k) \cup Touches(a) \cup R
              ELSE IF is_write THEN InBlocks(sim_stacks_, k) \ {First(a)}
              ELSE InBlocks(sim_stacks_, k)
  /\ \A k \in Used("sim") : Known(sim_stacks_[k]) \subseteq Known(sim_stacks_'[k])
  /\ Uses("shared") =>
       /\ \A p \in PairsSeen :
            InBlocks(pair_share_stacks_', p) =
              IF p = PairOf(t) THEN InBlocks(pair_share_stacks_, p) \cup Touches(a)
              ELSE IF is_write THEN InBlocks(pair_share_stacks_, p) \ {First(a)}
              ELSE InBlocks(pair_share_stacks_, p)
       /\ BlocksOf(simulated_shared_stack_'.list)
            = BlocksOf(simulated_shared_stack_.list) \cup Touches(a)

LEMMA BufferedSizeType ==
  \A size \in Nat : BufferedSize(size) \in Nat
  BY DEF BufferedSize

LEMMA AccessParts ==
  ASSUME StacksInv, NEW t \in Thread, NEW a \in Access_, NEW is_write \in BOOLEAN,
         NEW requested \in SUBSET Addr, Access(t, a, is_write, requested)
  PROVE  t \in threads_seen_ /\ StacksInv' /\ AccessEffects(t, a, is_write, requested)
<1>1. t \in threads_seen_
  BY DEF Access, Recording, StacksInv
<1>2. /\ UNCHANGED <<setup, global_enable_, threads_seen_, threads_enabled_, oracular_stacks_>>
      /\ \A kind : Uses(kind)' = Uses(kind) /\ Used(kind)' = Used(kind)
      /\ PairsSeen' = PairsSeen
  BY DEF Access, Uses, Used, PairsSeen
<1>3. /\ single_stacks_' \in [Used("single") -> Sound]
      /\ Uses("single") => \A k \in threads_seen_ :
           InBlocks(single_stacks_', k) =
             IF k = t THEN InBlocks(single_stacks_, k) \cup Touches(a)
             ELSE InBlocks(single_stacks_, k)
  <2>1. single_stacks_ \in [Used("single") -> Sound]
    BY DEF StacksInv
  <2>2. CASE Uses("single")
    <3>1. single_stacks_' = Accessing(single_stacks_, t, a) /\ t \in Used("single")
          /\ Used("single") = threads_seen_
      BY <1>1, <2>2 DEF Access, Used
    <3> QED
      BY <2>1, <3>1, AccessingEffect
  <2>3. CASE ~Uses("single")
    <3>1. single_stacks_' = single_stacks_
      BY <2>3 DEF Access
    <3> QED
      BY <2>1, <2>3, <3>1
  <2> QED
    BY <2>2, <2>3
<1>4. /\ lazy_stacks_' \in [Used("lazy") -> Sound]
      /\ Uses("lazy") => \A k \in threads_seen_ :
           InBlocks(lazy_stacks_', k) =
             IF k = t THEN InBlocks(lazy_stacks_, k) \cup Touches(a) ELSE InBlocks(lazy_stacks_, k)
  <2>1. lazy_stacks_ \in [Used("lazy") -> Sound]
    BY DEF StacksInv
  <2>2. CASE Uses("lazy")
    <3>1. lazy_stacks_' = Accessing(lazy_stacks_, t, a) /\ t \in Used("lazy")
          /\ Used("lazy") = threads_seen_
      BY <1>1, <2>2 DEF Access, Used
    <3> QED
      BY <2>1, <3>1, AccessingEffect
  <2>3. CASE ~Uses("lazy")
    <3>1. lazy_stacks_' = lazy_stacks_
      BY <2>3 DEF Access
    <3> QED
      BY <2>1, <2>3, <3>1
  <2> QED
    BY <2>2, <2>3
<1>5. /\ sim_stacks_' \in [Used("sim") -> Sound]
      /\ Uses("sim") => \E R \in SUBSET requested :
           /\ R = {} <=> requested = {}
           /\ \A k \in threads_seen_ :
                InBlocks(sim_stacks_', k) =
                  IF k = t THEN InBlocks(sim_stacks_, k) \cup Touches(a) \cup R
                  ELSE IF is_write THEN InBlocks(sim_stacks_, k) \ {First(a)}
                  ELSE InBlocks(sim_stacks_, k)
      /\ \A k \in Used("sim") : Known(sim_stacks_[k]) \subseteq Known(sim_stacks_'[k])
  <2>1. sim_stacks_ \in [Used("sim") -> Sound]
    BY DEF StacksInv
  <2>2. CASE Uses("sim")
    <3> DEFINE one == Accessing(sim_stacks_, t, a)
               two == Snooped(one, t, a, is_write)
    <3>1. /\ sim_stacks_' = Prefetched(two, t, requested) /\ t \in Used("sim")
          /\ Used("sim") = threads_seen_
      BY <1>1, <2>2 DEF Access, Used
    <3>2. /\ one \in [Used("sim") -> Sound]
          /\ \A k \in Used("sim") : InBlocks(one, k) =
               IF k = t THEN InBlocks(sim_stacks_, k) \cup Touches(a) ELSE InBlocks(sim_stacks_, k)
          /\ \A k \in Used("sim") : Known(sim_stacks_[k]) \subseteq Known(one[k])
      BY <2>1, <3>1, AccessingEffect
    <3> HIDE DEF one
    <3>3. /\ two \in [Used("sim") -> Sound]
          /\ \A k \in Used("sim") : InBlocks(two, k) =
               IF is_write /\ k # t THEN InBlocks(one, k) \ {First(a)} ELSE InBlocks(one, k)
          /\ \A k \in Used("sim") : Known(one[k]) \subseteq Known(two[k])
      <4>1. one \in [Used("sim") -> Sound]
        BY <3>2
      <4>2. /\ two \in [Used("sim") -> Sound]
            /\ \A k \in Used("sim") : InBlocks(two, k) =
                 IF is_write /\ k # t THEN InBlocks(one, k) \ {First(a)} ELSE InBlocks(one, k)
        BY <3>1, <4>1, SnoopedEffect
      <4>3. \A k \in Used("sim") : Known(one[k]) \subseteq Known(two[k])
        BY <3>1, <4>1, SnoopedEffect
      <4> QED
        BY <4>2, <4>3
    <3> HIDE DEF two
    <3>4. /\ Prefetched(two, t, requested) \in [Used("sim") -> Sound]
          /\ \A k \in Used("sim") :
               Known(two[k]) \subseteq Known(Prefetched(two, t, requested)[k])
      BY <3>1, <3>3, PrefetchedEffect
    <3>5. PICK R \in SUBSET requested :
            /\ R = {} <=> requested = {}
            /\ \A k \in Used("sim") : InBlocks(Prefetched(two, t, requested), k) =
                 IF k = t THEN InBlocks(two, k) \cup R ELSE InBlocks(two, k)
      BY <3>1, <3>3, PrefetchedEffect
    <3>6. \A k \in threads_seen_ :
            InBlocks(sim_stacks_', k) =
              IF k = t THEN InBlocks(sim_stacks_, k) \cup Touches(a) \cup R
              ELSE IF is_write THEN InBlocks(sim_stacks_, k) \ {First(a)}
              ELSE InBlocks(sim_stacks_, k)
      BY <3>1, <3>2, <3>3, <3>5
    <3>7. \A k \in Used("sim") : Known(sim_stacks_[k]) \subseteq Known(sim_stacks_'[k])
      BY <3>1, <3>2, <3>3, <3>4
    <3> QED
      BY <3>1, <3>4, <3>5, <3>6, <3>7
  <2>3. CASE ~Uses("sim")
    <3>1. sim_stacks_' = sim_stacks_
      BY <2>3 DEF Access
    <3> QED
      BY <2>1, <2>3, <3>1
  <2> QED
    BY <2>2, <2>3
<1>6. /\ pair_share_stacks_' \in [IF Uses("shared") THEN PairsSeen ELSE {} -> Sound]
      /\ Uses("shared") => \A p \in PairsSeen :
            InBlocks(pair_share_stacks_', p) =
              IF p = PairOf(t) THEN InBlocks(pair_share_stacks_, p) \cup Touches(a)
              ELSE IF is_write THEN InBlocks(pair_share_stacks_, p) \ {First(a)}
              ELSE InBlocks(pair_share_stacks_, p)
  <2>1. pair_share_stacks_ \in [IF Uses("shared") THEN PairsSeen ELSE {} -> Sound]
    BY DEF StacksInv
  <2>2. CASE Uses("shared")
    <3> DEFINE one == Accessing(pair_share_stacks_, PairOf(t), a)
    <3>0. PairOf(t) \in PairsSeen
      BY <1>1 DEF PairsSeen
    <3>1. pair_share_stacks_' = Snooped(one, PairOf(t), a, is_write)
      BY <2>2 DEF Access
    <3>2. pair_share_stacks_ \in [PairsSeen -> Sound]
      BY <2>1, <2>2
    <3>3. /\ one \in [PairsSeen -> Sound]
          /\ \A p \in PairsSeen : InBlocks(one, p) =
               IF p = PairOf(t) THEN InBlocks(pair_share_stacks_, p) \cup Touches(a)
               ELSE InBlocks(pair_share_stacks_, p)
      BY <3>0, <3>2, AccessingEffect
    <3> HIDE DEF one
    <3>4. /\ pair_share_stacks_' \in [PairsSeen -> Sound]
          /\ \A p \in PairsSeen : InBlocks(pair_share_stacks_', p) =
               IF is_write /\ p # PairOf(t) THEN InBlocks(one, p) \ {First(a)} ELSE InBlocks(one, p)
      BY <3>0, <3>1, <3>3, SnoopedEffect
    <3> QED
      BY <2>2, <3>3, <3>4
  <2>3. CASE ~Uses("shared")
    <3>1. pair_share_stacks_' = pair_share_stacks_
      BY <2>3 DEF Access
    <3> QED
      BY <2>1, <2>3, <3>1
  <2> QED
    BY <2>2, <2>3
<1>7. /\ IF Uses("shared") /\ threads_seen_ # {} THEN simulated_shared_stack_' \in Sound
                                                 ELSE simulated_shared_stack_' = <<>>
      /\ Uses("shared") => BlocksOf(simulated_shared_stack_'.list)
                             = BlocksOf(simulated_shared_stack_.list) \cup Touches(a)
  <2>1. CASE Uses("shared")
    <3>1. simulated_shared_stack_' = AccessStack(simulated_shared_stack_, a.address, a.size)
      BY <2>1 DEF Access
    <3>2. simulated_shared_stack_ \in Sound
      BY <1>1, <2>1 DEF StacksInv
    <3>3. a.address \in Nat /\ a.size \in Nat
      BY DEF Access_
    <3> QED
      BY <1>1, <2>1, <3>1, <3>2, <3>3, AccessStackEffect DEF Touches
  <2>2. CASE ~Uses("shared")
    BY <2>2 DEF Access, StacksInv
  <2> QED
    BY <2>1, <2>2
<1>8. /\ buffered_accesses_' \in [Thread -> Seq(Ref)]
      /\ \A u \in Thread \ {t} : buffered_accesses_'[u] = buffered_accesses_[u]
  <2>1. [address |-> a.address, size |-> BufferedSize(a.size), is_write |-> is_write] \in Ref
    BY BufferedSizeType DEF Access_, Ref
  <2>2. buffered_accesses_ \in [Thread -> Seq(Ref)]
    BY DEF StacksInv
  <2> QED
    BY <2>1, <2>2 DEF Access
<1>9. StacksInv'
  <2>1. \A u \in Thread \ threads_seen_ : buffered_accesses_'[u] = <<>>
    BY <1>1, <1>8 DEF StacksInv
  <2> QED
    BY <1>2, <1>3, <1>4, <1>5, <1>6, <1>7, <1>8, <2>1 DEF StacksInv
<1>10. AccessEffects(t, a, is_write, requested)
  BY <1>3, <1>4, <1>5, <1>6, <1>7 DEF AccessEffects
<1> QED
  BY <1>1, <1>9, <1>10

LEMMA NothingBuffered == WritesIn(<<>>) = {} /\ TouchesIn(<<>>) = {}
  BY DEF WritesIn, TouchesIn

LEMMA OneMoreBuffered ==
  ASSUME NEW refs \in Seq(Ref), NEW ref \in Ref
  PROVE  /\ WritesIn(Append(refs, ref))
              = WritesIn(refs) \cup (IF ref.is_write THEN {ref.address \div blockBytes} ELSE {})
         /\ TouchesIn(Append(refs, ref)) = TouchesIn(refs) \cup Touches(ref)
<1> DEFINE n == Len(refs)
           more == Append(refs, ref)
<1>1. /\ n \in Nat /\ DOMAIN refs = 1 .. n /\ DOMAIN more = 1 .. n + 1
      /\ \A i \in 1 .. n : more[i] = refs[i]
      /\ more[n + 1] = ref
  OBVIOUS
<1>2. DOMAIN more = DOMAIN refs \cup {n + 1} /\ n + 1 \notin DOMAIN refs
  BY <1>1
<1>3. \A i \in DOMAIN refs : more[i] = refs[i]
  BY <1>1
<1> HIDE DEF n, more
<1>4. WritesIn(more) = WritesIn(refs) \cup (IF ref.is_write THEN {ref.address \div blockBytes} ELSE {})
  BY <1>1, <1>2, <1>3 DEF WritesIn
<1>5. TouchesIn(more) = TouchesIn(refs) \cup Touches(ref)
  BY <1>1, <1>2, <1>3 DEF TouchesIn
<1> QED
  BY <1>4, <1>5 DEF more

\* What an access leaves in the buffers.
LEMMA AccessBuffers ==
  ASSUME StacksInv, NEW t \in Thread, NEW a \in Access_, NEW is_write \in BOOLEAN,
         NEW requested \in SUBSET Addr, Access(t, a, is_write, requested)
  PROVE  /\ \A u \in Thread \ {t} : buffered_accesses_'[u] = buffered_accesses_[u]
         /\ Buffers =>
              /\ WritesIn(buffered_accesses_'[t])
                   = WritesIn(buffered_accesses_[t]) \cup (IF is_write THEN {First(a)} ELSE {})
              /\ BufferedSize(a.size) = a.size =>
                   TouchesIn(buffered_accesses_'[t])
                     = TouchesIn(buffered_accesses_[t]) \cup Touches(a)
         /\ ~Buffers => buffered_accesses_' = buffered_accesses_
<1> DEFINE ref == [address |-> a.address, size |-> BufferedSize(a.size), is_write |-> is_write]
<1>1. /\ ref \in Ref /\ ref.is_write = is_write /\ ref.address = a.address
      /\ ref.size = BufferedSize(a.size)
  BY BufferedSizeType DEF Access_, Ref
<1>2. buffered_accesses_ \in [Thread -> Seq(Ref)]
  BY DEF StacksInv
<1>3. Buffers => buffered_accesses_'
                   = [buffered_accesses_ EXCEPT ![t] = Append(@, ref)]
  BY DEF Access
<1>4. ~Buffers => buffered_accesses_' = buffered_accesses_
  BY DEF Access
<1> HIDE DEF ref
<1>5. \A u \in Thread \ {t} : buffered_accesses_'[u] = buffered_accesses_[u]
  BY <1>2, <1>3, <1>4
<1>6. Buffers => buffered_accesses_'[t] = Append(buffered_accesses_[t], ref)
  BY <1>2, <1>3
<1>7. buffered_accesses_[t] \in Seq(Ref)
  BY <1>2
<1>8. /\ BufferedSize(a.size) = a.size => Touches(ref) = Touches(a)
      /\ ref.address \div blockBytes = First(a)
  BY <1>1 DEF Touches, First
<1>9. /\ WritesIn(Append(buffered_accesses_[t], ref))
           = WritesIn(buffered_accesses_[t]) \cup (IF is_write THEN {First(a)} ELSE {})
      /\ BufferedSize(a.size) = a.size =>
           TouchesIn(Append(buffered_accesses_[t], ref))
             = TouchesIn(buffered_accesses_[t]) \cup Touches(a)
  BY <1>1, <1>7, <1>8, OneMoreBuffered
<1> QED
  BY <1>4, <1>5, <1>6, <1>9

-----------------------------------------------------------------------------
(* What each step keeps                                                    *)

LEMMA AccessKeepsLazy ==
  ASSUME StacksInv, LazyInv, NEW t \in Thread, NEW a \in Access_, NEW is_write \in BOOLEAN,
         NEW requested \in SUBSET Addr, Access(t, a, is_write, requested)
  PROVE  LazyInv'
<1>1. t \in threads_seen_ /\ AccessEffects(t, a, is_write, requested)
  BY AccessParts
<1>2. /\ setup' = setup /\ threads_seen_' = threads_seen_
      /\ written' = written \cup IF Uses("lazy") /\ is_write THEN {<<t, First(a)>>} ELSE {}
  BY DEF Access, First
<1>3. \A u \in Thread : WritesIn(buffered_accesses_[u]) \subseteq WritesIn(buffered_accesses_'[u])
  BY AccessBuffers
<1>4. Uses("lazy") /\ is_write => First(a) \in WritesIn(buffered_accesses_'[t])
  <2>1. Uses("lazy") => Buffers
    BY DEF Buffers
  <2>2. Buffers => WritesIn(buffered_accesses_'[t])
                     = WritesIn(buffered_accesses_[t]) \cup (IF is_write THEN {First(a)} ELSE {})
    BY AccessBuffers
  <2> QED
    BY <2>1, <2>2
<1>5. threads_seen_ \subseteq Thread
  BY DEF StacksInv
<1>6. \A p \in written' : p[1] \in threads_seen_' /\ p[2] \in WritesIn(buffered_accesses_'[p[1]])
  <2> SUFFICES ASSUME NEW p \in written'
               PROVE  p[1] \in threads_seen_ /\ p[2] \in WritesIn(buffered_accesses_'[p[1]])
    BY <1>2
  <2>1. CASE p \in written
    <3>1. p[1] \in threads_seen_ /\ p[2] \in WritesIn(buffered_accesses_[p[1]])
      BY <2>1 DEF LazyInv
    <3> QED
      BY <1>3, <1>5, <3>1
  <2>2. CASE p \notin written
    <3>1. Uses("lazy") /\ is_write /\ p = <<t, First(a)>>
      BY <1>2, <2>2
    <3>2. p[1] = t /\ p[2] = First(a)
      BY <3>1
    <3> QED
      BY <1>1, <1>4, <3>1, <3>2
  <2> QED
    BY <2>1, <2>2
<1>7. ASSUME Uses("sim"), Uses("lazy"), NEW k \in threads_seen_, NEW b \in InBlocks(lazy_stacks_', k)
      PROVE  b \in InBlocks(sim_stacks_', k) \/ \E u \in threads_seen_ \ {k} : <<u, b>> \in written'
  <2>1. PICK R \in SUBSET requested :
          \A k_1 \in threads_seen_ :
            InBlocks(sim_stacks_', k_1) =
              IF k_1 = t THEN InBlocks(sim_stacks_, k_1) \cup Touches(a) \cup R
              ELSE IF is_write THEN InBlocks(sim_stacks_, k_1) \ {First(a)}
              ELSE InBlocks(sim_stacks_, k_1)
    BY <1>1, <1>7 DEF AccessEffects
  <2>2. InBlocks(lazy_stacks_', k) =
          IF k = t THEN InBlocks(lazy_stacks_, k) \cup Touches(a) ELSE InBlocks(lazy_stacks_, k)
    BY <1>1, <1>7 DEF AccessEffects
  <2>3. CASE k = t /\ b \in Touches(a)
    BY <2>1, <2>3
  <2>4. CASE b \in InBlocks(lazy_stacks_, k)
    <3>1. b \in InBlocks(sim_stacks_, k) \/ \E u \in threads_seen_ \ {k} : <<u, b>> \in written
      BY <1>7, <2>4 DEF LazyInv
    <3>2. CASE b \in InBlocks(sim_stacks_, k)
      <4>1. CASE b \in InBlocks(sim_stacks_', k)
        BY <4>1
      <4>2. CASE b \notin InBlocks(sim_stacks_', k)
        <5>1. k # t /\ is_write /\ b = First(a)
          BY <2>1, <3>2, <4>2
        <5>2. t \in threads_seen_ \ {k} /\ <<t, b>> \in written'
          BY <1>1, <1>2, <1>7, <5>1
        <5> QED
          BY <5>2
      <4> QED
        BY <4>1, <4>2
    <3> QED
      BY <1>2, <3>1, <3>2
  <2> QED
    BY <1>7, <2>2, <2>3, <2>4
<1>8. Uses("sim")' = Uses("sim") /\ Uses("lazy")' = Uses("lazy")
  BY <1>2 DEF Uses
<1> QED
  BY <1>2, <1>6, <1>7, <1>8 DEF LazyInv

LEMMA AccessKeepsOracular ==
  ASSUME StacksInv, OracularInv, NEW t \in Thread, NEW a \in Access_, NEW is_write \in BOOLEAN,
         NEW requested \in SUBSET Addr, requested # {} => setup.do_prefetch, Fits(a),
         Access(t, a, is_write, requested)
  PROVE  OracularInv'
<1>1. t \in threads_seen_ /\ AccessEffects(t, a, is_write, requested)
  BY AccessParts
<1>2. setup' = setup /\ threads_seen_' = threads_seen_ /\ oracular_stacks_' = oracular_stacks_
  BY DEF Access
<1>3. threads_seen_ \subseteq Thread
  BY DEF StacksInv
<1>4. ASSUME Uses("sim"), Uses("oracular"), OnlyDemand, SizesFit, NEW k \in threads_seen_,
             NEW b \in InBlocks(sim_stacks_', k)
      PROVE  b \in (InBlocks(oracular_stacks_, k)
                      \ UNION {WritesIn(buffered_accesses_'[u]) : u \in threads_seen_ \ {k}})
                     \cup TouchesIn(buffered_accesses_'[k])
  <2>1. PICK R \in SUBSET requested :
          \A k_1 \in threads_seen_ :
            InBlocks(sim_stacks_', k_1) =
              IF k_1 = t THEN InBlocks(sim_stacks_, k_1) \cup Touches(a) \cup R
              ELSE IF is_write THEN InBlocks(sim_stacks_, k_1) \ {First(a)}
              ELSE InBlocks(sim_stacks_, k_1)
    BY <1>1, <1>4 DEF AccessEffects
  <2>2. R = {}
    BY <1>4 DEF OnlyDemand
  <2>3. /\ \A u \in Thread \ {t} : buffered_accesses_'[u] = buffered_accesses_[u]
        /\ WritesIn(buffered_accesses_'[t])
             = WritesIn(buffered_accesses_[t]) \cup (IF is_write THEN {First(a)} ELSE {})
        /\ TouchesIn(buffered_accesses_'[t]) = TouchesIn(buffered_accesses_[t]) \cup Touches(a)
    BY <1>4, AccessBuffers DEF Buffers, Fits
  <2>4. CASE k = t /\ b \in Touches(a)
    BY <2>3, <2>4
  <2>5. CASE b \in InBlocks(sim_stacks_, k)
    <3>1. b \in (InBlocks(oracular_stacks_, k)
                   \ UNION {WritesIn(buffered_accesses_[u]) : u \in threads_seen_ \ {k}})
                  \cup TouchesIn(buffered_accesses_[k])
      BY <1>4, <2>5 DEF OracularInv, WrittenByOthers
    <3>2. TouchesIn(buffered_accesses_[k]) \subseteq TouchesIn(buffered_accesses_'[k])
      BY <1>3, <1>4, <2>3
    <3>3. ASSUME b \in InBlocks(oracular_stacks_, k), NEW u \in threads_seen_ \ {k},
                 b \notin WritesIn(buffered_accesses_[u])
          PROVE  b \notin WritesIn(buffered_accesses_'[u])
      <4>1. CASE u # t
        BY <1>3, <2>3, <3>3, <4>1
      <4>2. CASE u = t
        <5>1. is_write => b # First(a)
          BY <1>4, <2>1, <3>3, <4>2
        <5> QED
          BY <2>3, <3>3, <4>2, <5>1
      <4> QED
        BY <4>1, <4>2
    <3> QED
      BY <3>1, <3>2, <3>3
  <2> QED
    BY <1>4, <2>1, <2>2, <2>4, <2>5
<1>5. /\ Uses("sim")' = Uses("sim") /\ Uses("oracular")' = Uses("oracular")
      /\ OnlyDemand' = OnlyDemand /\ SizesFit' = SizesFit
  BY <1>2 DEF Uses, OnlyDemand, SizesFit
<1> QED
  BY <1>2, <1>4, <1>5 DEF OracularInv, WrittenByOthers

LEMMA AccessKeepsSharing ==
  ASSUME StacksInv, SharingIncludes, NEW t \in Thread, NEW a \in Access_,
         NEW is_write \in BOOLEAN, NEW requested \in SUBSET Addr,
         requested # {} => setup.do_prefetch, Access(t, a, is_write, requested)
  PROVE  SharingIncludes'
<1>1. t \in threads_seen_ /\ AccessEffects(t, a, is_write, requested)
  BY AccessParts
<1>2. setup' = setup /\ threads_seen_' = threads_seen_
  BY DEF Access
<1>3. Uses("sim")' = Uses("sim") /\ Uses("shared")' = Uses("shared")
      /\ Uses("single")' = Uses("single") /\ OnlyDemand' = OnlyDemand
  BY <1>2 DEF Uses, OnlyDemand
<1>4. ASSUME Uses("shared"), NEW k \in threads_seen_
      PROVE  /\ Uses("sim") /\ OnlyDemand =>
                  InBlocks(sim_stacks_', k) \subseteq InBlocks(pair_share_stacks_', PairOf(k))
             /\ InBlocks(pair_share_stacks_', PairOf(k)) \subseteq BlocksOf(simulated_shared_stack_'.list)
             /\ Uses("single") =>
                  InBlocks(single_stacks_', k) \subseteq BlocksOf(simulated_shared_stack_'.list)
  <2>1. /\ Uses("sim") /\ OnlyDemand =>
             InBlocks(sim_stacks_, k) \subseteq InBlocks(pair_share_stacks_, PairOf(k))
        /\ InBlocks(pair_share_stacks_, PairOf(k)) \subseteq BlocksOf(simulated_shared_stack_.list)
        /\ Uses("single") =>
             InBlocks(single_stacks_, k) \subseteq BlocksOf(simulated_shared_stack_.list)
    BY <1>4 DEF SharingIncludes
  <2>2. PairOf(k) \in PairsSeen
    BY <1>4 DEF PairsSeen
  <2> DEFINE p == PairOf(k)
  <2>3. /\ InBlocks(pair_share_stacks_', p) =
             IF p = PairOf(t) THEN InBlocks(pair_share_stacks_, p) \cup Touches(a)
             ELSE IF is_write THEN InBlocks(pair_share_stacks_, p) \ {First(a)}
             ELSE InBlocks(pair_share_stacks_, p)
        /\ BlocksOf(simulated_shared_stack_'.list)
             = BlocksOf(simulated_shared_stack_.list) \cup Touches(a)
    BY <1>1, <1>4, <2>2 DEF AccessEffects
  <2>4. Uses("single") =>
          InBlocks(single_stacks_', k) \subseteq InBlocks(single_stacks_, k) \cup Touches(a)
    BY <1>1, <1>4 DEF AccessEffects
  <2>5. ASSUME Uses("sim"), OnlyDemand
        PROVE  InBlocks(sim_stacks_', k) \subseteq InBlocks(pair_share_stacks_', p)
    <3>1. PICK R \in SUBSET requested :
            \A k_1 \in threads_seen_ :
              InBlocks(sim_stacks_', k_1) =
                IF k_1 = t THEN InBlocks(sim_stacks_, k_1) \cup Touches(a) \cup R
                ELSE IF is_write THEN InBlocks(sim_stacks_, k_1) \ {First(a)}
                ELSE InBlocks(sim_stacks_, k_1)
      BY <1>1, <2>5 DEF AccessEffects
    <3>2. R = {}
      BY <2>5 DEF OnlyDemand
    <3>3. InBlocks(sim_stacks_', k) =
            IF k = t THEN InBlocks(sim_stacks_, k) \cup Touches(a)
            ELSE IF is_write THEN InBlocks(sim_stacks_, k) \ {First(a)}
            ELSE InBlocks(sim_stacks_, k)
      BY <1>4, <3>1, <3>2
    <3>4. InBlocks(sim_stacks_, k) \subseteq InBlocks(pair_share_stacks_, p)
      BY <2>1, <2>5
    <3>5. k = t => p = PairOf(t)
      OBVIOUS
    <3> HIDE DEF p
    <3> QED
      BY <2>3, <3>3, <3>4, <3>5
  <2> QED
    BY <2>1, <2>3, <2>4, <2>5
<1> QED
  BY <1>2, <1>3, <1>4 DEF SharingIncludes, PairOf, share_map_

\* What a step that only turns recording on or off leaves alone.
stacksVars == <<setup, threads_seen_, single_stacks_, sim_stacks_, lazy_stacks_,
                oracular_stacks_, pair_share_stacks_, simulated_shared_stack_,
                buffered_accesses_, written>>

LEMMA UnchangedStacks ==
  ASSUME HolderInv, UNCHANGED stacksVars,
         threads_enabled_' \in [Thread -> BOOLEAN], global_enable_' \in BOOLEAN,
         \A t \in Thread : threads_enabled_'[t] => t \in threads_seen_
  PROVE  HolderInv'
<1>1. UNCHANGED <<setup, threads_seen_, single_stacks_, sim_stacks_, lazy_stacks_,
                  oracular_stacks_, pair_share_stacks_, simulated_shared_stack_,
                  buffered_accesses_, written>>
  BY DEF stacksVars
<1>2. StacksInv'
  BY <1>1 DEF HolderInv, StacksInv, Used, Uses, PairsSeen
<1>3. LazyInv'
  BY <1>1 DEF HolderInv, LazyInv, Uses
<1>4. OracularInv'
  BY <1>1 DEF HolderInv, OracularInv, WrittenByOthers, Uses, OnlyDemand, SizesFit
<1>5. SharingIncludes'
  BY <1>1 DEF HolderInv, SharingIncludes, Uses, OnlyDemand
<1> QED
  BY <1>2, <1>3, <1>4, <1>5 DEF HolderInv

LEMMA SetThreadEnabledKeeps ==
  ASSUME HolderInv, NEW t \in Thread, NEW enable \in BOOLEAN, SetThreadEnabled(t, enable)
  PROVE  HolderInv'
<1>1. UNCHANGED stacksVars /\ global_enable_' = global_enable_ /\ t \in threads_seen_
      /\ threads_enabled_' = [threads_enabled_ EXCEPT ![t] = enable]
  BY DEF SetThreadEnabled, stacksVars
<1>2. global_enable_ \in BOOLEAN /\ threads_enabled_ \in [Thread -> BOOLEAN]
      /\ \A u \in Thread : threads_enabled_[u] => u \in threads_seen_
  BY DEF HolderInv, StacksInv
<1>3. threads_enabled_' \in [Thread -> BOOLEAN]
  BY <1>1, <1>2
<1>4. \A u \in Thread : threads_enabled_'[u] => u \in threads_seen_
  BY <1>1, <1>2
<1> QED
  BY <1>1, <1>2, <1>3, <1>4, UnchangedStacks

LEMMA SetGlobalEnableKeeps ==
  ASSUME HolderInv, NEW enable \in BOOLEAN, set_global_enable(enable)
  PROVE  HolderInv'
<1>1. UNCHANGED stacksVars /\ global_enable_' = enable /\ threads_enabled_' = threads_enabled_
  BY DEF set_global_enable, stacksVars
<1>2. threads_enabled_ \in [Thread -> BOOLEAN]
      /\ \A u \in Thread : threads_enabled_[u] => u \in threads_seen_
  BY DEF HolderInv, StacksInv
<1> QED
  BY <1>1, <1>2, UnchangedStacks

LEMMA UnchangedKeeps ==
  ASSUME HolderInv, UNCHANGED vars
  PROVE  HolderInv'
<1>1. UNCHANGED stacksVars /\ UNCHANGED <<global_enable_, threads_enabled_>>
  BY DEF vars, stacksVars
<1>2. global_enable_ \in BOOLEAN /\ threads_enabled_ \in [Thread -> BOOLEAN]
      /\ \A u \in Thread : threads_enabled_[u] => u \in threads_seen_
  BY DEF HolderInv, StacksInv
<1> QED
  BY <1>1, <1>2, UnchangedStacks

\* A stack is added if there is none; the stacks there are stay as they are.
LEMMA WithStackEffect ==
  ASSUME NEW D, NEW stacks \in [D -> Sound], NEW key
  PROVE  /\ WithStack(stacks, key) \in [D \cup {key} -> Sound]
         /\ \A k \in D : InBlocks(WithStack(stacks, key), k) = InBlocks(stacks, k)
         /\ key \notin D => InBlocks(WithStack(stacks, key), key) = {}
<1>1. WithStack(stacks, key)
        = [k \in D \cup {key} |-> IF k \in D THEN stacks[k] ELSE NewStack]
  BY DEF WithStack
<1> QED
  BY <1>1, NewStackSound DEF InBlocks

LEMMA AllocateKeeps ==
  ASSUME HolderInv, NEW t \in Thread, Allocate(t)
  PROVE  HolderInv'
<1>1. /\ t \notin threads_seen_ /\ threads_seen_' = threads_seen_ \cup {t} /\ t \in setup.threads
      /\ setup' = setup /\ global_enable_' = global_enable_
      /\ buffered_accesses_' = buffered_accesses_ /\ written' = written
  BY DEF Allocate
<1>2. StacksInv
  BY DEF HolderInv
<1>3. /\ \A kind : Uses(kind)' = Uses(kind)
      /\ OnlyDemand' = OnlyDemand /\ SizesFit' = SizesFit
      /\ PairsSeen' = PairsSeen \cup {PairOf(t)}
  BY <1>1 DEF Uses, OnlyDemand, SizesFit, PairsSeen
<1>4. \A kind : Used(kind)' = IF Uses(kind) THEN Used(kind) \cup {t} ELSE Used(kind)
  BY <1>1, <1>3 DEF Used
<1>5. ASSUME NEW kind, NEW stacks \in [Used(kind) -> Sound]
      PROVE  /\ AddIf(Uses(kind), stacks, t) \in [Used(kind)' -> Sound]
             /\ \A k \in Used(kind) :
                  InBlocks(AddIf(Uses(kind), stacks, t), k) = InBlocks(stacks, k)
             /\ Uses(kind) => InBlocks(AddIf(Uses(kind), stacks, t), t) = {}
  <2>1. t \notin Used(kind)
    BY <1>1 DEF Used
  <2>2. CASE Uses(kind)
    <3>1. AddIf(Uses(kind), stacks, t) = WithStack(stacks, t)
      BY <2>2 DEF AddIf
    <3>2. Used(kind)' = Used(kind) \cup {t}
      BY <1>4, <2>2
    <3> QED
      BY <1>5, <2>1, <3>1, <3>2, WithStackEffect
  <2>3. CASE ~Uses(kind)
    <3>1. AddIf(Uses(kind), stacks, t) = stacks
      BY <2>3 DEF AddIf
    <3>2. Used(kind)' = Used(kind)
      BY <1>4, <2>3
    <3> QED
      BY <1>5, <2>3, <3>1, <3>2
  <2> QED
    BY <2>2, <2>3
<1>6. /\ single_stacks_' \in [Used("single")' -> Sound]
      /\ \A k \in Used("single") : InBlocks(single_stacks_', k) = InBlocks(single_stacks_, k)
      /\ Uses("single") => InBlocks(single_stacks_', t) = {}
  <2>1. single_stacks_ \in [Used("single") -> Sound]
    BY <1>2 DEF StacksInv
  <2>2. single_stacks_' = AddIf(Uses("single"), single_stacks_, t)
    BY DEF Allocate
  <2> QED
    BY <1>5, <2>1, <2>2
<1>7. /\ sim_stacks_' \in [Used("sim")' -> Sound]
      /\ \A k \in Used("sim") : InBlocks(sim_stacks_', k) = InBlocks(sim_stacks_, k)
      /\ Uses("sim") => InBlocks(sim_stacks_', t) = {}
  <2>1. sim_stacks_ \in [Used("sim") -> Sound]
    BY <1>2 DEF StacksInv
  <2>2. sim_stacks_' = AddIf(Uses("sim"), sim_stacks_, t)
    BY DEF Allocate
  <2> QED
    BY <1>5, <2>1, <2>2
<1>8. /\ lazy_stacks_' \in [Used("lazy")' -> Sound]
      /\ \A k \in Used("lazy") : InBlocks(lazy_stacks_', k) = InBlocks(lazy_stacks_, k)
      /\ Uses("lazy") => InBlocks(lazy_stacks_', t) = {}
  <2>1. lazy_stacks_ \in [Used("lazy") -> Sound]
    BY <1>2 DEF StacksInv
  <2>2. lazy_stacks_' = AddIf(Uses("lazy"), lazy_stacks_, t)
    BY DEF Allocate
  <2> QED
    BY <1>5, <2>1, <2>2
<1>9. /\ oracular_stacks_' \in [Used("oracular")' -> Sound]
      /\ \A k \in Used("oracular") : InBlocks(oracular_stacks_', k) = InBlocks(oracular_stacks_, k)
      /\ Uses("oracular") => InBlocks(oracular_stacks_', t) = {}
  <2>1. oracular_stacks_ \in [Used("oracular") -> Sound]
    BY <1>2 DEF StacksInv
  <2>2. oracular_stacks_' = AddIf(Uses("oracular"), oracular_stacks_, t)
    BY DEF Allocate
  <2> QED
    BY <1>5, <2>1, <2>2
<1>10. /\ pair_share_stacks_' \in [(IF Uses("shared") THEN PairsSeen ELSE {})' -> Sound]
       /\ Uses("shared") =>
            /\ \A p \in PairsSeen : InBlocks(pair_share_stacks_', p) = InBlocks(pair_share_stacks_, p)
            /\ PairOf(t) \notin PairsSeen => InBlocks(pair_share_stacks_', PairOf(t)) = {}
  <2>1. pair_share_stacks_ \in [IF Uses("shared") THEN PairsSeen ELSE {} -> Sound]
    BY <1>2 DEF StacksInv
  <2>2. pair_share_stacks_' = AddIf(Uses("shared"), pair_share_stacks_, PairOf(t))
    BY DEF Allocate
  <2>3. CASE Uses("shared")
    <3>1. pair_share_stacks_' = WithStack(pair_share_stacks_, PairOf(t))
      BY <2>2, <2>3 DEF AddIf
    <3>2. pair_share_stacks_ \in [PairsSeen -> Sound]
      BY <2>1, <2>3
    <3>3. (IF Uses("shared") THEN PairsSeen ELSE {})' = PairsSeen \cup {PairOf(t)}
      BY <1>3, <2>3
    <3> QED
      BY <3>1, <3>2, <3>3, WithStackEffect
  <2>4. CASE ~Uses("shared")
    <3>1. pair_share_stacks_' = pair_share_stacks_
      BY <2>2, <2>4 DEF AddIf
    <3>2. (IF Uses("shared") THEN PairsSeen ELSE {})' = {}
      BY <1>3, <2>4
    <3> QED
      BY <2>1, <2>4, <3>1, <3>2
  <2> QED
    BY <2>3, <2>4
<1>11. /\ Uses("shared") => simulated_shared_stack_' \in Sound
       /\ ~Uses("shared") => simulated_shared_stack_' = <<>>
       /\ Uses("shared") /\ threads_seen_ # {} => simulated_shared_stack_' = simulated_shared_stack_
  <2>1. simulated_shared_stack_' =
          IF Uses("shared") /\ simulated_shared_stack_ = <<>> THEN NewStack
                                                              ELSE simulated_shared_stack_
    BY DEF Allocate
  <2>2. \A s \in Sound : s # <<>>
    <3>1. \A s \in Sound : s \in StackRecord
      BY DEF Sound
    <3>2. \A s \in StackRecord : "list" \in DOMAIN s
      BY DEF StackRecord
    <3>3. "list" \notin DOMAIN <<>>
      OBVIOUS
    <3> QED
      BY <3>1, <3>2, <3>3, Zenon
  <2> QED
    BY <1>2, <2>1, <2>2, NewStackSound DEF StacksInv
<1>12. StacksInv'
  <2>1. /\ threads_enabled_' \in [Thread -> BOOLEAN]
        /\ \A u \in Thread : threads_enabled_'[u] => u \in threads_seen_'
    BY <1>1, <1>2 DEF Allocate, StacksInv
  <2>2. threads_seen_' \subseteq setup'.threads /\ threads_seen_' \subseteq Thread
    BY <1>1, <1>2 DEF StacksInv
  <2>3. /\ buffered_accesses_' \in [Thread -> Seq(Ref)]
        /\ \A u \in Thread \ threads_seen_' : buffered_accesses_'[u] = <<>>
    BY <1>1, <1>2 DEF StacksInv
  <2>4. setup' \in Setups /\ global_enable_' \in BOOLEAN
    BY <1>1, <1>2 DEF StacksInv
  <2>5. IF Uses("shared")' /\ threads_seen_' # {} THEN simulated_shared_stack_' \in Sound
                                                  ELSE simulated_shared_stack_' = <<>>
    BY <1>1, <1>3, <1>11
  <2> QED
    BY <1>6, <1>7, <1>8, <1>9, <1>10, <2>1, <2>2, <2>3, <2>4, <2>5 DEF StacksInv
<1>13. LazyInv'
  <2>1. LazyInv
    BY DEF HolderInv
  <2>2. \A p \in written' : p[1] \in threads_seen_' /\ p[2] \in WritesIn(buffered_accesses_'[p[1]])
    BY <1>1, <2>1 DEF LazyInv
  <2>3. ASSUME Uses("sim"), Uses("lazy"), NEW k \in threads_seen_', NEW b \in InBlocks(lazy_stacks_', k)
        PROVE  b \in InBlocks(sim_stacks_', k)
                 \/ \E u \in threads_seen_' \ {k} : <<u, b>> \in written'
    <3>1. k # t
      BY <1>8, <2>3
    <3>2. k \in threads_seen_ /\ Used("lazy") = threads_seen_ /\ Used("sim") = threads_seen_
      BY <1>1, <2>3, <3>1 DEF Used
    <3>3. b \in InBlocks(lazy_stacks_, k) /\ InBlocks(sim_stacks_', k) = InBlocks(sim_stacks_, k)
      BY <1>7, <1>8, <2>3, <3>2
    <3> QED
      BY <1>1, <2>1, <2>3, <3>2, <3>3 DEF LazyInv
  <2> QED
    BY <1>3, <2>2, <2>3 DEF LazyInv
<1>14. OracularInv'
  <2>1. ASSUME Uses("sim"), Uses("oracular"), OnlyDemand, SizesFit, NEW k \in threads_seen_'
        PROVE  InBlocks(sim_stacks_', k) \subseteq
                 (InBlocks(oracular_stacks_', k)
                    \ UNION {WritesIn(buffered_accesses_[u]) : u \in threads_seen_' \ {k}})
                   \cup TouchesIn(buffered_accesses_[k])
    <3>1. CASE k = t
      BY <1>7, <2>1, <3>1
    <3>2. CASE k # t
      <4>1. k \in threads_seen_ /\ Used("oracular") = threads_seen_ /\ Used("sim") = threads_seen_
        BY <1>1, <2>1, <3>2 DEF Used
      <4>2. InBlocks(oracular_stacks_', k) = InBlocks(oracular_stacks_, k)
            /\ InBlocks(sim_stacks_', k) = InBlocks(sim_stacks_, k)
        BY <1>7, <1>9, <4>1
      <4>3. WritesIn(buffered_accesses_[t]) = {}
        BY <1>1, <1>2, NothingBuffered DEF StacksInv
      <4>4. InBlocks(sim_stacks_, k) \subseteq
              (InBlocks(oracular_stacks_, k)
                 \ UNION {WritesIn(buffered_accesses_[u]) : u \in threads_seen_ \ {k}})
                \cup TouchesIn(buffered_accesses_[k])
        BY <2>1, <4>1 DEF HolderInv, OracularInv, WrittenByOthers
      <4> QED
        BY <1>1, <4>2, <4>3, <4>4
    <3> QED
      BY <3>1, <3>2
  <2> QED
    BY <1>1, <1>3, <2>1 DEF OracularInv, WrittenByOthers
<1>15. SharingIncludes'
  <2>1. ASSUME Uses("shared"), NEW k \in threads_seen_'
        PROVE  /\ Uses("sim") /\ OnlyDemand =>
                    InBlocks(sim_stacks_', k) \subseteq InBlocks(pair_share_stacks_', PairOf(k))
               /\ InBlocks(pair_share_stacks_', PairOf(k))
                    \subseteq BlocksOf(simulated_shared_stack_'.list)
               /\ Uses("single") =>
                    InBlocks(single_stacks_', k) \subseteq BlocksOf(simulated_shared_stack_'.list)
    <3>1. Uses("sim") => InBlocks(sim_stacks_', k) = {} \/ k \in threads_seen_
      BY <1>1, <1>7, <2>1
    <3>2. Uses("single") => InBlocks(single_stacks_', k) = {} \/ k \in threads_seen_
      BY <1>1, <1>6, <2>1
    <3>3. ASSUME NEW j \in threads_seen_
          PROVE  /\ Uses("sim") /\ OnlyDemand =>
                      InBlocks(sim_stacks_', j) \subseteq InBlocks(pair_share_stacks_', PairOf(j))
                 /\ InBlocks(pair_share_stacks_', PairOf(j))
                      \subseteq BlocksOf(simulated_shared_stack_'.list)
                 /\ Uses("single") =>
                      InBlocks(single_stacks_', j) \subseteq BlocksOf(simulated_shared_stack_'.list)
      <4>1. /\ Uses("sim") /\ OnlyDemand =>
                 InBlocks(sim_stacks_, j) \subseteq InBlocks(pair_share_stacks_, PairOf(j))
            /\ InBlocks(pair_share_stacks_, PairOf(j)) \subseteq BlocksOf(simulated_shared_stack_.list)
            /\ Uses("single") =>
                 InBlocks(single_stacks_, j) \subseteq BlocksOf(simulated_shared_stack_.list)
        BY <2>1, <3>3 DEF HolderInv, SharingIncludes
      <4>2. PairOf(j) \in PairsSeen
        BY <3>3 DEF PairsSeen
      <4>3. InBlocks(pair_share_stacks_', PairOf(j)) = InBlocks(pair_share_stacks_, PairOf(j))
        BY <1>10, <2>1, <4>2
      <4>4. simulated_shared_stack_' = simulated_shared_stack_
        BY <1>11, <2>1, <3>3
      <4>5. /\ Uses("sim") => InBlocks(sim_stacks_', j) = InBlocks(sim_stacks_, j)
            /\ Uses("single") => InBlocks(single_stacks_', j) = InBlocks(single_stacks_, j)
        BY <1>6, <1>7, <3>3 DEF Used
      <4> QED
        BY <4>1, <4>3, <4>4, <4>5
    <3>4. InBlocks(pair_share_stacks_', PairOf(k)) \subseteq BlocksOf(simulated_shared_stack_'.list)
      <4>1. CASE PairOf(k) \in PairsSeen
        <5>1. PICK j \in threads_seen_ : PairOf(j) = PairOf(k)
          BY <4>1 DEF PairsSeen
        <5> QED
          BY <3>3, <5>1
      <4>2. CASE PairOf(k) \notin PairsSeen
        <5>1. k = t
          BY <1>1, <2>1, <4>2 DEF PairsSeen
        <5> QED
          BY <1>10, <2>1, <4>2, <5>1
      <4> QED
        BY <4>1, <4>2
    <3> QED
      BY <3>1, <3>2, <3>3, <3>4
  <2> QED
    BY <1>3, <2>1 DEF SharingIncludes, PairOf, share_map_
<1> QED
  BY <1>12, <1>13, <1>14, <1>15 DEF HolderInv

LEMMA Flattened ==
  ASSUME NEW S, NEW seqs \in Seq(Seq(S)), Len(seqs) <= 2
  PROVE  FlattenSeq(seqs) \in Seq(S)
<1> DEFINE n == Len(seqs)
           Body(f) == [i \in 1 .. n |-> IF i = 1 THEN seqs[i] ELSE f[i - 1] \o seqs[i]]
           flat == CHOOSE f : f = Body(f)
           g == [i \in 1 .. n |-> IF i = 1 THEN seqs[1] ELSE seqs[1] \o seqs[2]]
<1>0. n \in Nat /\ n <= 2 /\ DOMAIN seqs = 1 .. n /\ \A i \in 1 .. n : seqs[i] \in Seq(S)
  OBVIOUS
<1>1. CASE n = 0
  <2>1. seqs = <<>>
    <3>1. \A q \in Seq(Seq(S)) : Len(q) = 0 => q = <<>>
      OBVIOUS
    <3> QED
      BY <1>1, <3>1
  <2>2. FlattenSeq(seqs) = seqs
    BY <1>1 DEF FlattenSeq
  <2>3. <<>> \in Seq(S)
    OBVIOUS
  <2> QED
    BY <2>1, <2>2, <2>3
<1>2. CASE n # 0
  <2>1. FlattenSeq(seqs) = flat[n]
    BY <1>2 DEF FlattenSeq
  <2> HIDE DEF n
  <2>2. n = 1 \/ n = 2
    BY <1>0, <1>2
  <2>4. g = Body(g)
    <3>1. CASE n = 1
      <4>1. \A i \in 1 .. n : i = 1
        BY <3>1
      <4> QED
        BY <4>1
    <3>2. CASE n = 2
      <4>1. \A i \in 1 .. n : i = 1 \/ i = 2
        BY <3>2
      <4>2. g[1] = seqs[1]
        BY <3>2
      <4>3. \A i \in 1 .. n :
              (IF i = 1 THEN seqs[1] ELSE seqs[1] \o seqs[2])
                = IF i = 1 THEN seqs[i] ELSE g[i - 1] \o seqs[i]
        BY <4>1, <4>2
      <4> QED
        BY <4>3
    <3> QED
      BY <2>2, <3>1, <3>2
  <2>5. flat = Body(flat)
    <3> HIDE DEF Body, g
    <3> QED
      BY <2>4
  <2> HIDE DEF flat
  <2>6. 1 \in 1 .. n
    BY <2>2
  <2>7. flat[1] = seqs[1]
    BY <2>5, <2>6
  <2>8. n = 2 => flat[2] = flat[1] \o seqs[2]
    <3> SUFFICES ASSUME n = 2 PROVE flat[2] = flat[1] \o seqs[2]
      OBVIOUS
    <3>1. 2 \in 1 .. n /\ 2 # 1 /\ 2 - 1 = 1
      OBVIOUS
    <3> QED
      BY <2>5, <3>1
  <2>9. \A p, q \in Seq(S) : p \o q \in Seq(S)
    OBVIOUS
  <2>10. seqs[1] \in Seq(S) /\ (n = 2 => seqs[2] \in Seq(S))
    <3>1. n = 2 => 2 \in 1 .. n
      OBVIOUS
    <3> QED
      BY <1>0, <2>6, <3>1
  <2>11. flat[n] \in Seq(S)
    BY <2>2, <2>7, <2>8, <2>9, <2>10
  <2> QED
    BY <2>1, <2>11
<1> QED
  BY <1>1, <1>2

LEMMA FetchedBlocks ==
  ASSUME NEW fetches \in Seq(Access_), Len(fetches) <= 2
  PROVE  FlattenSeq([i \in DOMAIN fetches |->
                       BlocksOfAccess(fetches[i].address, fetches[i].size)]) \in Seq(Addr)
<1> DEFINE parts == [i \in DOMAIN fetches |->
                       BlocksOfAccess(fetches[i].address, fetches[i].size)]
<1>1. Nat \subseteq Addr
  BY DEF Addr, Hole
<1>2. \A i \in DOMAIN fetches : fetches[i].address \in Nat /\ fetches[i].size \in Nat
  <2>1. \A i \in DOMAIN fetches : fetches[i] \in Access_
    OBVIOUS
  <2>2. \A a \in Access_ : a.address \in Nat /\ a.size \in Nat
    BY DEF Access_
  <2> QED
    BY <2>1, <2>2
<1>3. \A i \in DOMAIN fetches :
        BlocksOfAccess(fetches[i].address, fetches[i].size) \in Seq(Addr)
  <2>1. \A m, k \in Nat : BlocksOfAccess(m, k) \in Seq(Nat)
    BY AccessBlocksOf
  <2>2. \A q \in Seq(Nat) : q \in Seq(Addr)
    BY <1>1
  <2> QED
    BY <1>2, <2>1, <2>2, Zenon
<1>4. parts \in Seq(Seq(Addr)) /\ Len(parts) = Len(fetches)
  BY <1>3
<1> HIDE DEF parts
<1>5. FlattenSeq(parts) \in Seq(Addr)
  BY <1>4, Flattened
<1> QED
  BY <1>5 DEF parts

\* What a fetch does to the stacks.
LEMMA FetchEffect ==
  ASSUME StacksInv, NEW t \in Thread, NEW fetches \in Seq(Access_), Len(fetches) <= 2,
         Fetch(t, fetches)
  PROVE  /\ UNCHANGED <<setup, global_enable_, threads_seen_, threads_enabled_, single_stacks_,
                        lazy_stacks_, oracular_stacks_, pair_share_stacks_,
                        simulated_shared_stack_, buffered_accesses_, written>>
         /\ setup.do_fetch /\ t \in threads_seen_
         /\ sim_stacks_' \in [Used("sim") -> Sound]
         /\ \A k \in Used("sim") : InBlocks(sim_stacks_, k) \subseteq InBlocks(sim_stacks_', k)
         /\ \A k \in Used("sim") : k # t => InBlocks(sim_stacks_', k) = InBlocks(sim_stacks_, k)
         /\ \A k \in Used("sim") : Known(sim_stacks_[k]) \subseteq Known(sim_stacks_'[k])
<1> DEFINE parts == [i \in DOMAIN fetches |->
                       BlocksOfAccess(fetches[i].address, fetches[i].size)]
           blocks == FlattenSeq(parts)
<1>1. /\ UNCHANGED <<setup, global_enable_, threads_seen_, threads_enabled_, single_stacks_,
                     lazy_stacks_, oracular_stacks_, pair_share_stacks_,
                     simulated_shared_stack_, buffered_accesses_, written>>
      /\ setup.do_fetch /\ threads_enabled_[t]
      /\ sim_stacks_' = [sim_stacks_ EXCEPT ![t] = AccessBlocks(@, blocks)]
  BY DEF Fetch, Recording
<1>2. t \in threads_seen_ /\ sim_stacks_ \in [Used("sim") -> Sound]
  BY <1>1 DEF StacksInv
<1>3. blocks \in Seq(Addr)
  BY FetchedBlocks
<1> HIDE DEF blocks
<1>4. \A s \in Sound : /\ AccessBlocks(s, blocks) \in Sound
                       /\ BlocksOf(s.list) \subseteq BlocksOf(AccessBlocks(s, blocks).list)
                       /\ Known(s) \subseteq Known(AccessBlocks(s, blocks))
  BY <1>3, AccessBlocksEffect
<1>5. /\ sim_stacks_' \in [Used("sim") -> Sound]
      /\ \A k \in Used("sim") :
           sim_stacks_'[k] = IF k = t THEN AccessBlocks(sim_stacks_[k], blocks) ELSE sim_stacks_[k]
  BY <1>1, <1>2, <1>4
<1>6. /\ \A k \in Used("sim") : InBlocks(sim_stacks_, k) \subseteq InBlocks(sim_stacks_', k)
      /\ \A k \in Used("sim") : k # t => InBlocks(sim_stacks_', k) = InBlocks(sim_stacks_, k)
  BY <1>2, <1>4, <1>5 DEF InBlocks
<1>7. \A k \in Used("sim") : Known(sim_stacks_[k]) \subseteq Known(sim_stacks_'[k])
  BY <1>2, <1>4, <1>5
<1> QED
  BY <1>1, <1>2, <1>5, <1>6, <1>7

\* With the misses among the distances of the thread, and nothing else, is counted.
CountsAfter(t) ==
  \A k \in Used("sim") :
    IF k = t THEN Counts(sim_stacks_[k], sim_stacks_'[k], sim_stacks_'[k].dists)
    ELSE /\ sim_stacks_'[k].coldCount = sim_stacks_[k].coldCount
         /\ sim_stacks_'[k].coherenceMisses = sim_stacks_[k].coherenceMisses

LEMMA AccessCounts ==
  ASSUME StacksInv, Uses("sim"), NEW t \in threads_seen_, NEW a \in Access_,
         NEW is_write \in BOOLEAN, NEW requested \in SUBSET Addr,
         Access(t, a, is_write, requested)
  PROVE  CountsAfter(t)
<1> DEFINE D == Used("sim")
           first == Accessing(sim_stacks_, t, a)
           second == Snooped(first, t, a, is_write)
           same(s, r) == r.coldCount = s.coldCount /\ r.coherenceMisses = s.coherenceMisses
<1>1. sim_stacks_ \in [D -> Sound] /\ t \in D /\ a.address \in Nat /\ a.size \in Nat
  BY DEF StacksInv, Used, Access_
<1>2. sim_stacks_' = Prefetched(second, t, requested)
  BY DEF Access
<1>3. first \in [D -> Sound] /\ second \in [D -> Sound]
  <2>1. first \in [D -> Sound]
    BY <1>1, AccessingEffect
  <2> HIDE DEF first
  <2> QED
    BY <1>1, <2>1, SnoopedEffect
<1>4. /\ Counts(sim_stacks_[t], first[t], first[t].dists)
      /\ \A k \in D : k # t => first[k] = sim_stacks_[k]
  <2> DEFINE s == AccessStack(sim_stacks_[t], a.address, a.size)
  <2>1. BlocksOfAccess(a.address, a.size) \in Seq(Addr)
    <3>1. \A q \in Seq(Nat) : q \in Seq(Addr)
      BY DEF Addr, Hole
    <3> QED
      BY <1>1, <3>1, AccessBlocksOf
  <2>2. Counts(sim_stacks_[t], s, s.dists)
    BY <1>1, <2>1, AccessBlocksCounts DEF AccessStack
  <2>3. first = [sim_stacks_ EXCEPT ![t] = s]
    BY DEF Accessing
  <2> HIDE DEF s, first
  <2>4. first[t] = s /\ \A k \in D : k # t => first[k] = sim_stacks_[k]
    BY <1>1, <2>3
  <2> QED
    BY <2>2, <2>4
<1> HIDE DEF first, D
<1>5. second[t] = first[t] /\ \A k \in D : k # t => same(first[k], second[k])
  <2>1. DOMAIN first = D /\ a.address \in Int
    BY <1>1, <1>3
  <2>2. \A k \in D : second[k] = IF is_write /\ k # t THEN Snoop(first[k], a.address)
                                 ELSE first[k]
    BY <2>1 DEF Snooped
  <2>3. \A k \in D : same(first[k], Snoop(first[k], a.address))
    BY <1>3, <2>1, OthersCountNothing
  <2> QED
    BY <1>1, <2>2, <2>3
<1> HIDE DEF second
<1>6. \A k \in D : same(second[k], sim_stacks_'[k]) /\ sim_stacks_'[k].dists = second[k].dists
  <2>1. CASE requested = {}
    BY <1>2, <2>1 DEF Prefetched
  <2>2. CASE requested # {}
    <3> DEFINE b == CHOOSE b \in requested : TRUE
               s == Prefetch(second[t], b * blockBytes)
    <3>1. b \in requested /\ b \in Addr
      BY <2>2
    <3>2. sim_stacks_' = [second EXCEPT ![t] = s]
      BY <1>2, <2>2 DEF Prefetched
    <3> HIDE DEF b
    <3>3. b * blockBytes \in Int
      BY <3>1, BlockAssumption DEF Addr
    <3>4. same(second[t], s) /\ s.dists = second[t].dists
      BY <1>1, <1>3, <3>3, OthersCountNothing
    <3> HIDE DEF s
    <3> QED
      BY <1>3, <3>2, <3>4
  <2> QED
    BY <2>1, <2>2
<1>7. Counts(sim_stacks_[t], sim_stacks_'[t], sim_stacks_'[t].dists)
  BY <1>1, <1>4, <1>5, <1>6 DEF Counts
<1>8. \A k \in D : k # t => same(sim_stacks_[k], sim_stacks_'[k])
  BY <1>4, <1>5, <1>6
<1> QED
  BY <1>7, <1>8 DEF CountsAfter, D

LEMMA FetchCounts ==
  ASSUME StacksInv, Uses("sim"), NEW t \in threads_seen_, NEW fetches \in Seq(Access_),
         Len(fetches) <= 2, Fetch(t, fetches)
  PROVE  CountsAfter(t)
<1> DEFINE blocks == FlattenSeq([i \in DOMAIN fetches |->
                                   BlocksOfAccess(fetches[i].address, fetches[i].size)])
           s == AccessBlocks(sim_stacks_[t], blocks)
<1>1. sim_stacks_ \in [Used("sim") -> Sound] /\ t \in Used("sim")
  BY DEF StacksInv, Used
<1>2. blocks \in Seq(Addr)
  BY FetchedBlocks
<1>3. sim_stacks_' = [sim_stacks_ EXCEPT ![t] = s]
  BY DEF Fetch
<1> HIDE DEF blocks
<1>4. Counts(sim_stacks_[t], s, s.dists)
  BY <1>1, <1>2, AccessBlocksCounts
<1> HIDE DEF s
<1>5. \A k \in Used("sim") : sim_stacks_'[k] = IF k = t THEN s ELSE sim_stacks_[k]
  BY <1>1, <1>3
<1> QED
  BY <1>1, <1>4, <1>5 DEF CountsAfter

LEMMA FetchKeeps ==
  ASSUME HolderInv, NEW t \in Thread, NEW fetches \in Seq(Access_), Len(fetches) <= 2,
         Fetch(t, fetches)
  PROVE  HolderInv'
<1>1. StacksInv
  BY DEF HolderInv
<1>2. /\ UNCHANGED <<setup, global_enable_, threads_seen_, threads_enabled_, single_stacks_,
                     lazy_stacks_, oracular_stacks_, pair_share_stacks_,
                     simulated_shared_stack_, buffered_accesses_, written>>
      /\ setup.do_fetch
      /\ sim_stacks_' \in [Used("sim") -> Sound]
      /\ \A k \in Used("sim") : InBlocks(sim_stacks_, k) \subseteq InBlocks(sim_stacks_', k)
  BY <1>1, FetchEffect
<1>3. StacksInv'
  BY <1>1, <1>2 DEF StacksInv, Used, Uses, PairsSeen
<1>4. LazyInv'
  <2>1. Uses("sim") => Used("sim") = threads_seen_
    BY DEF Used
  <2> QED
    BY <1>2, <2>1 DEF HolderInv, LazyInv, Uses
<1>5. ~OnlyDemand /\ ~OnlyDemand'
  BY <1>2 DEF OnlyDemand
<1>6. OracularInv'
  BY <1>5 DEF OracularInv
<1>7. SharingIncludes'
  BY <1>2, <1>5 DEF HolderInv, SharingIncludes, Uses
<1> QED
  BY <1>3, <1>4, <1>6, <1>7 DEF HolderInv

\* The end of a region takes the buffered writes of the others from a lazy stack, and
\* brings an oracular one up to date.
LEMMA RegionEffect ==
  ASSUME StacksInv, EndParallelRegion
  PROVE  /\ lazy_stacks_' \in [Used("lazy") -> Sound]
         /\ \A t \in Used("lazy") :
              InBlocks(lazy_stacks_', t) = InBlocks(lazy_stacks_, t) \ WrittenByOthers(t)
         /\ oracular_stacks_' \in [Used("oracular") -> Sound]
         /\ \A t \in Used("oracular") :
              InBlocks(oracular_stacks_', t) =
                (InBlocks(oracular_stacks_, t) \ WrittenByOthers(t))
                  \cup TouchesIn(buffered_accesses_[t])
<1>1. /\ lazy_stacks_ \in [Used("lazy") -> Sound]
      /\ oracular_stacks_ \in [Used("oracular") -> Sound]
      /\ buffered_accesses_ \in [Thread -> Seq(Ref)] /\ threads_seen_ \subseteq Thread
  BY DEF StacksInv
<1>2. IsFiniteSet(threads_seen_)
  <2>1. IsFiniteSet(0 .. 8)
    <3>1. 0 \in Int /\ 8 \in Int
      OBVIOUS
    <3> QED
      BY <3>1, FS_Interval
  <2>2. threads_seen_ \subseteq 0 .. 8
    BY <1>1, StackHolderAssumption
  <2> QED
    BY <2>1, <2>2, FS_Subset
<1>3. \A u \in threads_seen_ : buffered_accesses_[u] \in Seq(Ref)
  BY <1>1
<1>4. \A s \in Sound, t \in Thread :
        /\ AfterOthersWrites(s, t) \in Sound
        /\ BlocksOf(AfterOthersWrites(s, t).list) = BlocksOf(s.list) \ WrittenByOthers(t)
  BY <1>2, <1>3, AfterOthersEffect DEF WrittenByOthers
<1>5. \A s \in Sound, t \in Thread :
        /\ AfterRegion(s, t) \in Sound
        /\ BlocksOf(AfterRegion(s, t).list)
             = (BlocksOf(s.list) \ WrittenByOthers(t)) \cup TouchesIn(buffered_accesses_[t])
  <2> SUFFICES ASSUME NEW s \in Sound, NEW t \in Thread
               PROVE  /\ AfterRegion(s, t) \in Sound
                      /\ BlocksOf(AfterRegion(s, t).list)
                           = (BlocksOf(s.list) \ WrittenByOthers(t))
                               \cup TouchesIn(buffered_accesses_[t])
    OBVIOUS
  <2> DEFINE r == AfterOthersWrites(s, t)
  <2>1. r \in Sound /\ BlocksOf(r.list) = BlocksOf(s.list) \ WrittenByOthers(t)
    BY <1>4
  <2>2. buffered_accesses_[t] \in Seq(Ref)
    BY <1>1
  <2>3. AfterRegion(s, t) = FoldLeft(ReplayOwn, r, buffered_accesses_[t])
    BY DEF AfterRegion
  <2> HIDE DEF r
  <2>4. /\ FoldLeft(ReplayOwn, r, buffered_accesses_[t]) \in Sound
        /\ BlocksOf(FoldLeft(ReplayOwn, r, buffered_accesses_[t]).list)
             = BlocksOf(r.list) \cup TouchesIn(buffered_accesses_[t])
    BY <2>1, <2>2, ReplayOwnsEffect
  <2> QED
    BY <2>1, <2>3, <2>4
<1>6. Used("lazy") \subseteq Thread /\ Used("oracular") \subseteq Thread
  BY <1>1 DEF Used
<1>7. /\ lazy_stacks_' = [t \in Used("lazy") |-> AfterOthersWrites(lazy_stacks_[t], t)]
      /\ oracular_stacks_' = [t \in Used("oracular") |-> AfterRegion(oracular_stacks_[t], t)]
  BY <1>1 DEF EndParallelRegion
<1>8. /\ lazy_stacks_' \in [Used("lazy") -> Sound]
      /\ \A t \in Used("lazy") :
           InBlocks(lazy_stacks_', t) = InBlocks(lazy_stacks_, t) \ WrittenByOthers(t)
  BY <1>1, <1>4, <1>6, <1>7 DEF InBlocks
<1>9. /\ oracular_stacks_' \in [Used("oracular") -> Sound]
      /\ \A t \in Used("oracular") :
           InBlocks(oracular_stacks_', t) =
             (InBlocks(oracular_stacks_, t) \ WrittenByOthers(t))
               \cup TouchesIn(buffered_accesses_[t])
  BY <1>1, <1>5, <1>6, <1>7 DEF InBlocks
<1> QED
  BY <1>8, <1>9

LEMMA EndParallelRegionKeeps ==
  ASSUME HolderInv, EndParallelRegion
  PROVE  HolderInv'
<1>1. StacksInv /\ LazyInv /\ OracularInv /\ SharingIncludes
  BY DEF HolderInv
<1>2. /\ UNCHANGED <<setup, global_enable_, threads_seen_, threads_enabled_, single_stacks_,
                     sim_stacks_, pair_share_stacks_, simulated_shared_stack_>>
      /\ written' = {}
      /\ buffered_accesses_' = [t \in Thread |-> IF Uses("oracular") /\ t \in threads_seen_
                                                   THEN <<>> ELSE buffered_accesses_[t]]
  BY DEF EndParallelRegion
<1>3. StacksInv'
  <2>1. buffered_accesses_' \in [Thread -> Seq(Ref)]
    BY <1>1, <1>2 DEF StacksInv
  <2>2. \A t \in Thread \ threads_seen_ : buffered_accesses_'[t] = <<>>
    BY <1>1, <1>2 DEF StacksInv
  <2>3. lazy_stacks_' \in [Used("lazy") -> Sound] /\ oracular_stacks_' \in [Used("oracular") -> Sound]
    BY <1>1, RegionEffect
  <2> QED
    BY <1>1, <1>2, <2>1, <2>2, <2>3 DEF StacksInv, Used, Uses, PairsSeen
<1>4. LazyInv'
  <2>1. ASSUME Uses("sim"), Uses("lazy"), NEW t \in threads_seen_, NEW b \in InBlocks(lazy_stacks_', t)
        PROVE  b \in InBlocks(sim_stacks_, t)
    <3>1. b \in InBlocks(lazy_stacks_, t) /\ b \notin WrittenByOthers(t)
      <4>1. t \in Used("lazy")
        BY <2>1 DEF Used
      <4> QED
        BY <1>1, <2>1, <4>1, RegionEffect
    <3>2. \A u \in threads_seen_ \ {t} : <<u, b>> \notin written
      <4> SUFFICES ASSUME NEW u \in threads_seen_ \ {t}, <<u, b>> \in written PROVE FALSE
        OBVIOUS
      <4>1. b \in WritesIn(buffered_accesses_[u])
        BY <1>1 DEF LazyInv
      <4> QED
        BY <3>1, <4>1 DEF WrittenByOthers
    <3> QED
      BY <1>1, <2>1, <3>1, <3>2 DEF LazyInv
  <2> QED
    BY <1>2, <2>1 DEF LazyInv, Uses
<1>5. OracularInv'
  <2>1. ASSUME Uses("sim"), Uses("oracular"), OnlyDemand, SizesFit, NEW t \in threads_seen_
        PROVE  InBlocks(sim_stacks_, t) \subseteq
                 InBlocks(oracular_stacks_', t)
                   \ UNION {WritesIn(buffered_accesses_'[u]) : u \in threads_seen_ \ {t}}
    <3>1. t \in Used("oracular")
      BY <2>1 DEF Used
    <3>2. InBlocks(sim_stacks_, t) \subseteq InBlocks(oracular_stacks_', t)
      BY <1>1, <2>1, <3>1, RegionEffect DEF OracularInv
    <3>3. \A u \in threads_seen_ : WritesIn(buffered_accesses_'[u]) = {}
      BY <1>1, <1>2, <2>1, NothingBuffered DEF StacksInv
    <3> QED
      BY <3>2, <3>3
  <2>2. /\ Uses("sim")' = Uses("sim") /\ Uses("oracular")' = Uses("oracular")
        /\ OnlyDemand' = OnlyDemand /\ SizesFit' = SizesFit
    BY <1>2 DEF Uses, OnlyDemand, SizesFit
  <2> QED
    BY <1>2, <2>1, <2>2 DEF OracularInv, WrittenByOthers
<1>6. SharingIncludes'
  BY <1>1, <1>2 DEF SharingIncludes, Uses, OnlyDemand
<1> QED
  BY <1>3, <1>4, <1>5, <1>6 DEF HolderInv

LEMMA HolderInvIsKept ==
  ASSUME HolderInv, StackStep \/ UNCHANGED vars
  PROVE  HolderInv'
<1>1. ASSUME NEW t \in Thread, NEW a \in Access_, NEW is_write \in BOOLEAN,
             NEW requested \in SUBSET Addr, requested # {} => setup.do_prefetch, Fits(a),
             Access(t, a, is_write, requested)
      PROVE  HolderInv'
  <2>1. StacksInv /\ LazyInv /\ OracularInv /\ SharingIncludes
    BY DEF HolderInv
  <2>2. StacksInv'
    BY <1>1, <2>1, AccessParts
  <2>3. LazyInv'
    BY <1>1, <2>1, AccessKeepsLazy
  <2>4. OracularInv'
    BY <1>1, <2>1, AccessKeepsOracular
  <2>5. SharingIncludes'
    BY <1>1, <2>1, AccessKeepsSharing
  <2> QED
    BY <2>2, <2>3, <2>4, <2>5 DEF HolderInv
<1>2. ASSUME NEW t \in Thread, NEW fetches \in Seq(Access_), Len(fetches) <= 2, Fetch(t, fetches)
      PROVE  HolderInv'
  BY <1>2, FetchKeeps
<1>3. ASSUME NEW t \in Thread, Allocate(t) PROVE HolderInv'
  BY <1>3, AllocateKeeps
<1>4. ASSUME NEW t \in Thread, NEW enable \in BOOLEAN, SetThreadEnabled(t, enable)
      PROVE  HolderInv'
  BY <1>4, SetThreadEnabledKeeps
<1>5. ASSUME EndParallelRegion PROVE HolderInv'
  BY <1>5, EndParallelRegionKeeps
<1>6. ASSUME NEW enable \in BOOLEAN, set_global_enable(enable) PROVE HolderInv'
  BY <1>6, SetGlobalEnableKeeps
<1>7. ASSUME UNCHANGED vars PROVE HolderInv'
  BY <1>7, UnchangedKeeps
<1> QED
  BY <1>1, <1>2, <1>3, <1>4, <1>5, <1>6, <1>7 DEF StackStep

LEMMA HolderInvHolds ==
  ASSUME NEW enable \in BOOLEAN, InitStacks(enable)
  PROVE  HolderInv
<1>1. /\ setup \in Setups /\ global_enable_ = enable /\ threads_seen_ = {}
      /\ threads_enabled_ = [t \in Thread |-> FALSE]
      /\ single_stacks_ = <<>> /\ sim_stacks_ = <<>> /\ lazy_stacks_ = <<>>
      /\ oracular_stacks_ = <<>> /\ pair_share_stacks_ = <<>> /\ simulated_shared_stack_ = <<>>
      /\ buffered_accesses_ = [t \in Thread |-> <<>>] /\ written = {}
  BY DEF InitStacks
<1>2. (\A kind : Used(kind) = {}) /\ PairsSeen = {}
  BY <1>1 DEF Used, PairsSeen
<1>3. <<>> \in [{} -> Sound]
  OBVIOUS
<1>4. StacksInv
  <2>1. buffered_accesses_ \in [Thread -> Seq(Ref)]
    BY <1>1
  <2> QED
    BY <1>1, <1>2, <1>3, <2>1 DEF StacksInv
<1>5. LazyInv /\ OracularInv /\ SharingIncludes
  BY <1>1 DEF LazyInv, OracularInv, SharingIncludes
<1> QED
  BY <1>4, <1>5 DEF HolderInv

\* The steps of StackHolder by itself.
LEMMA NextIsStackStep ==
  ASSUME HolderInv, Next
  PROVE  StackStep
<1>1. setup \in Setups
  BY DEF HolderInv, StacksInv
<1>2. setup.accesses \subseteq Access_
  BY <1>1, StackHolderAssumption DEF Access_
<1>3. \A requested \in Requests :
        requested \in SUBSET Addr /\ (requested # {} => setup.do_prefetch)
  <2>1. setup.requests \subseteq Block /\ (setup.requests # {} => setup.do_prefetch)
    BY <1>1, StackHolderAssumption
  <2>2. Block \subseteq Addr
    BY BlockAssumption DEF Addr, Hole
  <2> QED
    BY <2>1, <2>2 DEF Requests
<1>4. ASSUME NEW t \in Thread, NEW a \in setup.accesses, NEW is_write \in BOOLEAN,
             NEW requested \in Requests, Access(t, a, is_write, requested)
      PROVE  StackStep
  <2>1. /\ a \in Access_ /\ requested \in SUBSET Addr
        /\ requested # {} => setup.do_prefetch
    BY <1>2, <1>3
  <2>2. Fits(a)
    BY DEF Fits, SizesFit
  <2> QED
    BY <1>4, <2>1, <2>2 DEF StackStep
<1>5. ASSUME NEW t \in Thread, NEW a \in setup.accesses, Fetch(t, <<a>>) PROVE StackStep
  <2>1. <<a>> \in Seq(Access_) /\ Len(<<a>>) <= 2
    BY <1>2
  <2> QED
    BY <1>5, <2>1 DEF StackStep
<1> QED
  BY <1>4, <1>5 DEF Next, StackStep

LEMMA HolderInvIsInvariant == Spec => []HolderInv
<1>1. Init => HolderInv
  BY HolderInvHolds DEF Init
<1>2. HolderInv /\ [Next]_vars => HolderInv'
  BY NextIsStackStep, HolderInvIsKept
<1> QED
  BY <1>1, <1>2, PTL DEF Spec

-----------------------------------------------------------------------------
(* What the stacks have in common                                          *)

LEMMA MissesFollow == HolderInv => MissesAreAccounted
<1> SUFFICES ASSUME HolderInv, NEW s \in AllStacks PROVE Accounted(s)
  BY DEF MissesAreAccounted, Accounted, Missing
<1>1. s \in Sound
  BY DEF HolderInv, StacksInv, AllStacks, Ranges
<1> QED
  BY <1>1 DEF Sound

LEMMA PeriodsFollow == HolderInv => PeriodsAgree
<1> SUFFICES ASSUME HolderInv, NEW t \in threads_seen_, Uses("sim"), OnlyDemand
             PROVE  /\ Uses("lazy") /\ written = {} =>
                         InBlocks(lazy_stacks_, t) \subseteq InBlocks(sim_stacks_, t)
                    /\ Uses("oracular") /\ SizesFit /\ NothingIsBuffered =>
                         InBlocks(sim_stacks_, t) \subseteq InBlocks(oracular_stacks_, t)
  BY DEF PeriodsAgree
<1>1. Uses("lazy") /\ written = {} =>
        InBlocks(lazy_stacks_, t) \subseteq InBlocks(sim_stacks_, t)
  BY DEF HolderInv, LazyInv
<1>2. ASSUME Uses("oracular"), SizesFit, NothingIsBuffered
      PROVE  InBlocks(sim_stacks_, t) \subseteq InBlocks(oracular_stacks_, t)
  <2>1. TouchesIn(buffered_accesses_[t]) = {}
    BY <1>2, NothingBuffered DEF HolderInv, StacksInv, NothingIsBuffered
  <2> QED
    BY <1>2, <2>1 DEF HolderInv, OracularInv
<1> QED
  BY <1>1, <1>2

\* StackHolder::Access and its callees: at any time and in every stack of a thread, of a
\* pair or of all, each miss is a first access or follows an invalidation of its own.
THEOREM MissesAreExplained == Spec => []MissesAreAccounted
  BY HolderInvIsInvariant, MissesFollow, PTL

\* StackHolder::EndParallelRegion: the invalidations at once, at the end of a region and
\* ahead of it leave the blocks in the order of the three times.  That the first are among
\* the last is for programs whose accesses are shorter than 256 bytes.
THEOREM PeriodsAreOrdered == Spec => []PeriodsAgree
  BY HolderInvIsInvariant, PeriodsFollow, PTL

\* StackHolder::Access: a pair has what its threads have, the shared stack what any has.
THEOREM SharedIncludesPrivate == Spec => []SharingIncludes
<1>1. HolderInv => SharingIncludes
  BY DEF HolderInv
<1> QED
  BY <1>1, HolderInvIsInvariant, PTL

-----------------------------------------------------------------------------
(* Coherent caches                                                         *)

LEMMA CopiesOf ==
  ASSUME NEW stacks, NEW b \in Block
  PROVE  /\ DOMAIN Copies(stacks) = Block
         /\ Copies(stacks)[b] = {k \in DOMAIN stacks : b \in InBlocks(stacks, k)}
  BY DEF Copies

\* An access changes the copies as a read or a write of its cache does.
LEMMA CopiesAfter ==
  ASSUME NEW D, NEW s, NEW r, DOMAIN s = D, DOMAIN r = D, NEW c \in D,
         NEW first, NEW is_write \in BOOLEAN,
         \A k \in D : k # c =>
           InBlocks(r, k) = IF is_write THEN InBlocks(s, k) \ {first} ELSE InBlocks(s, k),
         InBlocks(s, c) \subseteq InBlocks(r, c), is_write => first \in InBlocks(r, c)
  PROVE  /\ DOMAIN Copies(r) = Block
         /\ \A b \in Block :
              (is_write => b # first) => Copies(r)[b] \in {Copies(s)[b], Copies(s)[b] \cup {c}}
         /\ is_write /\ first \in Block => Copies(r)[first] = {c}
<1>1. DOMAIN Copies(r) = Block
  BY DEF Copies
<1>2. ASSUME NEW b \in Block, is_write => b # first
      PROVE  Copies(r)[b] \in {Copies(s)[b], Copies(s)[b] \cup {c}}
  <2> DEFINE had == {k \in D : b \in InBlocks(s, k)}
             has == {k \in D : b \in InBlocks(r, k)}
  <2>1. Copies(s)[b] = had /\ Copies(r)[b] = has
    BY CopiesOf
  <2>2. \A k \in D : k # c => (b \in InBlocks(r, k) <=> b \in InBlocks(s, k))
    BY <1>2
  <2>3. c \in has => has = had \cup {c}
    BY <2>2
  <2>4. c \notin has => has = had
    BY <2>2
  <2> QED
    BY <2>1, <2>3, <2>4
<1>3. ASSUME is_write, first \in Block PROVE Copies(r)[first] = {c}
  <2>1. Copies(r)[first] = {k \in D : first \in InBlocks(r, k)}
    BY <1>3, CopiesOf
  <2> QED
    BY <1>3, <2>1
<1> QED
  BY <1>1, <1>2, <1>3

\* Stacks that are added empty are no copies.
LEMMA CopiesWithNew ==
  ASSUME NEW D, NEW E, NEW s, NEW r, DOMAIN s = D, DOMAIN r = E, D \subseteq E,
         \A k \in D : InBlocks(r, k) = InBlocks(s, k),
         \A k \in E \ D : InBlocks(r, k) = {}
  PROVE  Copies(r) = Copies(s)
<1>1. \A b \in Block : {k \in E : b \in InBlocks(r, k)} = {k \in D : b \in InBlocks(s, k)}
  OBVIOUS
<1> QED
  BY <1>1 DEF Copies

SimStep == [Sim!Next]_(Copies(sim_stacks_))
PairsStep == [Pairs!Next]_(Copies(pair_share_stacks_))

LEMMA AccessIsCoherent ==
  ASSUME StacksInv, NEW t \in Thread, NEW a \in Access_, NEW is_write \in BOOLEAN,
         NEW requested \in SUBSET Addr, Access(t, a, is_write, requested)
  PROVE  SimStep /\ PairsStep
<1>1. t \in threads_seen_ /\ StacksInv' /\ AccessEffects(t, a, is_write, requested)
  BY AccessParts
<1>2. First(a) \in Touches(a)
  BY FirstIsTouched
<1>3. /\ \A kind : Used(kind)' = Used(kind)
      /\ PairsSeen' = PairsSeen /\ Uses("shared")' = Uses("shared")
  BY DEF Access, Uses, Used, PairsSeen
<1>4. SimStep
  <2>1. CASE Uses("sim")
    <3>1. Used("sim") = threads_seen_
      BY <2>1 DEF Used
    <3>2. DOMAIN sim_stacks_ = threads_seen_ /\ DOMAIN sim_stacks_' = threads_seen_
      BY <1>1, <1>3, <3>1 DEF StacksInv
    <3>3. PICK R \in SUBSET requested :
            \A k \in threads_seen_ :
              InBlocks(sim_stacks_', k) =
                IF k = t THEN InBlocks(sim_stacks_, k) \cup Touches(a) \cup R
                ELSE IF is_write THEN InBlocks(sim_stacks_, k) \ {First(a)}
                ELSE InBlocks(sim_stacks_, k)
      BY <1>1, <2>1 DEF AccessEffects
    <3>4. /\ DOMAIN Copies(sim_stacks_') = Block
          /\ \A b \in Block : (is_write => b # First(a)) =>
               Copies(sim_stacks_')[b] \in {Copies(sim_stacks_)[b], Copies(sim_stacks_)[b] \cup {t}}
          /\ is_write /\ First(a) \in Block => Copies(sim_stacks_')[First(a)] = {t}
      <4>1. \A k \in threads_seen_ : k # t =>
              InBlocks(sim_stacks_', k) =
                IF is_write THEN InBlocks(sim_stacks_, k) \ {First(a)} ELSE InBlocks(sim_stacks_, k)
        BY <3>3
      <4>2. /\ InBlocks(sim_stacks_, t) \subseteq InBlocks(sim_stacks_', t)
            /\ is_write => First(a) \in InBlocks(sim_stacks_', t)
        BY <1>1, <1>2, <3>3
      <4> QED
        BY <1>1, <3>2, <4>1, <4>2, CopiesAfter
    <3>5. CASE is_write /\ First(a) \in Block
      <4>1. Sim!Write(t, First(a))
        BY <3>4, <3>5 DEF Sim!Write, Sim!MayGet
      <4> QED
        BY <3>4, <3>5, <4>1 DEF SimStep, Sim!Next
    <3>6. CASE ~(is_write /\ First(a) \in Block)
      <4>1. Sim!Read(t)
        BY <3>4, <3>6 DEF Sim!Read, Sim!MayGet
      <4> QED
        BY <3>4, <4>1 DEF SimStep, Sim!Next
    <3> QED
      BY <3>5, <3>6
  <2>2. CASE ~Uses("sim")
    <3>1. sim_stacks_' = sim_stacks_
      BY <2>2 DEF Access
    <3> QED
      BY <3>1 DEF SimStep
  <2> QED
    BY <2>1, <2>2
<1>5. PairsStep
  <2>1. CASE Uses("shared")
    <3> DEFINE p == PairOf(t)
    <3>1. p \in PairsSeen /\ p \in {PairOf(u) : u \in Thread}
      BY <1>1 DEF PairsSeen
    <3>2. DOMAIN pair_share_stacks_ = PairsSeen /\ DOMAIN pair_share_stacks_' = PairsSeen
      BY <1>1, <1>3, <2>1 DEF StacksInv
    <3>3. \A k \in PairsSeen :
            InBlocks(pair_share_stacks_', k) =
              IF k = p THEN InBlocks(pair_share_stacks_, k) \cup Touches(a)
              ELSE IF is_write THEN InBlocks(pair_share_stacks_, k) \ {First(a)}
              ELSE InBlocks(pair_share_stacks_, k)
      BY <1>1, <2>1 DEF AccessEffects
    <3> HIDE DEF p
    <3>4. /\ DOMAIN Copies(pair_share_stacks_') = Block
          /\ \A b \in Block : (is_write => b # First(a)) =>
               Copies(pair_share_stacks_')[b]
                 \in {Copies(pair_share_stacks_)[b], Copies(pair_share_stacks_)[b] \cup {p}}
          /\ is_write /\ First(a) \in Block => Copies(pair_share_stacks_')[First(a)] = {p}
      <4>1. \A k \in PairsSeen : k # p =>
              InBlocks(pair_share_stacks_', k) =
                IF is_write THEN InBlocks(pair_share_stacks_, k) \ {First(a)}
                ELSE InBlocks(pair_share_stacks_, k)
        BY <3>3
      <4>2. /\ InBlocks(pair_share_stacks_, p) \subseteq InBlocks(pair_share_stacks_', p)
            /\ is_write => First(a) \in InBlocks(pair_share_stacks_', p)
        BY <1>2, <3>1, <3>3
      <4> QED
        BY <3>1, <3>2, <4>1, <4>2, CopiesAfter
    <3>5. CASE is_write /\ First(a) \in Block
      <4>1. Pairs!Write(p, First(a))
        BY <3>4, <3>5 DEF Pairs!Write, Pairs!MayGet
      <4> QED
        BY <3>1, <3>4, <3>5, <4>1 DEF PairsStep, Pairs!Next
    <3>6. CASE ~(is_write /\ First(a) \in Block)
      <4>1. Pairs!Read(p)
        BY <3>4, <3>6 DEF Pairs!Read, Pairs!MayGet
      <4> QED
        BY <3>1, <3>4, <4>1 DEF PairsStep, Pairs!Next
    <3> QED
      BY <3>5, <3>6
  <2>2. CASE ~Uses("shared")
    <3>1. pair_share_stacks_' = pair_share_stacks_
      BY <2>2 DEF Access
    <3> QED
      BY <3>1 DEF PairsStep
  <2> QED
    BY <2>1, <2>2
<1> QED
  BY <1>4, <1>5

LEMMA CopiesAfterRead ==
  ASSUME NEW D, NEW s, NEW r, DOMAIN s = D, DOMAIN r = D, NEW c \in D,
         \A k \in D : k # c => InBlocks(r, k) = InBlocks(s, k),
         InBlocks(s, c) \subseteq InBlocks(r, c)
  PROVE  /\ DOMAIN Copies(r) = Block
         /\ \A b \in Block : Copies(r)[b] \in {Copies(s)[b], Copies(s)[b] \cup {c}}
<1>1. PICK is_write \in BOOLEAN : ~is_write
  OBVIOUS
<1>2. PICK first : first = 0
  OBVIOUS
<1>3. \A k \in D : k # c =>
        InBlocks(r, k) = IF is_write THEN InBlocks(s, k) \ {first} ELSE InBlocks(s, k)
  BY <1>1
<1>4. is_write => first \in InBlocks(r, c)
  BY <1>1
<1>5. /\ DOMAIN Copies(r) = Block
      /\ \A b \in Block :
           (is_write => b # first) => Copies(r)[b] \in {Copies(s)[b], Copies(s)[b] \cup {c}}
      /\ is_write /\ first \in Block => Copies(r)[first] = {c}
  BY <1>1, <1>3, <1>4, CopiesAfter
<1> QED
  BY <1>1, <1>5

LEMMA FetchIsCoherent ==
  ASSUME StacksInv, NEW t \in Thread, NEW fetches \in Seq(Access_), Len(fetches) <= 2,
         Fetch(t, fetches)
  PROVE  SimStep /\ PairsStep
<1>1. /\ pair_share_stacks_' = pair_share_stacks_ /\ t \in threads_seen_
      /\ sim_stacks_' \in [Used("sim") -> Sound]
      /\ \A k \in Used("sim") : InBlocks(sim_stacks_, k) \subseteq InBlocks(sim_stacks_', k)
      /\ \A k \in Used("sim") : k # t => InBlocks(sim_stacks_', k) = InBlocks(sim_stacks_, k)
  BY FetchEffect
<1>2. PairsStep
  BY <1>1 DEF PairsStep
<1>3. DOMAIN sim_stacks_ = Used("sim") /\ DOMAIN sim_stacks_' = Used("sim")
  BY <1>1 DEF StacksInv
<1>4. CASE t \in Used("sim")
  <2>1. /\ DOMAIN Copies(sim_stacks_') = Block
        /\ \A b \in Block :
             Copies(sim_stacks_')[b] \in {Copies(sim_stacks_)[b], Copies(sim_stacks_)[b] \cup {t}}
    BY <1>1, <1>3, <1>4, CopiesAfterRead
  <2>2. Sim!Read(t)
    BY <2>1 DEF Sim!Read, Sim!MayGet
  <2> QED
    BY <1>2, <2>1, <2>2 DEF SimStep, Sim!Next
<1>5. CASE t \notin Used("sim")
  <2>1. Used("sim") = {}
    BY <1>1, <1>5 DEF Used
  <2>2. Copies(sim_stacks_') = Copies(sim_stacks_)
    BY <1>3, <2>1, CopiesWithNew
  <2> QED
    BY <1>2, <2>2 DEF SimStep
<1> QED
  BY <1>4, <1>5

LEMMA AllocateIsCoherent ==
  ASSUME StacksInv, NEW t \in Thread, Allocate(t)
  PROVE  SimStep /\ PairsStep
<1>1. /\ t \notin threads_seen_
      /\ sim_stacks_' = AddIf(Uses("sim"), sim_stacks_, t)
      /\ pair_share_stacks_' = AddIf(Uses("shared"), pair_share_stacks_, PairOf(t))
  BY DEF Allocate
<1>2. /\ sim_stacks_ \in [Used("sim") -> Sound]
      /\ pair_share_stacks_ \in [IF Uses("shared") THEN PairsSeen ELSE {} -> Sound]
  BY DEF StacksInv
<1>3. \A used, D, key : \A stacks \in [D -> Sound] :
        Copies(AddIf(used, stacks, key)) = Copies(stacks)
  <2> SUFFICES ASSUME NEW used, NEW D, NEW key, NEW stacks \in [D -> Sound]
               PROVE  Copies(AddIf(used, stacks, key)) = Copies(stacks)
    OBVIOUS
  <2>1. CASE used
    <3> DEFINE r == WithStack(stacks, key)
    <3>1. /\ r \in [D \cup {key} -> Sound]
          /\ \A k \in D : InBlocks(r, k) = InBlocks(stacks, k)
          /\ key \notin D => InBlocks(r, key) = {}
      BY WithStackEffect
    <3>2. AddIf(used, stacks, key) = r
      BY <2>1 DEF AddIf
    <3> HIDE DEF r
    <3>3. DOMAIN stacks = D /\ DOMAIN r = D \cup {key}
      BY <3>1
    <3>4. \A k \in (D \cup {key}) \ D : InBlocks(r, k) = {}
      BY <3>1
    <3>5. D \subseteq D \cup {key}
      OBVIOUS
    <3>6. Copies(r) = Copies(stacks)
      BY <3>1, <3>3, <3>4, <3>5, CopiesWithNew
    <3> QED
      BY <3>2, <3>6
  <2>2. CASE ~used
    BY <2>2 DEF AddIf
  <2> QED
    BY <2>1, <2>2
<1>4. /\ Copies(sim_stacks_') = Copies(sim_stacks_)
      /\ Copies(pair_share_stacks_') = Copies(pair_share_stacks_)
  BY <1>1, <1>2, <1>3
<1> QED
  BY <1>4 DEF SimStep, PairsStep

LEMMA StackStepIsCoherent ==
  ASSUME HolderInv, StackStep \/ UNCHANGED vars
  PROVE  SimStep /\ PairsStep
<1>1. StacksInv
  BY DEF HolderInv
<1>2. ASSUME UNCHANGED <<sim_stacks_, pair_share_stacks_>> PROVE SimStep /\ PairsStep
  BY <1>2 DEF SimStep, PairsStep
<1>3. ASSUME NEW t \in Thread, NEW a \in Access_, NEW is_write \in BOOLEAN,
             NEW requested \in SUBSET Addr, Access(t, a, is_write, requested)
      PROVE  SimStep /\ PairsStep
  BY <1>1, <1>3, AccessIsCoherent
<1>4. ASSUME NEW t \in Thread, NEW fetches \in Seq(Access_), Len(fetches) <= 2, Fetch(t, fetches)
      PROVE  SimStep /\ PairsStep
  BY <1>1, <1>4, FetchIsCoherent
<1>5. ASSUME NEW t \in Thread, Allocate(t) PROVE SimStep /\ PairsStep
  BY <1>1, <1>5, AllocateIsCoherent
<1>6. ASSUME NEW t \in Thread, NEW enable \in BOOLEAN, SetThreadEnabled(t, enable)
      PROVE  SimStep /\ PairsStep
  BY <1>2, <1>6 DEF SetThreadEnabled
<1>7. ASSUME EndParallelRegion PROVE SimStep /\ PairsStep
  BY <1>2, <1>7 DEF EndParallelRegion
<1>8. ASSUME NEW enable \in BOOLEAN, set_global_enable(enable) PROVE SimStep /\ PairsStep
  BY <1>2, <1>8 DEF set_global_enable
<1>9. ASSUME UNCHANGED vars PROVE SimStep /\ PairsStep
  BY <1>2, <1>9 DEF vars
<1> QED
  BY <1>3, <1>4, <1>5, <1>6, <1>7, <1>8, <1>9 DEF StackStep

LEMMA NoCopiesFirst ==
  ASSUME NEW enable \in BOOLEAN, InitStacks(enable)
  PROVE  Sim!Init /\ Pairs!Init
<1>1. sim_stacks_ = <<>> /\ pair_share_stacks_ = <<>>
  BY DEF InitStacks
<1>2. Copies(<<>>) = [b \in Block |-> {}]
  BY DEF Copies
<1> QED
  BY <1>1, <1>2 DEF Sim!Init, Pairs!Init

\* StackHolder::Access: with the invalidations, the private stacks are coherent caches,
\* and so are the stacks of pairs: a block is taken from a stack only by a write of
\* another, which is then the only one to have it.
THEOREM StacksAreCoherent == Spec => ImplementsCoherentCopies
<1>1. Init => Sim!Init /\ Pairs!Init
  BY NoCopiesFirst DEF Init
<1>2. HolderInv /\ [Next]_vars => SimStep /\ PairsStep
  BY NextIsStackStep, StackStepIsCoherent
<1> QED
  BY <1>1, <1>2, HolderInvIsInvariant, PTL
     DEF Spec, ImplementsCoherentCopies, Sim!Spec, Pairs!Spec, SimStep, PairsStep
=============================================================================
