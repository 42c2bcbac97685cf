------------------------- MODULE ThreadQueueProofs -------------------------
(***************************************************************************)
(* What the walks of ThreadQueue cover, for any number of slots and any    *)
(* set of awake ones: from one awake thread up to the next, each slot is   *)
(* served by exactly one awake thread.                                     *)
(***************************************************************************)
EXTENDS ThreadQueue, WellFoundedInduction, TLAPS

\* Every set of natural numbers that is not empty has a least element: what stands
\* for induction in the proofs about walks and lists.
LEMMA LeastNat ==
  ASSUME NEW T, T \subseteq Nat, T # {}
  PROVE  \E m \in T : \A k \in T : m <= k
<1> DEFINE Less == OpToRel(<, Nat)
<1>1. Less = {ss \in Nat \X Nat : ss[1] < ss[2]}
  BY DEF OpToRel
<1>2. \A x, y \in Nat : x < y => <<x, y>> \in Less
  BY <1>1
<1>3. IsWellFoundedOn(Less, Nat)
  BY NatLessThanWellFounded
<1> HIDE DEF Less
<1>4. PICK m \in T : \A k \in T : ~ (<<k, m>> \in Less)
  BY <1>3, WFMin
<1>5. \A k \in T : ~ (k < m)
  BY <1>2, <1>4
<1>6. m \in Nat /\ \A k \in T : k \in Nat
  OBVIOUS
<1>7. \A k \in T : m <= k
  BY <1>5, <1>6
<1> QED
  BY <1>7

-----------------------------------------------------------------------------
(* Going around                                                            *)

LEMMA ModuloBelow == \A n \in Nat \ {0}, x \in Nat : x < n => x % n = x
  BY SMT

LEMMA ModuloAbove == \A n \in Nat \ {0}, x \in Nat : n <= x /\ x < 2 * n => x % n = x - n
  BY SMT

\* After in terms of addition: at most one time around.
LEMMA AfterValue ==
  ASSUME NEW n \in Nat \ {0}, NEW t \in 0 .. n - 1, NEW d \in 0 .. n
  PROVE  After(t, d, n) = IF t + d < n THEN t + d ELSE t + d - n
<1>1. CASE t + d < n
  BY <1>1, ModuloBelow DEF After
<1>2. CASE ~ (t + d < n)
  <2>1. t + d \in Nat /\ n <= t + d /\ t + d < 2 * n
    BY <1>2
  <2>2. (t + d) % n = (t + d) - n
    BY <2>1, ModuloAbove
  <2> QED
    BY <1>2, <2>2 DEF After
<1> QED
  BY <1>1, <1>2

LEMMA GapValue ==
  ASSUME NEW n \in Nat \ {0}, NEW t \in 0 .. n - 1, NEW awake
  PROVE  /\ Gap(t, awake, n) \in 1 .. n
         /\ Gap(t, awake, n) = n \/ After(t, Gap(t, awake, n), n) \in awake
         /\ \A e \in 1 .. Gap(t, awake, n) - 1 : After(t, e, n) \notin awake
<1> DEFINE Stops == {d \in 1 .. n : d = n \/ After(t, d, n) \in awake}
<1>1. n \in Stops /\ Stops \subseteq Nat
  OBVIOUS
<1>2. PICK m \in Stops : \A k \in Stops : m <= k
  BY <1>1, LeastNat
<1>3. \A e \in 1 .. m - 1 : After(t, e, n) \notin awake
  BY <1>2
<1>4. \E d \in 1 .. n :
        /\ d = n \/ After(t, d, n) \in awake
        /\ \A e \in 1 .. d - 1 : After(t, e, n) \notin awake
  BY <1>3
<1> QED
  BY <1>4 DEF Gap

\* The slots that t serves are those from itself up to the next awake one.
LEMMA ServedValue ==
  ASSUME NEW n \in Nat \ {0}, NEW t \in 0 .. n - 1, NEW awake
  PROVE  /\ Served(t, awake, n) = {After(t, d, n) : d \in 0 .. Gap(t, awake, n) - 1}
         /\ Served(t, awake, n) \subseteq 0 .. n - 1
<1> DEFINE g == Gap(t, awake, n)
           next == After(t, g, n)
           end == EndSleepers(t, awake, n)
<1>1. g \in 1 .. n
  BY GapValue
<1>2. end = IF next = t THEN -1 ELSE next
  BY DEF EndSleepers, GetAdjacentSleepers
<1>3. \A d \in 0 .. n : After(t, d, n) = IF t + d < n THEN t + d ELSE t + d - n
  BY AfterValue
<1>4. \A d \in 0 .. n - 1 : After(t, d, n) \in 0 .. n - 1
  BY <1>3
<1> HIDE DEF g
<1>5. \A f \in 0 .. n - 1 : After(t, f, n) = end <=> f = g
  <2>1. CASE g = n
    <3>1. next = t
      BY <1>3, <2>1
    <3>2. end = -1
      BY <1>2, <3>1
    <3> QED
      BY <1>4, <2>1, <3>2
  <2>2. CASE g < n
    <3>1. next # t
      BY <1>1, <1>3, <2>2
    <3>2. end = next
      BY <1>2, <3>1
    <3> QED
      BY <1>1, <1>3, <2>2, <3>2
  <2> QED
    BY <1>1, <2>1, <2>2
<1> HIDE DEF end, next
<1>6. \A e \in 0 .. n - 1 : (\A f \in 0 .. e : After(t, f, n) # end) <=> e < g
  BY <1>1, <1>5
<1>7. { e \in 0 .. n - 1 : \A f \in 0 .. e : After(t, f, n) # end } = 0 .. g - 1
  BY <1>1, <1>6
<1>8. Served(t, awake, n) = {After(t, d, n) : d \in 0 .. g - 1}
  BY <1>7 DEF Served, Walk, end
<1> QED
  BY <1>1, <1>4, <1>8 DEF g

-----------------------------------------------------------------------------
(* The division of the work                                                *)

\* No slot is left out.
LEMMA SlotIsServed ==
  ASSUME NEW n \in Nat \ {0}, NEW awake \in SUBSET (0 .. n - 1), awake # {},
         NEW slot \in 0 .. n - 1
  PROVE  \E t \in awake : slot \in Served(t, awake, n)
<1> DEFINE Before(d) == IF slot - d >= 0 THEN slot - d ELSE slot - d + n
           Backs == {d \in 0 .. n - 1 : Before(d) \in awake}
<1>1. Backs # {}
  <2>1. PICK a \in awake : TRUE
    OBVIOUS
  <2>2. CASE a <= slot
    <3>1. slot - a \in 0 .. n - 1 /\ Before(slot - a) = a
      BY <2>2
    <3>2. slot - a \in Backs
      BY <3>1
    <3> QED
      BY <3>2
  <2>3. CASE a > slot
    <3>1. slot - a + n \in 0 .. n - 1 /\ Before(slot - a + n) = a
      BY <2>3
    <3>2. slot - a + n \in Backs
      BY <3>1
    <3> QED
      BY <3>2
  <2> QED
    BY <2>2, <2>3
<1>2. PICK d \in Backs : \A k \in Backs : d <= k
  <2>1. Backs \subseteq Nat
    OBVIOUS
  <2> QED
    BY <1>1, <2>1, LeastNat
<1> DEFINE t == Before(d)
<1>3. t \in awake /\ t \in 0 .. n - 1 /\ d \in 0 .. n - 1
  OBVIOUS
<1>4. \A e \in 0 .. n : After(t, e, n) = IF t + e < n THEN t + e ELSE t + e - n
  BY <1>3, AfterValue
<1>5. \A e \in 1 .. d : After(t, e, n) \notin awake
  <2> SUFFICES ASSUME NEW e \in 1 .. d PROVE After(t, e, n) \notin awake
    OBVIOUS
  <2>1. After(t, e, n) = Before(d - e) /\ d - e \in 0 .. n - 1
    BY <1>3, <1>4
  <2>2. d - e \notin Backs
    BY <1>2, <1>3
  <2> QED
    BY <2>1, <2>2
<1>6. d < Gap(t, awake, n)
  BY <1>3, <1>5, GapValue
<1>7. slot = After(t, d, n)
  BY <1>3, <1>4
<1>8. slot \in Served(t, awake, n)
  BY <1>3, <1>6, <1>7, ServedValue, GapValue
<1> QED
  BY <1>3, <1>8

\* Two walks that meet after d and e steps: the first passes the start of the second.
LEMMA BackToSecond ==
  ASSUME NEW n \in Nat \ {0}, NEW a \in 0 .. n - 1, NEW b \in 0 .. n - 1,
         NEW d \in 0 .. n - 1, NEW e \in 0 .. n - 1, d > e,
         (IF a + d < n THEN a + d ELSE a + d - n) = (IF b + e < n THEN b + e ELSE b + e - n)
  PROVE  (IF a + (d - e) < n THEN a + (d - e) ELSE a + (d - e) - n) = b
  OBVIOUS

\* No slot is served by two threads.
LEMMA SlotIsServedOnce ==
  ASSUME NEW n \in Nat \ {0}, NEW awake \in SUBSET (0 .. n - 1),
         NEW t \in awake, NEW u \in awake,
         NEW slot \in Served(t, awake, n), slot \in Served(u, awake, n)
  PROVE  t = u
<1>1. ASSUME NEW a \in awake, NEW b \in awake,
             NEW d \in 0 .. Gap(a, awake, n) - 1, NEW e \in 0 .. Gap(b, awake, n) - 1,
             After(a, d, n) = After(b, e, n), d > e
      PROVE  FALSE
  <2>1. /\ Gap(a, awake, n) \in 1 .. n /\ Gap(b, awake, n) \in 1 .. n
        /\ \A f \in 1 .. Gap(a, awake, n) - 1 : After(a, f, n) \notin awake
    BY GapValue
  <2>2. After(a, d, n) = IF a + d < n THEN a + d ELSE a + d - n
    BY <2>1, AfterValue
  <2>3. After(b, e, n) = IF b + e < n THEN b + e ELSE b + e - n
    BY <2>1, AfterValue
  <2>4. After(a, d - e, n) = IF a + (d - e) < n THEN a + (d - e) ELSE a + (d - e) - n
    BY <1>1, <2>1, AfterValue
  <2>5. After(a, d - e, n) = b
    <3>1. a \in 0 .. n - 1 /\ b \in 0 .. n - 1
      OBVIOUS
    <3>2. d \in 0 .. n - 1 /\ e \in 0 .. n - 1 /\ d > e
      BY <1>1, <2>1
    <3>3. (IF a + d < n THEN a + d ELSE a + d - n) = (IF b + e < n THEN b + e ELSE b + e - n)
      BY <1>1, <2>2, <2>3
    <3>4. (IF a + (d - e) < n THEN a + (d - e) ELSE a + (d - e) - n) = b
      BY <3>1, <3>2, <3>3, BackToSecond
    <3> QED
      BY <2>4, <3>4
  <2>6. d - e \in 1 .. Gap(a, awake, n) - 1
    BY <1>1, <2>1
  <2> QED
    BY <2>1, <2>5, <2>6
<1>2. PICK d \in 0 .. Gap(t, awake, n) - 1 : slot = After(t, d, n)
  BY ServedValue
<1>3. PICK e \in 0 .. Gap(u, awake, n) - 1 : slot = After(u, e, n)
  BY ServedValue
<1>4. Gap(t, awake, n) \in 1 .. n /\ Gap(u, awake, n) \in 1 .. n
  BY GapValue
<1>5. d \in Int /\ e \in Int /\ ~ (d > e) /\ ~ (e > d)
  <2>1. d \in Int /\ e \in Int
    BY <1>4
  <2>2. After(t, d, n) = After(u, e, n)
    BY <1>2, <1>3
  <2> QED
    BY <1>1, <2>1, <2>2
<1>6. After(t, d, n) = IF t + d < n THEN t + d ELSE t + d - n
  BY <1>4, AfterValue
<1>7. After(u, e, n) = IF u + e < n THEN u + e ELSE u + e - n
  BY <1>4, AfterValue
<1>8. d = e
  BY <1>5
<1>9. t \in 0 .. n - 1 /\ u \in 0 .. n - 1
  OBVIOUS
<1>10. d < n
  BY <1>4
<1>11. (IF t + d < n THEN t + d ELSE t + d - n) = (IF u + d < n THEN u + d ELSE u + d - n)
  BY <1>2, <1>3, <1>6, <1>7, <1>8
<1> QED
  BY <1>5, <1>9, <1>10, <1>11

\* Who finds itself alone is alone: GetAdjacentSleepers throws for nobody else.
LEMMA AloneIsAlone ==
  ASSUME NEW n \in Nat \ {0}, NEW awake \in SUBSET (0 .. n - 1), NEW t \in awake,
         Gap(t, awake, n) = n
  PROVE  awake = {t}
<1> SUFFICES ASSUME NEW u \in awake, u # t PROVE FALSE
  OBVIOUS
<1>1. \A e \in 1 .. n - 1 : After(t, e, n) \notin awake
  BY GapValue
<1>2. \A e \in 0 .. n : After(t, e, n) = IF t + e < n THEN t + e ELSE t + e - n
  BY AfterValue
<1>3. CASE u > t
  <2>1. u - t \in 1 .. n - 1 /\ After(t, u - t, n) = u
    BY <1>2, <1>3
  <2> QED
    BY <1>1, <2>1
<1>4. CASE u < t
  <2>1. u - t + n \in 1 .. n - 1 /\ After(t, u - t + n, n) = u
    BY <1>2, <1>4
  <2> QED
    BY <1>1, <2>1
<1> QED
  BY <1>3, <1>4
=============================================================================
