----------------------------- MODULE LocksProofs -----------------------------
(***************************************************************************)
(* Theorems about the three locks, for every number of threads and, of the *)
(* ticket lock, every number of tickets that is at least that of threads:  *)
(* the line of the ticket lock, the sleepers of the futex lock, and what   *)
(* the three implement.                                                    *)
(***************************************************************************)
EXTENDS MCLocks, Sequences, TLAPS, FiniteSetTheorems

-----------------------------------------------------------------------------
(* The ticket lock                                                         *)

LEMMA TypeStep == TypeOK /\ [Next]_vars => TypeOK'
<1> SUFFICES ASSUME TypeOK, [Next]_vars PROVE TypeOK'
  OBVIOUS
<1> USE TicketAssumption DEF TypeOK, Control, Goto
<1>1. \A n \in Ticket : Plus1(n) \in Ticket
  BY DEF Ticket, Plus1
<1>2. ASSUME NEW t \in Thread, Draw(t) PROVE TypeOK'
  BY <1>1, <1>2 DEF Draw
<1>3. ASSUME NEW t \in Thread, Spin(t) PROVE TypeOK'
  BY <1>3 DEF Spin
<1>4. ASSUME NEW t \in Thread, TryRead(t) PROVE TypeOK'
  BY <1>4 DEF TryRead
<1>5. ASSUME NEW t \in Thread, TryTake(t) PROVE TypeOK'
  BY <1>1, <1>5 DEF TryTake
<1>6. ASSUME NEW t \in Thread, Unlock(t) PROVE TypeOK'
  BY <1>1, <1>6 DEF Unlock
<1>7. CASE UNCHANGED vars
  BY <1>7 DEF vars
<1> QED
  BY <1>2, <1>3, <1>4, <1>5, <1>6, <1>7 DEF Next

\* How many threads are in line; never more than there are tickets.
Length == Cardinality(InLine)

LEMMA LengthBound ==
  /\ IsFiniteSet(InLine)
  /\ Length \in Nat
  /\ Length <= TicketCount
  /\ \A t \in Thread \ InLine : Length < TicketCount
<1> USE TicketAssumption
<1>1. IsFiniteSet(Thread) /\ Cardinality(Thread) = ThreadCount
  <2>1. CASE ThreadCount = 0
    BY <2>1, FS_Interval DEF Thread
  <2>2. CASE ThreadCount > 0
    BY <2>2, FS_Interval DEF Thread
  <2> QED
    BY <2>1, <2>2
<1>2. InLine \subseteq Thread
  BY DEF InLine
<1>3. IsFiniteSet(InLine) /\ Length \in Nat /\ Length <= ThreadCount
  BY <1>1, <1>2, FS_Subset, FS_CardinalityType DEF Length
<1>4. ASSUME NEW t \in Thread \ InLine PROVE Length < ThreadCount
  <2>1. InLine # Thread
    BY <1>4
  <2>2. Length # ThreadCount
    BY <1>1, <1>2, <2>1, FS_Subset DEF Length
  <2> QED
    BY <1>1, <1>3, <2>2
<1> QED
  BY <1>3, <1>4

\* A thread that is not in line gets the next ticket: the line grows by one.
LEMMA Joining ==
  ASSUME TypeOK, LineInv, NEW t \in Thread, t \notin InLine,
         InLine' = InLine \cup {t},
         next' = Plus1(next), serving' = serving,
         ticket'[t] = next, \A u \in Thread \ {t} : ticket'[u] = ticket[u],
         Owner' \subseteq Owner \cup {t}, t \in Owner' => next = serving
  PROVE  LineInv'
<1> USE TicketAssumption
<1> DEFINE n == Length
<1>1. n \in Nat /\ n < TicketCount
  BY LengthBound
<1>2. Length' = n + 1
  BY LengthBound, FS_AddElement DEF Length
<1>3. next = IF serving + n < TicketCount THEN serving + n ELSE serving + n - TicketCount
  BY DEF LineInv, Length
<1>4. serving \in Ticket /\ next \in Ticket /\ \A u \in Thread : ticket[u] \in Ticket
  BY DEF TypeOK
<1>5. Before(next) = n
  BY <1>1, <1>3, <1>4 DEF Before, Ticket
<1>6. \A u \in InLine : u \in Thread /\ u # t /\ ticket'[u] = ticket[u]
  BY DEF InLine
<1>7. \A u \in InLine : Before(ticket[u]) < n
  BY DEF LineInv, Length
<1>8. \A u, v \in InLine' : ticket'[u] = ticket'[v] => u = v
  <2>1. \A u \in InLine : ticket'[u] # ticket'[t]
    BY <1>1, <1>5, <1>6, <1>7
  <2>2. \A u, v \in InLine : ticket'[u] = ticket'[v] => u = v
    BY <1>6 DEF LineInv
  <2> QED
    BY <2>1, <2>2
<1>9. \A m : Before(m)' = Before(m)
  BY DEF Before
<1>10. \A u \in InLine' : Before(ticket[u])' < n + 1
  <2>1. Before(ticket[t])' = n
    BY <1>5 DEF Before
  <2>2. ASSUME NEW u \in InLine PROVE Before(ticket[u])' < n + 1
    <3>1. Before(ticket[u])' = Before(ticket[u])
      BY <1>6 DEF Before
    <3>2. Before(ticket[u]) \in Int /\ Before(ticket[u]) < n
      BY <1>4, <1>6, <1>7 DEF Before, Ticket
    <3> QED
      BY <1>1, <3>1, <3>2
  <2> QED
    BY <1>1, <2>1, <2>2
<1>11. \A u \in Owner' : ticket'[u] = serving'
  BY <1>6 DEF LineInv, Owner, InLine
<1>12. next' = IF serving + (n + 1) < TicketCount
                 THEN serving + (n + 1) ELSE serving + (n + 1) - TicketCount
  BY <1>1, <1>3, <1>4 DEF Plus1, Ticket
<1> QED
  BY <1>2, <1>8, <1>10, <1>11, <1>12 DEF LineInv, Length

\* The owner leaves: everybody else moves up by one place.
LEMMA Leaving ==
  ASSUME TypeOK, LineInv, NEW t \in Thread, Unlock(t)
  PROVE  LineInv'
<1> USE TicketAssumption
<1> DEFINE n == Length
<1>1. t \in Owner /\ t \in InLine /\ ticket[t] = serving
  BY DEF Unlock, Owner, InLine, LineInv
<1>2. InLine' = InLine \ {t} /\ Owner' = Owner \ {t} /\ ticket' = ticket /\ next' = next
  BY DEF Unlock, InLine, Owner, Goto, TypeOK
<1>3. n \in Nat /\ n >= 1 /\ n <= TicketCount /\ Length' = n - 1
  <2>1. n # 0
    BY <1>1, LengthBound, FS_EmptySet DEF Length
  <2>2. Length' = n - 1
    BY <1>1, <1>2, LengthBound, FS_RemoveElement DEF Length
  <2> QED
    BY <2>1, <2>2, LengthBound
<1>4. serving \in Ticket /\ next \in Ticket /\ \A u \in Thread : ticket[u] \in Ticket
  BY DEF TypeOK
<1>5. \A u \in InLine \ {t} : u \in Thread /\ ticket[u] # serving
  BY <1>1 DEF LineInv, InLine
<1>6. Owner' = {}
  <2>1. \A u \in Owner : u = t
    BY <1>1 DEF LineInv, InLine, Owner
  <2> QED
    BY <1>2, <2>1
<1>7. serving' = Plus1(serving)
  BY DEF Unlock
<1>8. ASSUME NEW u \in InLine' PROVE Before(ticket[u])' < n - 1
  <2>1. u \in InLine \ {t}
    BY <1>2
  <2>2. Before(ticket[u]) < n
    BY <2>1 DEF LineInv, Length
  <2>3. ticket[u] \in Ticket /\ ticket[u] # serving
    BY <1>4, <1>5, <2>1
  <2>4. Before(ticket[u])' = IF ticket[u] >= Plus1(serving) THEN ticket[u] - Plus1(serving)
                             ELSE ticket[u] - Plus1(serving) + TicketCount
    BY <1>2, <1>7 DEF Before
  <2>5. Before(ticket[u])' = Before(ticket[u]) - 1
    BY <1>4, <2>3, <2>4 DEF Before, Plus1, Ticket
  <2>6. Before(ticket[u]) \in Int
    BY <1>4, <2>3 DEF Before, Ticket
  <2> QED
    BY <1>3, <2>2, <2>5, <2>6
<1>9. next = IF Plus1(serving) + (n - 1) < TicketCount
               THEN Plus1(serving) + (n - 1)
               ELSE Plus1(serving) + (n - 1) - TicketCount
  <2>1. next = IF serving + n < TicketCount THEN serving + n ELSE serving + n - TicketCount
    BY DEF LineInv, Length
  <2> QED
    BY <1>3, <1>4, <2>1 DEF Plus1, Ticket
<1>10. \A u, v \in InLine' : ticket'[u] = ticket'[v] => u = v
  BY <1>2 DEF LineInv
<1> QED
  BY <1>2, <1>3, <1>6, <1>7, <1>8, <1>9, <1>10 DEF LineInv, Length

LEMMA LineStep == TypeOK /\ LineInv /\ [Next]_vars => LineInv'
<1> SUFFICES ASSUME TypeOK, LineInv, [Next]_vars PROVE LineInv'
  OBVIOUS
<1>1. ASSUME NEW t \in Thread, Draw(t) PROVE LineInv'
  <2>1. t \notin InLine /\ InLine' = InLine \cup {t}
    BY <1>1 DEF Draw, InLine, Goto, TypeOK
  <2>2. Owner' \subseteq Owner \cup {t} /\ (t \in Owner' => next = serving)
    BY <1>1 DEF Draw, Owner, Goto, TypeOK
  <2>3. ticket'[t] = next /\ \A u \in Thread \ {t} : ticket'[u] = ticket[u]
    BY <1>1 DEF Draw, TypeOK
  <2> QED
    BY <1>1, <2>1, <2>2, <2>3, Joining DEF Draw
<1>2. ASSUME NEW t \in Thread, TryTake(t) PROVE LineInv'
  <2>1. CASE serving = ticket[t] /\ next = ticket[t]
    <3>1. t \notin InLine /\ InLine' = InLine \cup {t}
      BY <1>2, <2>1 DEF TryTake, InLine, Goto, TypeOK
    <3>2. Owner' \subseteq Owner \cup {t} /\ (t \in Owner' => next = serving)
      BY <1>2, <2>1 DEF TryTake, Owner, Goto, TypeOK
    <3>3. ticket'[t] = next /\ \A u \in Thread \ {t} : ticket'[u] = ticket[u]
      BY <1>2, <2>1 DEF TryTake, TypeOK
    <3> QED
      BY <1>2, <2>1, <3>1, <3>2, <3>3, Joining DEF TryTake
  <2>2. CASE ~(serving = ticket[t] /\ next = ticket[t])
    <3>1. InLine' = InLine /\ Owner' = Owner
      BY <1>2, <2>2 DEF TryTake, InLine, Owner, Goto, TypeOK
    <3> QED
      BY <1>2, <2>2, <3>1 DEF TryTake, LineInv, Before
  <2> QED
    BY <2>1, <2>2
<1>3. ASSUME NEW t \in Thread, Spin(t) PROVE LineInv'
  <2>1. InLine' = InLine /\ Owner' = Owner \cup {t}
    BY <1>3 DEF Spin, InLine, Owner, Goto, TypeOK
  <2> QED
    BY <1>3, <2>1 DEF Spin, LineInv, Before
<1>4. ASSUME NEW t \in Thread, TryRead(t) PROVE LineInv'
  <2>1. InLine' = InLine /\ Owner' = Owner /\ t \notin InLine
    BY <1>4 DEF TryRead, InLine, Owner, Goto, TypeOK
  <2>2. \A u \in InLine : u \in Thread /\ ticket'[u] = ticket[u]
    BY <1>4, <2>1 DEF TryRead, TypeOK, InLine
  <2>3. Owner \subseteq InLine
    BY DEF Owner, InLine
  <2> QED
    BY <1>4, <2>1, <2>2, <2>3 DEF TryRead, LineInv, Before
<1>5. ASSUME NEW t \in Thread, Unlock(t) PROVE LineInv'
  BY <1>5, Leaving
<1>6. CASE UNCHANGED vars
  BY <1>6 DEF vars, LineInv, InLine, Owner, Before
<1> QED
  BY <1>1, <1>2, <1>3, <1>4, <1>5, <1>6 DEF Next

LEMMA LineInit == Init => TypeOK /\ LineInv
<1> SUFFICES ASSUME Init PROVE TypeOK /\ LineInv
  OBVIOUS
<1>1. TypeOK
  BY TicketAssumption DEF Init, TypeOK, Control, Ticket
<1>2. InLine = {} /\ Owner = {}
  BY DEF Init, InLine, Owner
<1>3. Cardinality(InLine) = 0
  BY <1>2, FS_EmptySet
<1> QED
  BY <1>1, <1>2, <1>3, TicketAssumption DEF Init, LineInv

\* Who finds the two bytes equal is the only one: nobody is in line.
LEMMA NobodyInLine ==
  ASSUME TypeOK, LineInv, NEW t \in Thread \ InLine, next = serving
  PROVE  InLine = {} /\ Owner = {}
<1>1. Length \in Nat /\ Length < TicketCount
  BY LengthBound
<1>2. Length = 0
  BY <1>1, TicketAssumption DEF LineInv, TypeOK, Ticket, Length
<1>3. InLine = {}
  BY <1>2, LengthBound, FS_EmptySet DEF Length
<1> QED
  BY <1>3 DEF InLine, Owner

\* The threads that hold the lock, and those that do not.
LEMMA OwnerAlone ==
  ASSUME LineInv
  PROVE  /\ Owner \subseteq InLine
         /\ \A t, u \in Owner : t = u
         /\ \A t \in InLine : ticket[t] = serving => Owner \subseteq {t}
  BY DEF LineInv, Owner, InLine

-----------------------------------------------------------------------------
(* The queue that the ticket lock implements                               *)

InQueue == InLine \ Owner

LEMMA BeforeBounds ==
  ASSUME TypeOK, LineInv
  PROVE  /\ \A t \in InLine : Before(ticket[t]) \in 0 .. Length - 1
         /\ \A t \in InLine : Before(ticket[t]) = 0 <=> ticket[t] = serving
         /\ \A t, u \in InLine : Before(ticket[t]) = Before(ticket[u]) => t = u
<1> USE TicketAssumption
<1>1. serving \in Ticket /\ \A t \in InLine : ticket[t] \in Ticket
  BY DEF TypeOK, InLine
<1>2. \A t \in InLine : Before(ticket[t]) < Length
  BY DEF LineInv, Length
<1>3. Length \in Nat
  BY LengthBound
<1>4. \A m \in Ticket : Before(m) \in Nat /\ (Before(m) = 0 <=> m = serving)
  BY <1>1 DEF Before, Ticket
<1>5. \A m, n \in Ticket : Before(m) = Before(n) => m = n
  BY <1>1 DEF Before, Ticket
<1>6. \A t, u \in InLine : Before(ticket[t]) = Before(ticket[u]) => t = u
  <2> SUFFICES ASSUME NEW t \in InLine, NEW u \in InLine,
                      Before(ticket[t]) = Before(ticket[u])
               PROVE  t = u
    OBVIOUS
  <2>1. ticket[t] = ticket[u]
    BY <1>1, <1>5
  <2> QED
    BY <2>1 DEF LineInv
<1>7. ASSUME NEW t \in InLine PROVE Before(ticket[t]) \in 0 .. Length - 1
  <2>1. Before(ticket[t]) \in Nat /\ Before(ticket[t]) < Length
    BY <1>1, <1>2, <1>4
  <2> QED
    BY <1>3, <2>1
<1> QED
  BY <1>1, <1>4, <1>6, <1>7

\* The waiting threads have the places from 1 to their number, each one of its own.
LEMMA Places ==
  ASSUME TypeOK, LineInv
  PROVE  /\ IsFiniteSet(InQueue) /\ Cardinality(InQueue) \in Nat
         /\ \A t \in InQueue : Place(t) \in 1 .. Cardinality(InQueue)
         /\ \A t, u \in InQueue : Place(t) = Place(u) => t = u
         /\ \A i \in 1 .. Cardinality(InQueue) : \E t \in InQueue : Place(t) = i
<1> DEFINE n == Cardinality(InQueue)
<1>1. IsFiniteSet(InQueue) /\ n \in Nat
  <2>1. IsFiniteSet(InLine) /\ InQueue \subseteq InLine
    BY LengthBound DEF InQueue
  <2> QED
    BY <2>1, FS_Subset, FS_CardinalityType
<1>2. ASSUME NEW t \in InQueue PROVE Place(t) \in 1 .. n
  <2>1. t \in InLine /\ Before(ticket[t]) \in 0 .. Length - 1 /\ Length \in Nat
    BY BeforeBounds, LengthBound DEF InQueue
  <2>2. CASE Owner = {}
    <3>1. InQueue = InLine
      BY <2>2 DEF InQueue
    <3> QED
      BY <2>1, <2>2, <3>1 DEF Place, Length
  <2>3. CASE Owner # {}
    <3>1. PICK o \in Owner : TRUE
      BY <2>3
    <3>2. o \in InLine /\ o # t
      BY OwnerAlone DEF InQueue
    <3>3. InQueue = InLine \ {o}
      BY <3>1, OwnerAlone DEF InQueue
    <3>4. n = Length - 1
      BY <3>2, <3>3, LengthBound, FS_RemoveElement DEF Length
    <3>5. ticket[o] = serving
      BY DEF LineInv
    <3>6. Before(ticket[o]) = 0
      BY <3>2, <3>5, BeforeBounds
    <3>7. Before(ticket[t]) # 0
      BY <2>1, <3>2, <3>6, BeforeBounds
    <3> QED
      BY <2>1, <2>3, <3>4, <3>7 DEF Place
  <2> QED
    BY <2>2, <2>3
<1>3. ASSUME NEW t \in InQueue, NEW u \in InQueue, Place(t) = Place(u) PROVE t = u
  <2>1. t \in InLine /\ u \in InLine
    BY DEF InQueue
  <2>2. Before(ticket[t]) \in Int /\ Before(ticket[u]) \in Int
    BY <2>1, BeforeBounds
  <2>3. Before(ticket[t]) = Before(ticket[u])
    BY <1>3, <2>2 DEF Place
  <2> QED
    BY <2>1, <2>3, BeforeBounds
<1>4. ASSUME NEW i \in 1 .. n PROVE \E t \in InQueue : Place(t) = i
  <2> DEFINE f == [t \in InQueue |-> Place(t)]
  <2>1. f \in Injection(InQueue, 1 .. n)
    BY <1>2, <1>3 DEF Injection, IsInjective
  <2>2. IsFiniteSet(1 .. n) /\ Cardinality(1 .. n) = n
    <3>1. 1 \in Int /\ n \in Int
      BY <1>1
    <3>2. IsFiniteSet(1 .. n) /\ Cardinality(1 .. n) = IF 1 > n THEN 0 ELSE n - 1 + 1
      BY <3>1, FS_Interval
    <3> QED
      BY <1>1, <3>2
  <2>3. f \in Surjection(InQueue, 1 .. n)
    BY <2>1, <2>2, FS_Injection
  <2> QED
    BY <2>3 DEF Surjection
<1> QED
  BY <1>1, <1>2, <1>3, <1>4

\* What Queue is, without the choice.
LEMMA QueueValue ==
  ASSUME TypeOK, LineInv
  PROVE  /\ Queue \in Seq(InQueue) /\ Len(Queue) = Cardinality(InQueue)
         /\ \A i \in 1 .. Len(Queue) : Place(Queue[i]) = i
         /\ \A t \in InQueue : Queue[Place(t)] = t
<1> DEFINE n == Cardinality(InQueue)
<1>1. n \in Nat
  BY Places
<1>2. \A i \in 1 .. n : Queue[i] \in InQueue /\ Place(Queue[i]) = i
  <2> SUFFICES ASSUME NEW i \in 1 .. n PROVE Queue[i] \in InQueue /\ Place(Queue[i]) = i
    OBVIOUS
  <2>1. Queue[i] = CHOOSE t \in InQueue : Place(t) = i
    BY DEF Queue, InQueue
  <2>2. \E t \in InQueue : Place(t) = i
    BY Places
  <2> QED
    BY <2>1, <2>2
<1>3. Queue \in [1 .. n -> InQueue]
  BY <1>2 DEF Queue, InQueue
<1>4. Queue \in Seq(InQueue) /\ Len(Queue) = n
  BY <1>1, <1>3
<1>5. \A t \in InQueue : Queue[Place(t)] = t
  BY <1>2, Places
<1> QED
  BY <1>2, <1>4, <1>5

\* The places of the waiting threads.
place == [t \in InQueue |-> Place(t)]

LEMMA PlacesAre ==
  TypeOK /\ LineInv =>
    /\ \A u \in InQueue : place[u] \in 1 .. Cardinality(InQueue)
    /\ \A u, v \in InQueue : place[u] = place[v] => u = v
  BY Places DEF place

\* Queue is the only list of the waiting threads that agrees with their places.
LEMMA QueueIs ==
  TypeOK /\ LineInv =>
    \A q \in Seq(InQueue) :
      Len(q) = Cardinality(InQueue) /\ (\A i \in 1 .. Len(q) : place[q[i]] = i) => Queue = q
<1> SUFFICES ASSUME TypeOK, LineInv, NEW q \in Seq(InQueue),
                    Len(q) = Cardinality(InQueue), \A i \in 1 .. Len(q) : place[q[i]] = i
             PROVE  Queue = q
  OBVIOUS
<1>1. Queue \in Seq(InQueue) /\ Len(Queue) = Len(q)
  BY QueueValue
<1>2. ASSUME NEW i \in 1 .. Len(q) PROVE Queue[i] = q[i]
  <2>1. Queue[i] \in InQueue /\ q[i] \in InQueue
    BY <1>1
  <2>2. Place(Queue[i]) = i /\ Place(q[i]) = i
    BY <1>1, <2>1, QueueValue DEF place
  <2> QED
    BY <2>1, <2>2, Places
<1> QED
  BY <1>1, <1>2

\* As long as the waiting threads keep their places, so does the queue.
LEMMA QueueKeeps ==
  ASSUME TypeOK, LineInv, TypeOK', LineInv',
         InQueue' = InQueue, \A t \in InQueue : place'[t] = place[t]
  PROVE  Queue' = Queue
<1>1. Queue \in Seq(InQueue') /\ Len(Queue) = Cardinality(InQueue)'
  BY QueueValue
<1>2. ASSUME NEW i \in 1 .. Len(Queue) PROVE place'[Queue[i]] = i
  <2>1. Queue[i] \in InQueue /\ Place(Queue[i]) = i
    BY QueueValue
  <2>2. place[Queue[i]] = i
    BY <2>1 DEF place
  <2> QED
    BY <2>1, <2>2
<1>3. (TypeOK /\ LineInv =>
         \A q \in Seq(InQueue) :
           Len(q) = Cardinality(InQueue) /\ (\A i \in 1 .. Len(q) : place[q[i]] = i)
             => Queue = q)'
  BY QueueIs, PTL
<1> QED
  BY <1>1, <1>2, <1>3

LEMMA DrawStep ==
  ASSUME TypeOK, LineInv, TypeOK', LineInv', NEW t \in Thread, Draw(t)
  PROVE  M!Request(t) \/ M!AcquireAtOnce(t)
<1>1. t \notin InLine /\ InLine' = InLine \cup {t}
  BY DEF Draw, InLine, Goto, TypeOK
<1>2. CASE next = serving
  <2>1. InLine = {} /\ Owner = {}
    BY <1>1, <1>2, NobodyInLine
  <2>2. Owner' = {t}
    BY <1>2, <2>1 DEF Draw, Owner, Goto, TypeOK
  <2>3. InQueue = {} /\ InQueue' = {}
    BY <1>1, <2>1, <2>2 DEF InQueue
  <2>4. Queue' = Queue
    BY <2>3, QueueKeeps
  <2>5. Queue = <<>>
    BY <2>3, QueueValue, FS_EmptySet
  <2> QED
    BY <2>1, <2>2, <2>4, <2>5 DEF M!AcquireAtOnce
<1>3. CASE next # serving
  <2> DEFINE n == Cardinality(InQueue)
  <2>1. Owner' = Owner /\ t \notin Owner
    BY <1>1, <1>3 DEF Draw, Owner, InLine, Goto, TypeOK
  <2>2. t \notin InQueue /\ InQueue' = InQueue \cup {t}
    BY <1>1, <2>1 DEF InQueue
  <2>3. n \in Nat /\ Cardinality(InQueue)' = n + 1
    BY <2>2, Places, FS_AddElement
  <2>4. \A u \in InQueue : place'[u] = place[u]
    <3>1. \A u \in InQueue : ticket'[u] = ticket[u] /\ serving' = serving
      BY <2>2 DEF Draw, TypeOK, InQueue, InLine
    <3> QED
      BY <2>1, <2>2, <3>1 DEF place, Place, Before
  <2>5. /\ \A u \in InQueue' : place'[u] \in 1 .. n + 1
        /\ \A u, v \in InQueue' : place'[u] = place'[v] => u = v
    <3>1. (TypeOK /\ LineInv =>
             /\ \A u \in InQueue : place[u] \in 1 .. Cardinality(InQueue)
             /\ \A u, v \in InQueue : place[u] = place[v] => u = v)'
      BY PlacesAre, PTL
    <3> QED
      BY <2>3, <3>1
  <2>6. place'[t] = n + 1
    <3>1. ASSUME place'[t] \in 1 .. n PROVE FALSE
      <4>1. PICK u \in InQueue : place[u] = place'[t]
        BY <3>1, Places DEF place
      <4>2. place'[u] = place'[t] /\ u \in InQueue' /\ t \in InQueue'
        BY <2>2, <2>4, <4>1
      <4> QED
        BY <2>2, <2>5, <4>2
    <3>2. place'[t] \in 1 .. n + 1
      BY <2>2, <2>5
    <3> QED
      BY <2>3, <3>1, <3>2
  <2> DEFINE p == Append(Queue, t)
  <2>7. p \in Seq(InQueue') /\ Len(p) = n + 1
    <3>1. Queue \in Seq(InQueue') /\ Len(Queue) = n
      <4>1. Queue \in Seq(InQueue) /\ Len(Queue) = n /\ InQueue \subseteq InQueue'
        BY <2>2, QueueValue
      <4> HIDE DEF n
      <4> QED
        BY <4>1
    <3>2. t \in InQueue'
      BY <2>2
    <3> QED
      BY <3>1, <3>2
  <2>8. \A i \in 1 .. Len(p) : place'[p[i]] = i
    <3> SUFFICES ASSUME NEW i \in 1 .. n + 1 PROVE place'[p[i]] = i
      BY <2>7
    <3>1. Queue \in Seq(InQueue) /\ Len(Queue) = n
      BY QueueValue
    <3>2. CASE i = n + 1
      <4>1. p[i] = t
        BY <3>1, <3>2
      <4> QED
        BY <2>6, <3>2, <4>1
    <3>3. CASE i # n + 1
      <4>1. i \in 1 .. n
        BY <2>3, <3>3
      <4>2. p[i] = Queue[i] /\ Queue[i] \in InQueue
        BY <3>1, <4>1
      <4>3. place[Queue[i]] = i
        BY <3>1, <4>1, <4>2, QueueValue DEF place
      <4>4. place'[Queue[i]] = place[Queue[i]]
        BY <2>4, <4>2
      <4> QED
        BY <4>2, <4>3, <4>4
    <3> QED
      BY <3>2, <3>3
  <2>9. Queue' = p
    <3>1. (TypeOK /\ LineInv =>
             \A q \in Seq(InQueue) :
               Len(q) = Cardinality(InQueue) /\ (\A i \in 1 .. Len(q) : place[q[i]] = i)
                 => Queue = q)'
      BY QueueIs, PTL
    <3> HIDE DEF p
    <3> QED
      BY <2>3, <2>7, <2>8, <3>1
  <2>10. \A i \in DOMAIN Queue : Queue[i] # t
    BY <2>2, QueueValue
  <2> QED
    BY <2>1, <2>9, <2>10 DEF M!Request
<1> QED
  BY <1>2, <1>3

LEMMA SpinStep ==
  ASSUME TypeOK, LineInv, TypeOK', LineInv', NEW t \in Thread, Spin(t)
  PROVE  M!Acquire
<1> DEFINE n == Cardinality(InQueue)
<1>1. t \in InLine /\ t \notin Owner /\ ticket[t] = serving
  BY DEF Spin, InLine, Owner
<1>2. Owner = {}
  BY <1>1, OwnerAlone
<1>3. InLine' = InLine /\ Owner' = {t} /\ ticket' = ticket /\ serving' = serving
  BY <1>2 DEF Spin, InLine, Owner, Goto, TypeOK
<1>4. InQueue = InLine /\ InQueue' = InQueue \ {t} /\ t \in InQueue
  BY <1>1, <1>2, <1>3 DEF InQueue
<1>5. n \in Nat /\ n > 0 /\ Cardinality(InQueue)' = n - 1
  <2>1. n # 0
    BY <1>4, Places, FS_EmptySet
  <2>2. Cardinality(InQueue)' = n - 1
    BY <1>4, Places, FS_RemoveElement
  <2> QED
    BY <2>1, <2>2, Places
<1>6. Queue \in Seq(InQueue) /\ Len(Queue) = n
  BY QueueValue
<1>7. Place(t) = 1
  BY <1>1, <1>2, <1>4, BeforeBounds DEF Place
<1>8. Queue # <<>> /\ Head(Queue) = t
  <2>1. Queue[1] = t
    BY <1>4, <1>7, QueueValue
  <2> QED
    BY <1>5, <1>6, <2>1
<1>9. ASSUME NEW u \in InQueue' PROVE place'[u] = place[u] - 1
  <2>1. Before(ticket[u]) \in Int
    BY <1>4, BeforeBounds
  <2>2. place[u] = Before(ticket[u]) + 1
    BY <1>2, <1>4 DEF place, Place
  <2>3. place'[u] = Before(ticket[u]) + 0
    BY <1>3 DEF place, Place, Before
  <2> QED
    BY <2>1, <2>2, <2>3
<1> DEFINE p == Tail(Queue)
<1>10. ASSUME NEW i \in 1 .. n - 1
       PROVE  p[i] \in InQueue' /\ place'[p[i]] = i
  <2>1. i + 1 \in 1 .. n /\ p[i] = Queue[i + 1]
    BY <1>5, <1>6
  <2>2. Queue[i + 1] \in InQueue /\ Place(Queue[i + 1]) = i + 1
    BY <1>6, <2>1, QueueValue
  <2>3. Queue[i + 1] \in InQueue'
    BY <1>4, <1>7, <2>1, <2>2
  <2>4. place[Queue[i + 1]] = i + 1
    BY <2>2 DEF place
  <2>5. place'[Queue[i + 1]] = i
    BY <1>9, <2>3, <2>4
  <2> QED
    BY <2>1, <2>3, <2>5
<1>11. p \in Seq(InQueue') /\ Len(p) = n - 1
  <2>1. p \in Seq(InQueue) /\ Len(p) = n - 1
    BY <1>5, <1>6, <1>8
  <2>2. \A i \in 1 .. Len(p) : p[i] \in InQueue'
    BY <1>10, <2>1
  <2> HIDE DEF p, n
  <2> QED
    BY <1>5, <2>1, <2>2
<1>12. Queue' = p
  <2>1. (TypeOK /\ LineInv =>
           \A q \in Seq(InQueue) :
             Len(q) = Cardinality(InQueue) /\ (\A i \in 1 .. Len(q) : place[q[i]] = i)
               => Queue = q)'
    BY QueueIs, PTL
  <2> HIDE DEF p
  <2> QED
    BY <1>5, <1>10, <1>11, <2>1
<1> QED
  BY <1>2, <1>3, <1>8, <1>12 DEF M!Acquire

LEMMA TryStep ==
  ASSUME TypeOK, LineInv, TypeOK', LineInv', NEW t \in Thread, TryRead(t) \/ TryTake(t)
  PROVE  M!AcquireAtOnce(t) \/ UNCHANGED M!vars
<1>1. t \notin InLine
  BY DEF TryRead, TryTake, InLine
<1>2. CASE InLine' = InLine /\ Owner' = Owner
  <2>1. InQueue' = InQueue
    BY <1>2 DEF InQueue
  <2>2. \A u \in InQueue : ticket'[u] = ticket[u] /\ serving' = serving
    BY <1>1 DEF TryRead, TryTake, InQueue, InLine, TypeOK
  <2>3. \A u \in InQueue : place'[u] = place[u]
    BY <1>2, <2>1, <2>2 DEF place, Place, Before
  <2>4. Queue' = Queue
    BY <2>1, <2>3, QueueKeeps
  <2> QED
    BY <1>2, <2>4 DEF M!vars
<1>3. CASE TryTake(t) /\ serving = ticket[t] /\ next = ticket[t]
  <2>1. InLine = {} /\ Owner = {}
    BY <1>1, <1>3, NobodyInLine
  <2>2. InLine' = {t} /\ Owner' = {t}
    BY <1>3, <2>1 DEF TryTake, InLine, Owner, Goto, TypeOK
  <2>3. InQueue = {} /\ InQueue' = {}
    BY <2>1, <2>2 DEF InQueue
  <2>4. Queue' = Queue
    BY <2>3, QueueKeeps
  <2>5. Queue = <<>>
    BY <2>3, QueueValue, FS_EmptySet
  <2> QED
    BY <2>1, <2>2, <2>4, <2>5 DEF M!AcquireAtOnce
<1>4. CASE TryRead(t)
  <2>1. InLine' = InLine /\ Owner' = Owner
    BY <1>4 DEF TryRead, InLine, Owner, Goto, TypeOK
  <2> QED
    BY <1>2, <2>1
<1>5. CASE TryTake(t) /\ ~(serving = ticket[t] /\ next = ticket[t])
  <2>1. InLine' = InLine /\ Owner' = Owner
    BY <1>5 DEF TryTake, InLine, Owner, Goto, TypeOK
  <2> QED
    BY <1>2, <2>1
<1> QED
  BY <1>3, <1>4, <1>5

LEMMA UnlockStep ==
  ASSUME TypeOK, LineInv, TypeOK', LineInv', NEW t \in Thread, Unlock(t)
  PROVE  M!Release
<1> USE TicketAssumption
<1>1. Owner = {t}
  BY OwnerAlone DEF Unlock, Owner
<1>2. /\ Owner' = {} /\ InLine' = InLine \ {t}
      /\ ticket' = ticket /\ serving' = Plus1(serving)
  BY <1>1 DEF Unlock, InLine, Owner, Goto, TypeOK
<1>3. InQueue' = InQueue
  BY <1>1, <1>2 DEF InQueue
<1>4. ASSUME NEW u \in InQueue PROVE place'[u] = place[u]
  <2>1. ticket[t] = serving /\ u # t /\ u \in InLine /\ t \in InLine
    BY <1>1, OwnerAlone DEF LineInv, InQueue
  <2>2. ticket[u] # serving
    BY <2>1 DEF LineInv
  <2>3. serving \in Ticket /\ ticket[u] \in Ticket
    BY <2>1 DEF TypeOK, InLine
  <2>4. Before(ticket[u])' = IF ticket[u] >= Plus1(serving) THEN ticket[u] - Plus1(serving)
                             ELSE ticket[u] - Plus1(serving) + TicketCount
    BY <1>2 DEF Before
  <2>5. Before(ticket[u])' = Before(ticket[u]) - 1
    BY <2>2, <2>3, <2>4 DEF Before, Plus1, Ticket
  <2>6. Before(ticket[u]) \in Int
    BY <2>3 DEF Before, Ticket
  <2>7. place[u] = Before(ticket[u]) + 0
    BY <1>1 DEF place, Place
  <2>8. place'[u] = Before(ticket[u])' + 1
    BY <1>2, <1>3 DEF place, Place
  <2> QED
    BY <2>5, <2>6, <2>7, <2>8
<1>5. Queue' = Queue
  BY <1>3, <1>4, QueueKeeps
<1> QED
  BY <1>1, <1>2, <1>5 DEF M!Release

-----------------------------------------------------------------------------
(* The futex lock                                                          *)

LEMMA FutexTypeStep == F!TypeOK /\ [F!Next]_wordVars => F!TypeOK'
<1> SUFFICES ASSUME F!TypeOK, [F!Next]_wordVars PROVE F!TypeOK'
  OBVIOUS
<1>1. ASSUME NEW t \in Thread, F!GetLock(t) PROVE F!TypeOK'
  BY <1>1 DEF F!TypeOK, F!Control, F!GetLock, F!At, F!Goto
<1>2. ASSUME NEW t \in Thread, F!Interrupted(t) PROVE F!TypeOK'
  BY <1>2 DEF F!TypeOK, F!Control, F!Interrupted, F!At, F!Goto
<1>3. ASSUME NEW t \in Thread, F!Announce(t) PROVE F!TypeOK'
  BY <1>3 DEF F!TypeOK, F!Control, F!Announce, F!At, F!Goto
<1>4. ASSUME NEW t \in Thread, F!FutexWait(t) PROVE F!TypeOK'
  BY <1>4 DEF F!TypeOK, F!Control, F!FutexWait, F!At, F!Goto
<1>5. ASSUME NEW t \in Thread, F!Take(t) PROVE F!TypeOK'
  BY <1>5 DEF F!TypeOK, F!Control, F!Take, F!At, F!Goto
<1>6. ASSUME NEW t \in Thread, F!Release(t) PROVE F!TypeOK'
  BY <1>6 DEF F!TypeOK, F!Control, F!Release, F!At, F!Goto
<1>7. ASSUME NEW t \in Thread, F!FutexWake(t) PROVE F!TypeOK'
  BY <1>7 DEF F!TypeOK, F!Control, F!FutexWake, F!At, F!Goto, F!Asleep
<1>8. CASE UNCHANGED wordVars
  BY <1>8 DEF F!TypeOK, wordVars
<1> QED
  BY <1>1, <1>2, <1>3, <1>4, <1>5, <1>6, <1>7, <1>8 DEF F!Next, F!Proceed

\* The word is 0 exactly while nobody owns the lock, and nobody shares it.
LEMMA FutexWordStep == F!TypeOK /\ F!LockWordInv /\ [F!Next]_wordVars => F!LockWordInv'
<1> SUFFICES ASSUME F!TypeOK, F!LockWordInv, [F!Next]_wordVars PROVE F!LockWordInv'
  OBVIOUS
<1> USE DEF F!TypeOK, F!LockWordInv, F!At, F!Goto
<1>1. ASSUME NEW t \in Thread, F!GetLock(t) PROVE F!LockWordInv'
  BY <1>1 DEF F!GetLock
<1>2. ASSUME NEW t \in Thread, F!Interrupted(t) PROVE F!LockWordInv'
  BY <1>2 DEF F!Interrupted
<1>3. ASSUME NEW t \in Thread, F!Announce(t) PROVE F!LockWordInv'
  BY <1>3 DEF F!Announce
<1>4. ASSUME NEW t \in Thread, F!FutexWait(t) PROVE F!LockWordInv'
  BY <1>4 DEF F!FutexWait
<1>5. ASSUME NEW t \in Thread, F!Take(t) PROVE F!LockWordInv'
  BY <1>5 DEF F!Take
<1>6. ASSUME NEW t \in Thread, F!Release(t) PROVE F!LockWordInv'
  BY <1>6 DEF F!Release
<1>7. ASSUME NEW t \in Thread, F!FutexWake(t) PROVE F!LockWordInv'
  BY <1>7 DEF F!FutexWake, F!Asleep
<1>8. CASE UNCHANGED wordVars
  BY <1>8 DEF wordVars
<1> QED
  BY <1>1, <1>2, <1>3, <1>4, <1>5, <1>6, <1>7, <1>8 DEF F!Next, F!Proceed

\* A thread that is awake in FutexGetLock, or on its way to FUTEX_WAKE.
Rescuer == \E t \in Thread : word_pc[t] \in {"announce", "wait", "take", "wake"}

\* One step keeps wake-ups from being lost.  A rescuer leaves that role only by
\* setting the word to 2, by going to sleep while it is 2, or by waking a sleeper,
\* who then is one; and a word of 2 is reset only by a thread that becomes one.
LEMMA WakeupStep == F!TypeOK /\ F!NoLostWakeup /\ [F!Next]_wordVars => F!NoLostWakeup'
<1> SUFFICES ASSUME F!TypeOK, F!NoLostWakeup, [F!Next]_wordVars, F!Asleep' # {}
             PROVE  word' = 2 \/ Rescuer'
  BY DEF F!NoLostWakeup, Rescuer
<1> USE DEF F!TypeOK, F!At, F!Goto, Rescuer, F!Asleep
<1>1. ASSUME NEW t \in Thread, F!GetLock(t) PROVE word' = 2 \/ Rescuer'
  BY <1>1 DEF F!GetLock, F!NoLostWakeup
<1>2. ASSUME NEW t \in Thread, F!Interrupted(t) PROVE word' = 2 \/ Rescuer'
  BY <1>2 DEF F!Interrupted
<1>3. ASSUME NEW t \in Thread, F!Announce(t) PROVE word' = 2 \/ Rescuer'
  BY <1>3 DEF F!Announce
<1>4. ASSUME NEW t \in Thread, F!FutexWait(t) PROVE word' = 2 \/ Rescuer'
  BY <1>4 DEF F!FutexWait
<1>5. ASSUME NEW t \in Thread, F!Take(t) PROVE word' = 2 \/ Rescuer'
  BY <1>5 DEF F!Take
<1>6. ASSUME NEW t \in Thread, F!Release(t) PROVE word' = 2 \/ Rescuer'
  BY <1>6 DEF F!Release, F!NoLostWakeup
<1>7. ASSUME NEW t \in Thread, F!FutexWake(t) PROVE word' = 2 \/ Rescuer'
  BY <1>7 DEF F!FutexWake
<1>8. ASSUME UNCHANGED wordVars PROVE word' = 2 \/ Rescuer'
  BY <1>8 DEF wordVars, F!NoLostWakeup
<1> QED
  BY <1>1, <1>2, <1>3, <1>4, <1>5, <1>6, <1>7, <1>8 DEF F!Next, F!Proceed

-----------------------------------------------------------------------------
(* The lock of rda-sync.h                                                  *)

RdaControl == {"idle", "test", "spin", "critical"}

RdaInv ==
  /\ word \in {0, 1} /\ word_pc \in [Thread -> RdaControl]
  /\ word # 0 <=> \E t \in Thread : word_pc[t] = "critical"
  /\ \A t, u \in Thread : word_pc[t] = "critical" /\ word_pc[u] = "critical" => t = u

LEMMA RdaStep == RdaInv /\ [R!Next]_wordVars => RdaInv'
<1> SUFFICES ASSUME RdaInv, [R!Next]_wordVars PROVE RdaInv'
  OBVIOUS
<1> USE DEF RdaInv, RdaControl, R!At, R!Goto
<1>1. ASSUME NEW t \in Thread, R!GetLock(t) PROVE RdaInv'
  BY <1>1 DEF R!GetLock
<1>2. ASSUME NEW t \in Thread, R!TryLock(t) PROVE RdaInv'
  BY <1>2 DEF R!TryLock
<1>3. ASSUME NEW t \in Thread, R!TestAndSet(t) PROVE RdaInv'
  BY <1>3 DEF R!TestAndSet
<1>4. ASSUME NEW t \in Thread, R!Spin(t) PROVE RdaInv'
  BY <1>4 DEF R!Spin
<1>5. ASSUME NEW t \in Thread, R!ReleaseLock(t) PROVE RdaInv'
  BY <1>5 DEF R!ReleaseLock
<1>6. CASE UNCHANGED wordVars
  BY <1>6 DEF wordVars
<1> QED
  BY <1>1, <1>2, <1>3, <1>4, <1>5, <1>6 DEF R!Next, R!Proceed

-----------------------------------------------------------------------------
(* The three of them                                                       *)

\* Of the locks that are not built nobody takes notice.
OthersIdle ==
  /\ built \in {"rda-sync.h", "futex_lock.h", "ticket_lock.h"}
  /\ built = "ticket_lock.h" => word_pc = [t \in Thread |-> "idle"]
  /\ built # "ticket_lock.h" => pc = [t \in Thread |-> "idle"]

LocksInv ==
  /\ OthersIdle
  /\ TypeOK /\ LineInv
  /\ built = "rda-sync.h" => RdaInv
  /\ built = "futex_lock.h" => F!TypeOK /\ F!LockWordInv /\ F!NoLostWakeup

LEMMA LocksInit == MCInit => LocksInv
<1> SUFFICES ASSUME MCInit PROVE LocksInv
  OBVIOUS
<1>1. OthersIdle
  BY DEF MCInit, OthersIdle, Init, R!Init
<1>2. TypeOK /\ LineInv
  BY LineInit DEF MCInit
<1>3. RdaInv
  BY DEF MCInit, R!Init, RdaInv, RdaControl
<1>4. F!TypeOK /\ F!LockWordInv /\ F!NoLostWakeup
  BY DEF MCInit, F!Init, F!TypeOK, F!LockWordInv, F!NoLostWakeup, F!Asleep, F!At, F!Control
<1> QED
  BY <1>1, <1>2, <1>3, <1>4 DEF LocksInv

LEMMA LocksStep == LocksInv /\ [MCNext]_allVars => LocksInv'
<1> SUFFICES ASSUME LocksInv, [MCNext]_allVars PROVE LocksInv'
  OBVIOUS
<1>1. built' = built
  BY DEF MCNext, allVars
<1>2. [Next]_vars
  BY DEF MCNext, allVars
<1>3. TypeOK' /\ LineInv'
  BY <1>2, TypeStep, LineStep DEF LocksInv
<1>4. OthersIdle'
  BY <1>1 DEF LocksInv, OthersIdle, MCNext, allVars, wordVars, vars
<1>5. CASE built = "rda-sync.h"
  <2>1. [R!Next]_wordVars
    BY <1>5 DEF MCNext, allVars
  <2>2. RdaInv'
    BY <1>5, <2>1, RdaStep DEF LocksInv
  <2> QED
    BY <1>1, <1>3, <1>4, <1>5, <2>2 DEF LocksInv
<1>6. CASE built = "futex_lock.h"
  <2>1. [F!Next]_wordVars
    BY <1>6 DEF MCNext, allVars
  <2>2. F!TypeOK' /\ F!LockWordInv' /\ F!NoLostWakeup'
    BY <1>6, <2>1, FutexTypeStep, FutexWordStep, WakeupStep DEF LocksInv
  <2> QED
    BY <1>1, <1>3, <1>4, <1>6, <2>2 DEF LocksInv
<1>7. CASE built = "ticket_lock.h"
  BY <1>1, <1>3, <1>4, <1>7 DEF LocksInv
<1> QED
  BY <1>5, <1>6, <1>7 DEF LocksInv, OthersIdle

\* The inductive invariant of all three locks.
THEOREM LocksAreKept == MCSpec => []LocksInv
  BY LocksInit, LocksStep, PTL DEF MCSpec

\* futex_lock.h leaves no thread asleep with nobody to wake it, and at the lock of
\* ticket_lock.h the threads in line hold the tickets from the one being served to the
\* last one given out, each one ticket, however often the bytes have wrapped.
THEOREM NoWaiterIsLost == MCSpec => []NoWaiterIsForgotten
<1>1. LocksInv => NoWaiterIsForgotten
  BY DEF LocksInv, NoWaiterIsForgotten
<1> QED
  BY <1>1, LocksAreKept, PTL

-----------------------------------------------------------------------------
(* What they implement                                                     *)

\* Who waits for the lock that is built, and who has it.
LEMMA Parts ==
  LocksInv =>
    /\ built = "rda-sync.h" => AllWaiting = R!Waiting /\ AllOwners = R!Owner
    /\ built = "futex_lock.h" => AllWaiting = F!Waiting /\ AllOwners = F!Owner
    /\ built = "ticket_lock.h" => AllWaiting = InQueue /\ AllOwners = Owner
<1> SUFFICES ASSUME LocksInv
             PROVE  /\ built = "rda-sync.h" => AllWaiting = R!Waiting /\ AllOwners = R!Owner
                    /\ built = "futex_lock.h" => AllWaiting = F!Waiting /\ AllOwners = F!Owner
                    /\ built = "ticket_lock.h" => AllWaiting = InQueue /\ AllOwners = Owner
  OBVIOUS
<1>1. built # "ticket_lock.h" => InLine = {} /\ Owner = {}
  BY DEF LocksInv, OthersIdle, InLine, Owner
<1>2. CASE built = "rda-sync.h"
  <2>1. F!Waiting = {}
    BY <1>2 DEF LocksInv, RdaInv, RdaControl, F!Waiting
  <2> QED
    BY <1>1, <1>2, <2>1 DEF AllWaiting, AllOwners
<1>3. CASE built = "futex_lock.h"
  <2>1. R!Waiting = {}
    BY <1>3 DEF LocksInv, F!TypeOK, F!Control, R!Waiting
  <2>2. R!Owner = F!Owner
    BY DEF R!Owner, F!Owner, R!At, F!At
  <2> QED
    BY <1>1, <1>3, <2>1, <2>2 DEF AllWaiting, AllOwners
<1>4. CASE built = "ticket_lock.h"
  <2>1. F!Waiting = {} /\ R!Waiting = {} /\ R!Owner = {}
    BY <1>4 DEF LocksInv, OthersIdle, F!Waiting, R!Waiting, R!Owner, R!At
  <2> QED
    BY <1>4, <2>1 DEF AllWaiting, AllOwners, InQueue
<1> QED
  BY <1>2, <1>3, <1>4 DEF LocksInv, OthersIdle

LEMMA RdaMutexStep ==
  ASSUME RdaInv, [R!Next]_wordVars,
         AllWaiting = R!Waiting, AllOwners = R!Owner,
         AllWaiting' = R!Waiting', AllOwners' = R!Owner'
  PROVE  [A!Next]_(A!vars)
<1> USE DEF RdaInv, RdaControl, R!At, R!Goto, R!Waiting, R!Owner
<1>1. ASSUME NEW t \in Thread, R!GetLock(t) PROVE A!Request(t)
  BY <1>1 DEF R!GetLock, A!Request
<1>2. ASSUME NEW t \in Thread, R!TestAndSet(t) PROVE A!Acquire(t) \/ UNCHANGED A!vars
  <2>1. CASE word = 0
    <3>1. R!Owner = {} /\ t \in R!Waiting
      BY <1>2, <2>1 DEF R!TestAndSet
    <3>2. R!Owner' = {t} /\ R!Waiting' = R!Waiting \ {t}
      BY <1>2, <2>1, <3>1 DEF R!TestAndSet
    <3> QED
      BY <3>1, <3>2 DEF A!Acquire
  <2>2. CASE word # 0
    BY <1>2, <2>2 DEF R!TestAndSet, A!vars
  <2> QED
    BY <2>1, <2>2
<1>3. ASSUME NEW t \in Thread, R!TryLock(t) PROVE A!AcquireAtOnce(t) \/ UNCHANGED A!vars
  <2>1. CASE word = 0
    <3>1. R!Owner = {} /\ t \notin R!Waiting
      BY <1>3, <2>1 DEF R!TryLock
    <3>2. R!Owner' = {t} /\ R!Waiting' = R!Waiting
      BY <1>3, <2>1, <3>1 DEF R!TryLock
    <3> QED
      BY <3>1, <3>2 DEF A!AcquireAtOnce
  <2>2. CASE word # 0
    BY <1>3, <2>2 DEF R!TryLock, A!vars
  <2> QED
    BY <2>1, <2>2
<1>4. ASSUME NEW t \in Thread, R!ReleaseLock(t) PROVE A!Release(t)
  <2>1. R!Owner = {t}
    BY <1>4 DEF R!ReleaseLock
  <2>2. R!Owner' = {} /\ R!Waiting' = R!Waiting
    BY <1>4, <2>1 DEF R!ReleaseLock
  <2> QED
    BY <2>1, <2>2 DEF A!Release
<1>5. ASSUME NEW t \in Thread, R!Spin(t) PROVE UNCHANGED A!vars
  BY <1>5 DEF R!Spin, A!vars
<1>6. CASE UNCHANGED wordVars
  BY <1>6 DEF wordVars, A!vars
<1> QED
  BY <1>1, <1>2, <1>3, <1>4, <1>5, <1>6 DEF R!Next, R!Proceed, A!Next

LEMMA FutexMutexStep ==
  ASSUME F!TypeOK, F!LockWordInv, [F!Next]_wordVars,
         AllWaiting = F!Waiting, AllOwners = F!Owner,
         AllWaiting' = F!Waiting', AllOwners' = F!Owner'
  PROVE  [A!Next]_(A!vars)
<1> USE DEF F!TypeOK, F!At, F!Goto, F!Waiting, F!Owner
<1>1. ASSUME NEW t \in Thread, F!GetLock(t) PROVE A!Request(t) \/ A!AcquireAtOnce(t)
  <2>1. CASE word = 0
    <3>1. F!Owner = {} /\ t \notin F!Waiting
      BY <1>1, <2>1 DEF F!GetLock, F!LockWordInv
    <3>2. F!Owner' = {t} /\ F!Waiting' = F!Waiting
      BY <1>1, <2>1, <3>1 DEF F!GetLock
    <3> QED
      BY <3>1, <3>2 DEF A!AcquireAtOnce
  <2>2. CASE word # 0
    BY <1>1, <2>2 DEF F!GetLock, A!Request
  <2> QED
    BY <2>1, <2>2
<1>2. ASSUME NEW t \in Thread, F!Take(t) PROVE A!Acquire(t) \/ UNCHANGED A!vars
  <2>1. CASE word = 0
    <3>1. F!Owner = {} /\ t \in F!Waiting
      BY <1>2, <2>1 DEF F!Take, F!LockWordInv
    <3>2. F!Owner' = {t} /\ F!Waiting' = F!Waiting \ {t}
      BY <1>2, <2>1, <3>1 DEF F!Take
    <3> QED
      BY <3>1, <3>2 DEF A!Acquire
  <2>2. CASE word # 0
    BY <1>2, <2>2 DEF F!Take, A!vars
  <2> QED
    BY <2>1, <2>2
<1>3. ASSUME NEW t \in Thread, F!Release(t) PROVE A!Release(t)
  <2>1. F!Owner = {t}
    BY <1>3 DEF F!Release, F!LockWordInv
  <2>2. F!Owner' = {} /\ F!Waiting' = F!Waiting
    BY <1>3, <2>1 DEF F!Release
  <2> QED
    BY <2>1, <2>2 DEF A!Release
<1>4. ASSUME NEW t \in Thread, F!Interrupted(t) \/ F!Announce(t) \/ F!FutexWait(t)
      PROVE  UNCHANGED A!vars
  BY <1>4 DEF F!Interrupted, F!Announce, F!FutexWait, A!vars
<1>5. ASSUME NEW t \in Thread, F!FutexWake(t) PROVE UNCHANGED A!vars
  BY <1>5 DEF F!FutexWake, F!Asleep, A!vars
<1>6. CASE UNCHANGED wordVars
  BY <1>6 DEF wordVars, A!vars
<1> QED
  BY <1>1, <1>2, <1>3, <1>4, <1>5, <1>6 DEF F!Next, F!Proceed, A!Next

LEMMA TicketMutexStep ==
  ASSUME TypeOK, LineInv, [Next]_vars,
         AllWaiting = InQueue, AllOwners = Owner,
         AllWaiting' = InQueue', AllOwners' = Owner'
  PROVE  [A!Next]_(A!vars)
<1>1. ASSUME NEW t \in Thread, Draw(t) PROVE A!Request(t) \/ A!AcquireAtOnce(t)
  <2>1. t \notin InLine /\ InLine' = InLine \cup {t}
    BY <1>1 DEF Draw, InLine, Goto, TypeOK
  <2>2. CASE next = serving
    <3>1. InLine = {} /\ Owner = {}
      BY <2>1, <2>2, NobodyInLine
    <3>2. Owner' = {t}
      BY <1>1, <2>2, <3>1 DEF Draw, Owner, Goto, TypeOK
    <3> QED
      BY <2>1, <3>1, <3>2 DEF InQueue, A!AcquireAtOnce
  <2>3. CASE next # serving
    <3>1. Owner' = Owner /\ t \notin Owner
      BY <1>1, <2>3 DEF Draw, Owner, Goto, TypeOK
    <3> QED
      BY <2>1, <3>1 DEF InQueue, A!Request
  <2> QED
    BY <2>2, <2>3
<1>2. ASSUME NEW t \in Thread, Spin(t) PROVE A!Acquire(t)
  <2>1. t \in InLine /\ t \notin Owner /\ ticket[t] = serving
    BY <1>2 DEF Spin, InLine, Owner
  <2>2. Owner = {}
    BY <2>1, OwnerAlone
  <2>3. InLine' = InLine /\ Owner' = {t}
    BY <1>2, <2>2 DEF Spin, InLine, Owner, Goto, TypeOK
  <2> QED
    BY <2>1, <2>2, <2>3 DEF InQueue, A!Acquire
<1>3. ASSUME NEW t \in Thread, TryTake(t) PROVE A!AcquireAtOnce(t) \/ UNCHANGED A!vars
  <2>1. t \notin InLine
    BY <1>3 DEF TryTake, InLine
  <2>2. CASE serving = ticket[t] /\ next = ticket[t]
    <3>1. InLine = {} /\ Owner = {}
      BY <2>1, <2>2, NobodyInLine
    <3>2. InLine' = {t} /\ Owner' = {t}
      BY <1>3, <2>2, <3>1 DEF TryTake, InLine, Owner, Goto, TypeOK
    <3> QED
      BY <3>1, <3>2 DEF InQueue, A!AcquireAtOnce
  <2>3. CASE ~(serving = ticket[t] /\ next = ticket[t])
    <3>1. InLine' = InLine /\ Owner' = Owner
      BY <1>3, <2>3 DEF TryTake, InLine, Owner, Goto, TypeOK
    <3> QED
      BY <3>1 DEF InQueue, A!vars
  <2> QED
    BY <2>2, <2>3
<1>4. ASSUME NEW t \in Thread, Unlock(t) PROVE A!Release(t)
  <2>1. Owner = {t}
    BY <1>4, OwnerAlone DEF Unlock, Owner
  <2>2. Owner' = {} /\ InLine' = InLine \ {t}
    BY <1>4, <2>1 DEF Unlock, InLine, Owner, Goto, TypeOK
  <2> QED
    BY <2>1, <2>2 DEF InQueue, A!Release
<1>5. ASSUME TypeOK, NEW t \in Thread, TryRead(t) PROVE UNCHANGED A!vars
  <2>1. InLine' = InLine /\ Owner' = Owner
    BY <1>5 DEF TryRead, InLine, Owner, Goto, TypeOK
  <2> QED
    BY <2>1 DEF InQueue, A!vars
<1>6. CASE UNCHANGED vars
  BY <1>6 DEF vars, InQueue, InLine, Owner, A!vars
<1> QED
  BY <1>1, <1>2, <1>3, <1>4, <1>5, <1>6 DEF Next, A!Next

\* Each of the three locks lets in one thread at a time, which has asked for it or
\* finds it free, and nobody gives up waiting but to own the lock.
THEOREM LocksImplementMutex == MCSpec => EveryLockIsAMutex
<1>1. MCInit => A!Init
  <2> SUFFICES ASSUME MCInit PROVE A!Init
    OBVIOUS
  <2>1. AllWaiting = {}
    BY DEF MCInit, Init, R!Init, AllWaiting, R!Waiting, F!Waiting, InLine
  <2>2. AllOwners = {}
    BY DEF MCInit, Init, R!Init, AllOwners, R!Owner, R!At, Owner
  <2> QED
    BY <2>1, <2>2 DEF A!Init
<1>2. LocksInv /\ LocksInv' /\ [MCNext]_allVars => [A!Next]_(A!vars)
  <2> SUFFICES ASSUME LocksInv, LocksInv', [MCNext]_allVars PROVE [A!Next]_(A!vars)
    OBVIOUS
  <2>1. built' = built
    BY DEF MCNext, allVars
  <2>2. (LocksInv =>
           /\ built = "rda-sync.h" => AllWaiting = R!Waiting /\ AllOwners = R!Owner
           /\ built = "futex_lock.h" => AllWaiting = F!Waiting /\ AllOwners = F!Owner
           /\ built = "ticket_lock.h" => AllWaiting = InQueue /\ AllOwners = Owner)'
    BY Parts, PTL
  <2>3. CASE built = "rda-sync.h"
    <3>1. [R!Next]_wordVars /\ RdaInv
      BY <2>3 DEF LocksInv, MCNext, allVars
    <3> QED
      BY <2>1, <2>2, <2>3, <3>1, Parts, RdaMutexStep
  <2>4. CASE built = "futex_lock.h"
    <3>1. [F!Next]_wordVars /\ F!TypeOK /\ F!LockWordInv
      BY <2>4 DEF LocksInv, MCNext, allVars
    <3> QED
      BY <2>1, <2>2, <2>4, <3>1, Parts, FutexMutexStep
  <2>5. CASE built = "ticket_lock.h"
    <3>1. [Next]_vars /\ TypeOK /\ LineInv
      BY <2>5 DEF LocksInv, MCNext, allVars
    <3> QED
      BY <2>1, <2>2, <2>5, <3>1, Parts, TicketMutexStep
  <2> QED
    BY <2>3, <2>4, <2>5 DEF LocksInv, OthersIdle
<1> QED
  BY <1>1, <1>2, LocksAreKept, PTL DEF MCSpec, EveryLockIsAMutex, A!Spec

\* The ticket lock serves the threads in the order in which they have asked.
THEOREM TicketsAreFair == MCSpec => ImplementsFifoMutex
<1>1. MCInit => M!Init
  <2> SUFFICES ASSUME MCInit PROVE M!Init
    OBVIOUS
  <2>1. TypeOK /\ LineInv
    BY LineInit DEF MCInit
  <2>2. InQueue = {} /\ Owner = {}
    BY DEF MCInit, Init, InQueue, InLine, Owner
  <2>3. Queue = <<>>
    BY <2>1, <2>2, QueueValue, FS_EmptySet
  <2> QED
    BY <2>2, <2>3 DEF M!Init
<1>2. LocksInv /\ LocksInv' /\ [MCNext]_allVars => [M!Next]_(M!vars)
  <2> SUFFICES ASSUME LocksInv, LocksInv', [MCNext]_allVars PROVE [M!Next]_(M!vars)
    OBVIOUS
  <2>1. [Next]_vars
    BY DEF MCNext, allVars
  <2>2. TypeOK /\ LineInv /\ TypeOK' /\ LineInv'
    BY DEF LocksInv
  <2>3. CASE UNCHANGED vars
    BY <2>3 DEF vars, Queue, InLine, Owner, Place, Before, M!vars
  <2>4. ASSUME NEW t \in Thread, Draw(t) PROVE M!Next
    BY <2>2, <2>4, DrawStep DEF M!Next
  <2>5. ASSUME NEW t \in Thread, Spin(t) PROVE M!Next
    BY <2>2, <2>5, SpinStep DEF M!Next
  <2>6. ASSUME NEW t \in Thread, TryRead(t) \/ TryTake(t) PROVE [M!Next]_(M!vars)
    BY <2>2, <2>6, TryStep DEF M!Next
  <2>7. ASSUME NEW t \in Thread, Unlock(t) PROVE M!Next
    BY <2>2, <2>7, UnlockStep DEF M!Next
  <2> QED
    BY <2>1, <2>3, <2>4, <2>5, <2>6, <2>7 DEF Next
<1> QED
  BY <1>1, <1>2, LocksAreKept, PTL DEF MCSpec, ImplementsFifoMutex, M!Spec
=============================================================================
