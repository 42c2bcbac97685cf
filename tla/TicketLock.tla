---------------------------- MODULE TicketLock ----------------------------
(***************************************************************************)
(* The lock of PinReuseDistance/ticket_lock.h: global_lock of              *)
(* sampledreuse_parallel.cc when it is built to run one thread at a time,  *)
(* and a choice for stacks_lock of reusedistance.cc.  The low 16 bits of   *)
(* slock are two bytes: the ticket being served and the next one to give   *)
(* out.  Each instruction that touches memory is a step.  Both bytes wrap. *)
(***************************************************************************)
EXTENDS Integers, FiniteSets

CONSTANTS ThreadCount,
          TicketCount    \* values of a byte: 256 (TICKET_SHIFT is 8)

ASSUME TicketAssumption ==
  /\ ThreadCount \in Nat \ {0}
  /\ TicketCount \in Nat
  /\ ThreadCount <= TicketCount

Thread == 0 .. ThreadCount - 1
Ticket == 0 .. TicketCount - 1

VARIABLES serving,   \* low byte of slock
          next,      \* high byte of slock
          pc,        \* per thread, see Control
          ticket     \* per thread, the ticket it drew, or saw as next in trylock

vars == <<serving, next, pc, ticket>>

Control ==
  { "idle",        \* does not want the lock
    "spin",        \* compares its ticket with the low byte
    "try",         \* in trylock, about to compare and exchange
    "critical" }   \* owns the lock

Init ==
  /\ serving = 0 /\ next = 0
  /\ pc = [t \in Thread |-> "idle"]
  /\ ticket = [t \in Thread |-> 0]

Goto(t, label) == pc' = [pc EXCEPT ![t] = label]

\* The byte after n.
Plus1(n) == IF n = TicketCount - 1 THEN 0 ELSE n + 1

\* __ticket_spin_lock: xadd draws a ticket and reads the byte to compare it with.
Draw(t) ==
  /\ pc[t] = "idle"
  /\ ticket' = [ticket EXCEPT ![t] = next]
  /\ next' = Plus1(next)
  /\ Goto(t, IF next = serving THEN "critical" ELSE "spin")
  /\ UNCHANGED serving

Spin(t) ==
  /\ pc[t] = "spin"
  /\ serving = ticket[t]
  /\ Goto(t, "critical")
  /\ UNCHANGED <<serving, next, ticket>>

\* __ticket_spin_trylock reads both bytes and gives up unless they are equal ...
TryRead(t) ==
  /\ pc[t] = "idle" /\ next = serving
  /\ ticket' = [ticket EXCEPT ![t] = next]
  /\ Goto(t, "try")
  /\ UNCHANGED <<serving, next>>

\* Mutant: only the low byte is compared.
TryTakeLow(t) ==
  /\ pc[t] = "try"
  /\ IF serving = ticket[t]
       THEN next' = Plus1(ticket[t]) /\ Goto(t, "critical")
       ELSE Goto(t, "idle") /\ UNCHANGED next
  /\ UNCHANGED <<serving, ticket>>

\* ... and draws a ticket if they are still what it has read.
TryTake(t) ==
  /\ pc[t] = "try"
  /\ IF serving = ticket[t] /\ next = ticket[t]
       THEN next' = Plus1(next) /\ Goto(t, "critical")
       ELSE Goto(t, "idle") /\ UNCHANGED next
  /\ UNCHANGED <<serving, ticket>>

\* Mutant: the increment is lost.
UnlockLost(t) ==
  /\ pc[t] = "critical"
  /\ Goto(t, "idle")
  /\ UNCHANGED <<serving, next, ticket>>

\* __ticket_spin_unlock.
Unlock(t) ==
  /\ pc[t] = "critical"
  /\ serving' = Plus1(serving)
  /\ Goto(t, "idle")
  /\ UNCHANGED <<next, ticket>>

-----------------------------------------------------------------------------

Next ==
  \E t \in Thread : Draw(t) \/ Spin(t) \/ TryRead(t) \/ TryTake(t) \/ Unlock(t)

Spec == Init /\ [][Next]_vars

-----------------------------------------------------------------------------
(* Properties                                                              *)

TypeOK ==
  /\ serving \in Ticket /\ next \in Ticket
  /\ pc \in [Thread -> Control]
  /\ ticket \in [Thread -> Ticket]

InLine == {t \in Thread : pc[t] \in {"spin", "critical"}}
Owner == {t \in Thread : pc[t] = "critical"}

\* Tickets to be served before ticket n.
Before(n) == IF n >= serving THEN n - serving ELSE n - serving + TicketCount

\* The threads in line hold the tickets from the one being served to the last one
\* given out, each exactly one, and only the first can be in.
LineInv ==
  /\ \A t, u \in InLine : ticket[t] = ticket[u] => t = u
  /\ \A t \in InLine : Before(ticket[t]) < Cardinality(InLine)
  /\ \A t \in Owner : ticket[t] = serving
  /\ next = IF serving + Cardinality(InLine) < TicketCount
              THEN serving + Cardinality(InLine)
              ELSE serving + Cardinality(InLine) - TicketCount

\* Every thread in line gets the lock: there is no starvation.
NobodyStarves == \A t \in Thread : pc[t] = "spin" ~> pc[t] = "critical"

\* The line as FifoMutex describes it: the owner has place 0, the waiting threads
\* the places after it, in the order of their tickets.
Place(t) == Before(ticket[t]) + IF Owner = {} THEN 1 ELSE 0

Queue ==
  [i \in 1 .. Cardinality(InLine \ Owner) |->
     CHOOSE t \in InLine \ Owner : Place(t) = i]

M == INSTANCE FifoMutex WITH queue <- Queue, owner <- Owner

\* The lock implements mutual exclusion in the order of arrival.
ImplementsFifoMutex == M!Spec
=============================================================================
