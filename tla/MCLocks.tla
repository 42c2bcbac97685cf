------------------------------ MODULE MCLocks ------------------------------
(***************************************************************************)
(* The three locks that the code is built with: a behaviour is one of the  *)
(* lock that is chosen at the start, and what the other locks keep stays   *)
(* as it is.  TicketLock has its own variables; RdaLock and FutexLock are  *)
(* words, with word_pc as the program counters of their threads.           *)
(***************************************************************************)
EXTENDS TicketLock

VARIABLES built,     \* the header of the lock
          word,      \* the word of RdaLock or FutexLock
          word_pc

R == INSTANCE RdaLock WITH lock <- word, pc <- word_pc
F == INSTANCE FutexLock WITH lock <- word, pc <- word_pc

wordVars == <<word, word_pc>>
allVars == <<vars, wordVars, built>>

MCInit ==
  /\ Init /\ R!Init /\ F!Init
  /\ built \in {"rda-sync.h", "futex_lock.h", "ticket_lock.h"}

MCNext ==
  /\ UNCHANGED built
  /\ \/ built = "rda-sync.h" /\ R!Next /\ UNCHANGED vars
     \/ built = "futex_lock.h" /\ F!Next /\ UNCHANGED vars
     \/ built = "ticket_lock.h" /\ Next /\ UNCHANGED wordVars

\* A thread that has asked for the lock keeps running, and no critical section is
\* endless.
Proceed(t) ==
  /\ UNCHANGED built
  /\ \/ built = "rda-sync.h" /\ R!Proceed(t) /\ UNCHANGED vars
     \/ built = "futex_lock.h" /\ F!Proceed(t) /\ UNCHANGED vars
     \/ built = "ticket_lock.h" /\ (Spin(t) \/ Unlock(t)) /\ UNCHANGED wordVars

MCSpec == MCInit /\ [][MCNext]_allVars /\ \A t \in Thread : WF_allVars(Proceed(t))

-----------------------------------------------------------------------------
(* Properties                                                              *)

\* The threads that have asked for the lock and do not have it, and those that do.
AllWaiting == R!Waiting \cup F!Waiting \cup (InLine \ Owner)
AllOwners == R!Owner \cup Owner

A == INSTANCE Mutex WITH waiting <- AllWaiting, owner <- AllOwners

\* Each lock is a mutual exclusion lock: no thread gets in while another is, and
\* nobody leaves the waiting threads but to own the lock.
EveryLockIsAMutex == A!Spec

\* While threads wait, somebody gets in: a late exchange of a thread that spins on
\* the RdaLock leaves no 1 behind that belongs to nobody, and the sleepers of the
\* futex lock do not all sleep.
SomebodyGetsIn == AllWaiting # {} ~> AllOwners # {}

\* Nobody who waits is forgotten: a sleeper of the futex lock is always remembered, by the
\* word or by a thread on its way, and a thread at the ticket lock has its own place in a
\* line without gaps, however often the bytes have wrapped.
NoWaiterIsForgotten == (built = "futex_lock.h" => F!NoLostWakeup) /\ LineInv
=============================================================================
