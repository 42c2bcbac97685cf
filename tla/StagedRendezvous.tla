-------------------------- MODULE StagedRendezvous --------------------------
(***************************************************************************)
(* What the barrier of rda-sync.cc promises to its callers, without locks, *)
(* counters or spinning: all awake threads move together through the       *)
(* segments of a round.  Segment 0 is application code (it ends at         *)
(* WaitStart), segments 1 and 2 are the two synchronised stages (they end  *)
(* at WaitStage(1) and WaitStage(2)).  A sleeping thread is not waited     *)
(* for; falling asleep may be what the others were waiting for.            *)
(***************************************************************************)
EXTENDS Naturals

CONSTANTS Thread,       \* the threads, all of them members from the start
          StageCount    \* number of segments of a round (stage_count)

VARIABLES asleep,       \* threads that are not taking part
          segment,      \* the segment every awake thread is in
          arrived,      \* awake threads that have reached its end
          round         \* number of the current round, from 1

vars == <<asleep, segment, arrived, round>>

Init ==
  /\ asleep = {}
  /\ segment = 0
  /\ arrived = {}
  /\ round = 1

\* Everybody has arrived: the whole team enters the next segment at once.
Release ==
  /\ arrived' = {}
  /\ segment' = (segment + 1) % StageCount
  /\ round' = IF segment + 1 = StageCount THEN round + 1 ELSE round

\* An awake thread reaches the end of the segment; the last one releases all.
Arrive(t) ==
  /\ t \notin asleep \cup arrived
  /\ IF asleep \cup arrived \cup {t} = Thread
       THEN Release
       ELSE arrived' = arrived \cup {t} /\ UNCHANGED <<segment, round>>
  /\ UNCHANGED asleep

\* A thread leaves the team between rounds; if the others are all waiting for
\* it, they go on without it.
FallAsleep(t) ==
  /\ segment = 0
  /\ t \notin asleep \cup arrived
  /\ asleep' = asleep \cup {t}
  /\ IF arrived # {} /\ asleep' \cup arrived = Thread
       THEN Release
       ELSE UNCHANGED <<arrived, segment, round>>

\* A thread comes back, but only while no round has begun.
WakeUp(t) ==
  /\ segment = 0 /\ arrived = {}
  /\ t \in asleep
  /\ asleep' = asleep \ {t}
  /\ UNCHANGED <<segment, arrived, round>>

Next == \E t \in Thread : Arrive(t) \/ FallAsleep(t) \/ WakeUp(t)

Spec == Init /\ [][Next]_vars
=============================================================================
