--------------------------- MODULE CoherentCopies ---------------------------
(***************************************************************************)
(* What invalidation by writes promises: a cache gets a copy of a block by *)
(* accessing it, and loses it only to another cache's write, which is left *)
(* with the only copy.                                                     *)
(***************************************************************************)
CONSTANTS Block, Cache

VARIABLE copies       \* per block, the caches that have it

Init == copies = [b \in Block |-> {}]

MayGet(c, b) == copies'[b] \in {copies[b], copies[b] \cup {c}}

Read(c) == \A b \in Block : MayGet(c, b)

\* The first block of a write is taken from the other caches.
Write(c, first) ==
  /\ copies'[first] = {c}
  /\ \A b \in Block \ {first} : MayGet(c, b)

Next ==
  /\ DOMAIN copies' = Block
  /\ \E c \in Cache : Read(c) \/ \E first \in Block : Write(c, first)

Spec == Init /\ [][Next]_copies
=============================================================================
