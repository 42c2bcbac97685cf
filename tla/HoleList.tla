------------------------------ MODULE HoleList ------------------------------
(***************************************************************************)
(* A reuse stack as a list: blocks, last used first, and the holes that    *)
(* invalidated blocks leave, so that the blocks below keep their depth.    *)
(***************************************************************************)
EXTENDS Integers, Sequences, SequencesExt, FiniteSetsExt

Hole == -1         \* not the address of a block
NotFound == -1     \* not a depth

HolesOf(list) == {i \in DOMAIN list : list[i] = Hole}
BlocksOf(list) == ToSet(list) \ {Hole}

DepthIn(list, a) ==
  IF a \in ToSet(list) THEN (CHOOSE i \in DOMAIN list : list[i] = a) - 1 ELSE NotFound

\* The block moves to the top.  If it is new or below the deepest hole it fills that
\* hole, and the place it comes from becomes the hole.
Accessed(list, a) ==
  LET depth == DepthIn(list, a)
      deepest == Max(HolesOf(list))
      hole_filled == HolesOf(list) # {} /\ (depth = NotFound \/ deepest <= depth)
      left == IF depth = NotFound THEN list
              ELSE IF hole_filled THEN ReplaceAt(list, depth + 1, Hole)
              ELSE RemoveAt(list, depth + 1)
  IN Cons(a, IF hole_filled THEN RemoveAt(left, deepest) ELSE left)

Invalidated(list, a) == ReplaceAt(list, DepthIn(list, a) + 1, Hole)
=============================================================================
