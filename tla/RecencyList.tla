---------------------------- MODULE RecencyList ----------------------------
(***************************************************************************)
(* One list per cache of what it used, last used first: blocks, the holes  *)
(* that invalidated blocks leave, and marks, each put on top when its      *)
(* block is sampled.  How many blocks and holes lie above a mark is the    *)
(* reuse distance of that sample.  Of several holes the newest is filled.  *)
(***************************************************************************)
EXTENDS Integers, Sequences, SequencesExt, FiniteSetsExt

Entry(kind, b) == <<kind, b>>
Hole == Entry("hole", 0)

Places(list, entry) == {i \in DOMAIN list : list[i] = entry}
IsMark(entry) == entry[1] = "mark"

\* What lies below all marks is of no interest.
Trimmed(list) == SubSeq(list, 1, Max({0} \cup {i \in DOMAIN list : IsMark(list[i])}))

\* The block moves to the top and fills the newest hole, unless it lies above all
\* holes; where it was is then the hole.
Touched(list, b) ==
  LET block == Entry("block", b)
      hole == Min({Len(list) + 1} \cup Places(list, Hole))
      place == Min({Len(list) + 1} \cup Places(list, block))
      Without(l, i) == IF i > Len(l) THEN l ELSE RemoveAt(l, i)
  IN
  Cons(block, IF place <= hole THEN Without(list, place)
              ELSE Without([i \in DOMAIN list |-> IF i = place THEN Hole ELSE list[i]], hole))

\* Another cache wrote the block.
Snooped(list, b) ==
  [i \in DOMAIN list |-> IF list[i] = Entry("block", b) THEN Hole ELSE list[i]]

Marked(list, b) == Cons(Entry("mark", b), list)
Unmarked(list, blocks) ==
  LET kept[n \in 0 .. Len(list)] ==
        IF n = 0 THEN <<>>
        ELSE IF IsMark(list[n]) /\ list[n][2] \in blocks THEN kept[n - 1]
        ELSE Append(kept[n - 1], list[n])
  IN Trimmed(kept[Len(list)])

Marks(list) == {list[i][2] : i \in {j \in DOMAIN list : IsMark(list[j])}}

AboveMark(list, b) ==
  LET mark == CHOOSE i \in DOMAIN list : list[i] = Entry("mark", b) IN
  {i \in 1 .. mark - 1 : ~IsMark(list[i])}
=============================================================================
