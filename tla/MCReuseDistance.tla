--------------------------- MODULE MCReuseDistance ---------------------------
(***************************************************************************)
(* Configurations of ReuseDistance for TLC: those of StackHolder by        *)
(* itself, and small programs under the two tools.                         *)
(***************************************************************************)
EXTENDS MCStackHolder, ReuseDistance

Of(block) == [address |-> block * blockBytes, size |-> blockBytes]
Instruction(PC, reads, writes) == [PC |-> PC, size |-> 1, reads |-> reads, writes |-> writes]
Reads(blocks) == {Instruction(1, <<Of(b)>>, <<>>) : b \in blocks}
Writes(blocks) == {Instruction(1, <<>>, <<Of(b)>>) : b \in blocks}

\* A setup for a program under a tool.
Tool(tool, kind, program, max_calls, mark_kinds, max_marks, sizes, delay, prefetchers) ==
  [ kinds |-> {kind}, threads |-> DOMAIN program, accesses |-> {},
    do_prefetch |-> prefetchers # <<>>, requests |-> {}, do_fetch |-> FALSE, switches |-> TRUE,
    tool |-> tool, program |-> program, max_calls |-> max_calls,
    marks |-> mark_kinds, max_marks |-> max_marks, sizes |-> sizes,
    delay |-> delay, prefetchers |-> prefetchers ]

ByItself(s) ==
  s @@ [tool |-> "none", program |-> [t \in s.threads |-> {}], max_calls |-> 0,
        marks |-> {}, max_marks |-> 0, sizes |-> {}, delay |-> 0, prefetchers |-> <<>>]

Alone == [t \in {1} |-> Reads({3, 4, 5})]
Prefetching(delay, max_calls, prefetchers, program) ==
  Tool("reusedistance", "sim", program, max_calls, {"timer"}, 1, {}, delay, prefetchers)

PrefetchSetups ==
  { Prefetching(0, 7, <<NewStride>>, Alone),
    Prefetching(1, 6, <<NewStride, NewDCU>>, Alone),
    Prefetching(2, 6, <<NewStream>>, Alone),
    Prefetching(0, 5, <<NewStride>>, [t \in {1, 2} |-> IF t = 1 THEN Reads({3, 4, 5})
                                                                ELSE Writes({6})]) }

\* The fetched line after the instruction holds the data it changes.
Fetching == [t \in {1, 2} |-> IF t = 1 THEN {[ PC |-> 5, size |-> 1, reads |-> <<Of(3), Of(2)>>,
                                              writes |-> <<Of(3)>> ]}
                                        ELSE Writes({3})]
FetchSetups ==
  {[ Tool("reusedistance", "sim", Fetching, 4, {"timer"}, 3, {}, 0, <<>>)
       EXCEPT !.do_fetch = TRUE ]}

TwoThreads == [t \in {1, 2} |-> IF t = 1 THEN Reads({3, 4}) ELSE Writes({3})]
OneBlock == [t \in {1, 2} |-> IF t = 1 THEN Reads({3}) ELSE Writes({3})]

PeriodSetups ==
  { Tool("reusedistance", "sim", TwoThreads, 3, {"timer"}, 2, {<<"sim", 4>>}, 0, <<>>),
    Tool("reusedistance", "sim", OneBlock, 3, {"timer", "period", "local"}, 2, {<<"sim", 2>>}, 0, <<>>),
    Tool("reusedistance", "shared", OneBlock, 3, {"timer", "period"}, 2,
         {<<"pair", 2>>, <<"all", 2>>}, 0, <<>>),
    Tool("reusedistance2stacks", "sim", OneBlock, 3, {"timer", "local"}, 2, {<<"sim", 2>>}, 0, <<>>) }

ToolSetups == {ByItself(s) : s \in AllSetups} \cup PrefetchSetups \cup FetchSetups \cup PeriodSetups

ToolView == <<CountedView, toolVars>>
=============================================================================
