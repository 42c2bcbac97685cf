CONSTANTS
  ThreadCount = 3
  FounderCount = 3
  max_threads = 3
  MaxGeneration = 3
SPECIFICATION FairSpec
INVARIANT TypeOK
INVARIANT StageSeparation
INVARIANT NoFailure
INVARIANT TeamAccounting
INVARIANT RoundLedger
INVARIANT EverySlotServedOnce
PROPERTY AwakeFrozenDuringRound
PROPERTY ImplementsRendezvous
PROPERTY NobodySpinsForever
