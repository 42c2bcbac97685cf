CONSTANTS
  Block = {0, 1, 2, 3, 4, 5, 6, 7, 8}
  blockBytes = 2
  Thread = {1, 2, 3}
  Setups <- ToolSetups
  MaxBuffered = 2
  MaxDistance = 7
  kMissDistance = 0
  kPrefetchRepeatFrequency = 3
  kRequestProximity = 2
  kStrideTableSize = 1
  kStreamTableSize = 2
  kInstBytes = 2
SPECIFICATION ToolSpec
INVARIANT MissesAreAccounted
INVARIANT PeriodsAgree
INVARIANT SharingIncludes
INVARIANT StatsAddUp
INVARIANT PredictionsFit
INVARIANT StoppedIsFlushed
INVARIANT PrefetchesAreSpaced
INVARIANT PrefetchedIsInStack
PROPERTY ImplementsCoherentCopies
VIEW ToolView
CHECK_DEADLOCK FALSE
