CONSTANTS
  Block = {0, 1}
  blockBytes = 2
  Thread = {1, 2}
  Setups <- LazySetups
  MaxBuffered = 1
SPECIFICATION Spec
VIEW CountedView
PROPERTY LazyLosesWhatWasWritten
