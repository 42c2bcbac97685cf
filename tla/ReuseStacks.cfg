CONSTANTS
  Address = {a1, a2, a3, a4, a5}
  MaxReferences = 40
  errorRate <- Half
  CompressAt = 4
SPECIFICATION MCSpec
INVARIANT TreesAreSound
INVARIANT ErrorIsBounded
PROPERTY ImplementsHoleStack
VIEW StacksView
