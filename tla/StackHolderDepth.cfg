CONSTANTS
  Block = {0, 1, 2}
  blockBytes = 2
  Thread = {1, 2}
  Setups <- DepthSetups
  MaxBuffered = 1
SPECIFICATION Spec
VIEW CountedView
INVARIANT HolesKeepDepths
