CONSTANTS
  a = a
  b = b
  NULL = NULL
  Root = Root
  Order <- MCOrder
  Class <- FrameAndButton
  Place <- OneOut
  Frame <- MCFrame
  Window <- MCWindow
  Border = 0
  Margin = 1
  MaxCalls = 2
SPECIFICATION Spec
INVARIANT TypeOK
INVARIANT DrawnInWindow
 
PROPERTY RedrawEnds
