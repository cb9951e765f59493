CONSTANTS
  a = a
  b = b
  NULL = NULL
  Root = Root
  Order <- MCOrder
  Class <- TwoFrames
  Place <- Beyond
  Frame <- MCFrame
  Window <- MCWindow
  Border = 0
  Margin = 1
  MaxCalls = 2
SPECIFICATION Spec
PROPERTY RedrawEnds
