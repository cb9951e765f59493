CONSTANTS
  root = root
  win = win
  quit = quit
  grip = grip
  a = a
  b = b
  c = c
  NULL = NULL
  Root = root
  Widget <- MCWidget
  Toplevel <- MCToplevel
  QuitButton <- MCQuitButton
  ResizeButton <- MCResizeButton
SPECIFICATION Spec
INVARIANT TypeOK
INVARIANT WellLinked
PROPERTY ImplementsLife
INVARIANT GripLast
INVARIANT CallsComplete
PROPERTY DrawingOrder
INVARIANT DestructorsHonest
