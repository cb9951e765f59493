CONSTANTS
  root = root
  win = win
  box = box
  ok = ok
  NULL = NULL
  Root = root
  Parent <- MCParent
  Class <- MCClass
  Sizes <- MCSizes
  Borders <- MCBorders
  Calls <- MCCalls
  Window <- MCWindow
  ThickBorder = 1
  DefaultSize = 5
SPECIFICATION Spec
INVARIANT LaidOut
INVARIANT RequestedHonoured
