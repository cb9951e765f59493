CONSTANTS
  root = root
  win = win
  quit = quit
  grip = grip
  but = but
  cb = cb
  NULL = NULL
  Root = root
  Widget <- MCWidget
  Button <- MCButton
  Toplevel <- MCToplevel
  QuitButton <- MCQuitButton
  ResizeButton <- MCResizeButton
  UserCallback <- MCUserCallback
  UserBinding <- MCUserBinding
  MaxBind = 11
  Careful = FALSE
SPECIFICATION Spec
PROPERTY EveryTurnEnds
PROPERTY QuitIsHonoured
INVARIANT TypeOK
INVARIANT DestroyedIsUnbound
INVARIANT TreeRooted
PROPERTY ReleaseEndsGestures
