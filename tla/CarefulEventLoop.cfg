CONSTANTS
  root = root
  win = win
  quit = quit
  grip = grip
  but = but
  cb = cb
  NULL = NULL
  Root = root
  Widget <- MCWidget
  Button <- MCButton
  Toplevel <- MCToplevel
  QuitButton <- MCQuitButton
  ResizeButton <- MCResizeButton
  UserCallback <- MCUserCallback
  UserBinding <- CarefulUserBinding
  MaxBind = 11
  Careful = TRUE
SPECIFICATION Spec
INVARIANT NoFreedAccess
INVARIANT CarefulInv
