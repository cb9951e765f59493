CONSTANTS
  root = root
  win = win
  quit = quit
  grip = grip
  but = but
  cb = cb
  NULL = NULL
  Root = root
  Widget <- MCWidget
  Button <- MCButton
  Toplevel <- MCToplevel
  QuitButton <- MCQuitButton
  ResizeButton <- MCResizeButton
  UserCallback <- MCUserCallback
  UserBinding <- MCUserBinding
  MaxBind = 12
  Careful = FALSE
SPECIFICATION Spec
INVARIANT AnimatedButtonLives
