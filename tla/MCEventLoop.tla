---------------------------- MODULE MCEventLoop ----------------------------
EXTENDS EventLoop

CONSTANTS root, win, quit, grip, but, cb

MCWidget == {root, win, quit, grip, but}
MCButton == {quit, grip, but}
MCToplevel == {win}
MCQuitButton == [t \in MCToplevel |-> quit]
MCResizeButton == [t \in MCToplevel |-> grip]
MCUserCallback == {cb}
MCUserBinding == {
  OnTag("ei_ev_keydown", "all", cb),
  OnWidget("ei_ev_mouse_buttondown", but, cb) }

CarefulUserBinding == MCUserBinding \cup {
  OnWidget("ei_ev_mouse_buttondown", quit, "quit_toplevel_event"),
  OnWidget("ei_ev_mouse_buttondown", grip, "beg_resize") }

=============================================================================
