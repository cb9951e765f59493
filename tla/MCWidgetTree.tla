---------------------------- MODULE MCWidgetTree ----------------------------
EXTENDS WidgetTree

CONSTANTS root, win, quit, grip, a, b, c

MCWidget == {root, win, quit, grip, a, b, c}
MCToplevel == {win}
MCQuitButton == [t \in MCToplevel |-> quit]
MCResizeButton == [t \in MCToplevel |-> grip]

=============================================================================
