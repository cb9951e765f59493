------------------------------ MODULE MCRedraw ------------------------------
EXTENDS Redraw

CONSTANTS a, b

MCWindow == Rect(0, 0, 4, 4)
MCOrder == <<a, b>>
MCFrame == [w |-> 2, h |-> 2]

TwoFrames == [w \in {a, b} |-> "frame"]
FrameAndButton == [w \in {a, b} |-> IF w = a THEN "frame" ELSE "button"]

(* The frame may be partly or well outside of the window; the button is    *)
(* inside.                                                                 *)
Corners == {Rect(-1, 3, 2, 2), Rect(3, -1, 2, 2)}
Away == Rect(-4, 1, 1, 1)
Within == {Rect(1, 1, 2, 2), Rect(0, 2, 3, 1)}
OneOut == [w \in {a, b} |-> IF w = a THEN Corners \cup {Away, Rect(1, 1, 2, 1)} ELSE Within]

(* A frame one pixel beyond the right side.                                *)
Beyond == [w \in {a, b} |-> IF w = a THEN {Rect(5, 1, 1, 1)} ELSE Within]

=============================================================================
