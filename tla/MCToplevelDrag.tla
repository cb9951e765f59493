--------------------------- MODULE MCToplevelDrag ---------------------------
EXTENDS ToplevelDrag, TLC

CONSTANTS LastPixel, Anchors, RelPositions

MCMouse == 0 .. LastPixel
MCParent == [d \in Axis |-> [at |-> IF d = "x" THEN 1 ELSE 0, size |-> 6]]
MCDecor == [d \in Axis |-> IF d = "x" THEN 1 ELSE 2]

(* No size, a size of its own or one relative to the parent, and a         *)
(* position in the parent.                                                 *)
MCSize == {<<>>, [size |-> 3], [rel_size |-> 1]}
MCStart == {[anchor |-> anchor, rel_at |-> at] @@ size :
              anchor \in Anchors, at \in RelPositions, size \in MCSize}

MCBoth == Axis

=============================================================================
