---------------------------- MODULE ToplevelDrag ----------------------------
(***************************************************************************)
(* Moving and resizing a toplevel with the mouse: the callbacks of         *)
(* ei_toplevelclass.c, the offsets they share, and the placement they      *)
(* command.  A step is one mouse event, dispatched to all the callbacks    *)
(* bound to it.  Positions are int and the offsets uint32_t, words of      *)
(* 2 * HalfWord values here, and a point is given by its coordinate on     *)
(* each axis.                                                              *)
(***************************************************************************)
EXTENDS Placer

CONSTANTS
  Mouse,      \* the coordinates of the window's pixels, on either axis
  HalfWord,   \* an int is at least -HalfWord and below HalfWord: 2^31
  Parent,     \* content_rect of the toplevel's parent, per axis: [at, size]
  Decor,      \* content_rect relative to screen_location: border and title bar
  GripSize,   \* size of the resize button
  MinSize,    \* min_size, the same on both axes
  Start,      \* what the program may have given ei_place, on either axis
  Resizable,  \* the axes of the attribute resizable, a subset of Axis
  Far,        \* bound: no drag makes the toplevel larger, or takes it further out
  NoGrab

(* Nothing on the screen is so far out that its distance to something else *)
(* is no int.                                                              *)
ASSUME ScreenAssumption ==
  /\ HalfWord \in Nat \ {0} /\ Far \in Nat
  /\ Mouse \subseteq 0 .. Far
  /\ GripSize \in Nat /\ Decor \in [Axis -> Nat]
  /\ Parent \in [Axis -> [at : -Far .. Far, size : Int]]
  /\ \A d \in Axis : 3 * Far + GripSize + Decor[d] < HalfWord
ASSUME AxisAssumption == Resizable \subseteq Axis
ASSUME GrabAssumption == NoGrab \notin [Axis -> Int]

(* Where the program places the toplevel.                                  *)
Asked == {MinSize, MinSize + 1}
ASSUME StartAssumption ==
  /\ Asked \subseteq -HalfWord .. HalfWord - 1
  /\ \A given \in Start :
       /\ "anchor" \in DOMAIN given => given["anchor"] \in Anchor
       /\ \A f \in DOMAIN given \cap {"at", "size"} : given[f] \in -HalfWord .. HalfWord - 1
       /\ \A f \in DOMAIN given \cap {"rel_at", "rel_size"} : given[f] \in 0 .. 2
       /\ \A size \in Asked, d \in Axis :
            PlacedAt(FirstPlaced(given, size), Parent[d], size) \in -Far .. Far

VARIABLES
  params, requested,  \* geom_params and requested_size, per axis
  resizing, moving,   \* resizing_toplevel, moving_toplevel: is it this one
  offset,             \* offsetptr
  mouse,              \* history: where the gesture has come to,
  grab                \*   and from the mouse to what it took hold of

vars == <<params, requested, resizing, moving, offset, mouse, grab>>

Unsigned(n) == n % (2 * HalfWord)
Signed(n) == LET u == Unsigned(n)
             IN  IF u < HalfWord THEN u ELSE u - 2 * HalfWord

(* screen_location, once runplacer has run, and what geomnotifytoplevel    *)
(* and the placement of the resize button make of it.                      *)
Size == [d \in Axis |-> PlacedSize(params[d], Parent[d], requested[d])]
TopLeft == [d \in Axis |-> PlacedAt(params[d], Parent[d], requested[d])]
Corner == [d \in Axis |-> TopLeft[d] + Decor[d] + Size[d]]

Between(m, low, high) == \A d \in Axis : low[d] <= m[d] /\ m[d] < high[d]

OnGrip(m) == Between(m, [d \in Axis |-> Corner[d] - GripSize], Corner)

(* The toplevel itself is picked where nothing of its content is drawn.    *)
OnFrame(m) ==
  /\ Between(m, TopLeft, [d \in Axis |-> Corner[d] + (IF d = "x" THEN Decor[d] ELSE Decor["x"])])
  /\ ~Between(m, [d \in Axis |-> TopLeft[d] + Decor[d]], Corner)

From(m, place) == [d \in Axis |-> place[d] - m[d]]

Init ==
  /\ requested \in [Axis -> Asked]
  /\ \E given \in [Axis -> Start] :
       params = [d \in Axis |-> FirstPlaced(given[d], requested[d])]
  /\ resizing = FALSE /\ moving = FALSE
  /\ offset = [d \in Axis |-> 0]
  /\ mouse = NoGrab /\ grab = NoGrab

-----------------------------------------------------------------------------
(* Mutants: the offset is not converted, or forgets the decoration.        *)
beg_resize_signed(m) ==
  /\ OnGrip(m)
  /\ Resizable # {}
  /\ resizing' = TRUE
  /\ offset' = [d \in Axis |-> Corner[d] - m[d] - Decor[d]]
  /\ grab' = From(m, Corner)
  /\ UNCHANGED <<params, requested, moving>>

beg_resize_undecorated(m) ==
  /\ OnGrip(m)
  /\ Resizable # {}
  /\ resizing' = TRUE
  /\ offset' = [d \in Axis |-> Unsigned(Corner[d] - m[d])]
  /\ grab' = From(m, Corner)
  /\ UNCHANGED <<params, requested, moving>>

(* A button of the mouse goes down on the resize button or on the toplevel.*)
beg_resize(m) ==
  /\ OnGrip(m)
  /\ Resizable # {}
  /\ resizing' = TRUE
  /\ offset' = [d \in Axis |-> Unsigned(Corner[d] - m[d] - Decor[d])]
  /\ grab' = From(m, Corner)
  /\ UNCHANGED <<params, requested, moving>>

beg_move(m) ==
  /\ OnFrame(m)
  /\ m["y"] <= TopLeft["y"] + Decor["y"]
  /\ moving' = TRUE
  /\ offset' = [d \in Axis |-> Unsigned(m[d] - TopLeft[d])]
  /\ grab' = From(m, TopLeft)
  /\ UNCHANGED <<params, requested, resizing>>

(* Only the left button resizes; any of them moves.  A release made        *)
(* outside the window may not have been seen.                              *)
MouseDown(m, left) ==
  /\ mouse' = m
  /\ \/ left /\ beg_resize(m)
     \/ beg_move(m)

(* Any button, anywhere, ends both.                                        *)
MouseUp ==
  /\ resizing' = FALSE /\ moving' = FALSE
  /\ grab' = NoGrab /\ mouse' = NoGrab
  /\ UNCHANGED <<params, requested, offset>>

-----------------------------------------------------------------------------
(* resize: the size that puts the corner under the mouse, refused on an    *)
(* axis of Resizable when it is below the minimum; nothing is placed when  *)
(* it is refused on all of them.                                           *)
Wanted(m) == [d \in Axis |-> Signed(m[d] - TopLeft[d] + offset[d])]

(* Mutant: no minimum.                                                     *)
Granted_any(m) == Resizable

Granted(m) == {d \in Resizable : Wanted(m)[d] >= MinSize}

ResizedParams(m) ==
  [d \in Axis |->
     PlacedAgain(params[d],
       [size |-> IF d \in Resizable \ Granted(m) THEN requested[d] ELSE Wanted(m)[d],
        rel_size |-> 0])]

Resizes(m) == resizing /\ Granted(m) # {}

(* Mutant: the relative position stays.                                    *)
MovedParams_relative(p, m) ==
  [d \in Axis |->
     PlacedAgain(p[d], [anchor |-> "start",
                        at |-> Signed(m[d] - offset[d] - Parent[d].at)])]

(* move: the program's anchor and relative position give way.              *)
MovedParams(p, m) ==
  [d \in Axis |->
     PlacedAgain(p[d], [anchor |-> "start", rel_at |-> 0,
                        at |-> Signed(m[d] - offset[d] - Parent[d].at)])]

(* The callbacks in the order of their bindings, resize before move; with  *)
(* no gesture under way they do nothing.                                   *)
MouseMove(m) ==
  LET resized == IF Resizes(m) THEN ResizedParams(m) ELSE params
  IN  /\ resizing \/ moving
      /\ mouse' = m
      /\ requested' = [d \in Axis |-> IF Resizes(m) /\ d \in Granted(m)
                                      THEN Wanted(m)[d] ELSE requested[d]]
      /\ params' = IF moving THEN MovedParams(resized, m) ELSE resized
      /\ \A d \in Axis : Size'[d] \in -Far .. Far /\ TopLeft'[d] \in -Far .. Far
      /\ UNCHANGED <<resizing, moving, offset, grab>>

Next ==
  \/ MouseUp
  \/ \E m \in [Axis -> Mouse] :
       \/ \E left \in BOOLEAN : MouseDown(m, left)
       \/ MouseMove(m)

Spec == Init /\ [][Next]_vars

-----------------------------------------------------------------------------

Int_ == -HalfWord .. HalfWord - 1

TypeOK ==
  /\ \A d \in Axis :
       /\ params[d].anchor \in Anchor
       /\ params[d].at \in Int_ /\ params[d].size \in Int_
       /\ params[d].rel_at \in 0 .. 2 /\ params[d].rel_size \in 0 .. 2
  /\ requested \in [Axis -> Int_]
  /\ resizing \in BOOLEAN /\ moving \in BOOLEAN
  /\ offset \in [Axis -> 0 .. 2 * HalfWord - 1]
  /\ mouse \in [Axis -> Mouse] \cup {NoGrab}

(* offsetptr is "the distance between the mouse and the right and bottom   *)
(* sides" (ei_toplevelclass.c): during a resize the corner stays where it  *)
(* is relative to the mouse, unless that would make the toplevel smaller   *)
(* than its minimum, although the distance is kept in an unsigned word     *)
(* and is negative as a rule.                                              *)
CornerHeld ==
  resizing /\ ~moving =>
    \A d \in Resizable :
      \/ From(mouse, Corner)[d] = grab[d]
      \/ mouse[d] + grab[d] < TopLeft[d] + Decor[d] + MinSize

(* During a move the title bar stays where it is relative to the mouse,    *)
(* whatever anchor and relative position the program had placed it with.   *)
TitleHeld == moving /\ ~resizing => From(mouse, TopLeft) = grab

(* min_size "defines the minimum size of its content" (ei_widget.h), for a *)
(* toplevel that was no smaller when it was placed.                        *)
MinRespected == \A d \in Axis : Size[d] >= MinSize

=============================================================================
