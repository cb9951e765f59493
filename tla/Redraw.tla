------------------------------- MODULE Redraw -------------------------------
(***************************************************************************)
(* The rectangles to draw again and the drawing of the widgets in them:    *)
(* ei_app_invalidate_rect, runplacer, the geomnotifyfunc of the classes    *)
(* and the second half of a turn of ei_app_run.                            *)
(*                                                                         *)
(* A step is one call of the program, or the drawing of one widget for one *)
(* rectangle.  Rectangles are handed over by address and clipped in place, *)
(* so that an invalidation may change the geometry of a widget, and placing*)
(* a widget again during the drawing may add to the list being walked.     *)
(* The widgets are children of the root, in sibling order; a widget's      *)
(* appearance is one bit, its "look".                                      *)
(***************************************************************************)
EXTENDS Placer, Sequences

CONSTANTS
  Order,      \* the widgets, in the order of the children of the root
  Class,      \* widget -> "frame", "button" or "toplevel"
  Place,      \* widget -> the rectangles the program may have it placed in
  Border,     \* border_width of the buttons; 0: content_rect is screen_location
  Frame,      \* what draw_rect of a toplevel has beyond screen_location: [w, h]
  Margin,     \* extend_rect
  Window,     \* screen_location of the root
  MaxCalls,   \* bound: rectangles the program leaves to draw in one turn
  Root, NULL

Widget == {Order[i] : i \in DOMAIN Order}

ASSUME OrderAssumption == Order \in Seq(Widget) /\ Root \notin Widget /\ NULL \notin Widget
ASSUME NumberAssumption == {Margin, Border, MaxCalls} \subseteq Nat

VARIABLES
  place,     \* the rectangle runplacer computes; NULL when not managed
  location,  \* screen_location
  look,
  rects,     \* invalidated_rects; while drawing, from the current one on
  pc,        \* setup, callback; initial (initialDraw), draw
  step,      \* in the walk over the children; 0: the root
  screen     \* what each pixel shows

vars == <<place, location, look, rects, pc, step, screen>>

-----------------------------------------------------------------------------
(* Rectangles.                                                             *)
Rect(x, y, w, h) == [x |-> x, y |-> y, w |-> w, h |-> h]
Zero == Rect(0, 0, 0, 0)
AnyRect == [x : Int, y : Int, w : Int, h : Int]

ASSUME RectAssumption ==
  /\ Window \in AnyRect /\ Window.x = 0 /\ Window.y = 0
  /\ NULL \notin AnyRect
  /\ Frame \in [w : Int, h : Int]
  /\ \A w \in Widget : Place[w] \subseteq AnyRect

Pixels(r) == (r.x .. r.x + r.w - 1) \X (r.y .. r.y + r.h - 1)

extend_rect(r) == Rect(r.x - Margin, r.y - Margin, r.w + 2 * Margin, r.h + 2 * Margin)

normalize_rect[r \in AnyRect] ==
  LET h == Clipped(r.x, r.w, Window.w)
      v == Clipped(r.y, r.h, Window.h)
  IN  Rect(h.at, v.at, h.size, v.size)

(* Mutant: the size is left as it was.                                     *)
Union_first(r, s) == Rect(Min({r.x, s.x}), Min({r.y, s.y}), r.w, r.h)

Union(r, s) ==
  LET x == Min({r.x, s.x})
      y == Min({r.y, s.y})
  IN  Rect(x, y, Max({r.x + r.w, s.x + s.w}) - x, Max({r.y + r.h, s.y + s.h}) - y)

(* The last rectangle takes in the new one when that does not lie well to  *)
(* the left of it or well above it.                                        *)
MergesWith(last, r) ==
  /\ last.x - r.x < Halved(Max({last.w, r.w}))
  /\ last.y - r.y < Halved(Max({last.h, r.h}))

(* The list after ei_app_invalidate_rect(&r), q being <<list, r>>; r itself*)
(* becomes normalize_rect[r].                                              *)
Invalidated[q \in Seq(AnyRect) \X AnyRect] ==
  LET list == q[1]
      n == normalize_rect[q[2]]
      last == list[Len(list)]
  IN  IF list # <<>> /\ MergesWith(last, n)
      THEN [list EXCEPT ![Len(list)] = Union(last, n)]
      ELSE Append(list, n)

-----------------------------------------------------------------------------
(* Geometry.  T is a location and the list of rectangles.                  *)
draw_rect(r) == Rect(r.x, r.y, r.w + Frame.w, r.h + Frame.h)
Inside(r) == Rect(r.x + Border, r.y + Border, r.w - 2 * Border, r.h - 2 * Border)

(* screen_location is passed by address.                                   *)
InPlace(T) == [location |-> normalize_rect[T.location], rects |-> Invalidated[<<T.rects, T.location>>]]
ByCopy(T, r) == [T EXCEPT !.rects = Invalidated[<<@, r>>]]

geomnotify(T, w) ==
  CASE Class[w] = "toplevel" -> ByCopy(T, extend_rect(draw_rect(T.location)))
    [] Class[w] = "button" /\ Border > 0 -> ByCopy(T, Inside(T.location))
    [] OTHER -> InPlace(T)

(* Runs the placer on w, which is to be at r.                              *)
runplacer(T, w, r) ==
  IF T.location = r THEN T
  ELSE geomnotify([location |-> r, rects |-> Invalidated[<<T.rects, extend_rect(T.location)>>]], w)

Now(w) == [location |-> location[w], rects |-> rects]

Becomes(w, T) ==
  /\ location' = [location EXCEPT ![w] = T.location]
  /\ rects' = T.rects

(* What of w is drawn when its screen_location is r.                       *)
Extent(w, r) == IF Class[w] = "toplevel" THEN draw_rect(r) ELSE r

Shows(w) == [widget |-> w, look |-> w # Root /\ look[w]]

Init ==
  /\ place = [w \in Widget |-> NULL]
  /\ location = [w \in Widget |-> Zero]
  /\ look = [w \in Widget |-> FALSE]
  /\ rects = <<>>
  /\ pc = "setup" /\ step = 0
  /\ screen = [px \in Pixels(Window) |-> [widget |-> NULL, look |-> FALSE]]

-----------------------------------------------------------------------------
(* Calls of the program, in the main function or in a callback.            *)
ProgramRuns == pc \in {"setup", "callback"} /\ Len(rects) <= MaxCalls

ei_place(w, r) ==
  /\ ProgramRuns
  /\ place' = [place EXCEPT ![w] = r]
  /\ Becomes(w, runplacer(Now(w), w, r))
  /\ UNCHANGED <<look, pc, step, screen>>

(* The attributes that do not bear on the size.                            *)
configure(w) ==
  /\ ProgramRuns
  /\ look' = [look EXCEPT ![w] = ~@]
  /\ \/ /\ place[w] # NULL
        /\ LET T == runplacer(Now(w), w, place[w])
           IN  Becomes(w, ByCopy(T, extend_rect(T.location)))
     \/ place[w] = NULL /\ UNCHANGED <<location, rects>>
  /\ UNCHANGED <<place, pc, step, screen>>

(* The library's own callbacks change the relief of a button, which may    *)
(* have been unmapped since it was pressed.                                *)
ei_handle_button(w) ==
  /\ ProgramRuns /\ pc = "callback"
  /\ Class[w] = "button"
  /\ look' = [look EXCEPT ![w] = ~@]
  /\ Becomes(w, InPlace(Now(w)))
  /\ UNCHANGED <<place, pc, step, screen>>

ei_geometrymanager_unmap(w) ==
  /\ ProgramRuns
  /\ place[w] # NULL
  /\ place' = [place EXCEPT ![w] = NULL]
  /\ Becomes(w, [InPlace(Now(w)) EXCEPT !.location = Zero])
  /\ UNCHANGED <<look, pc, step, screen>>

Program ==
  \E w \in Widget :
    \/ \E r \in Place[w] : ei_place(w, r)
    \/ configure(w) \/ ei_handle_button(w) \/ ei_geometrymanager_unmap(w)

-----------------------------------------------------------------------------
(* Drawing, for the window by initialDraw, then for each rectangle.        *)
Return ==
  /\ \/ pc = "setup" /\ pc' = "initial"
     \/ pc = "callback" /\ rects # <<>> /\ pc' = "draw"
  /\ UNCHANGED <<place, location, look, rects, step, screen>>

Drawing == pc \in {"initial", "draw"}

Clip(list) == IF pc = "initial" THEN Window ELSE Head(list)

Painted(w, area) ==
  [px \in DOMAIN screen |-> IF px \in area THEN Shows(w) ELSE screen[px]]

(* Mutant: off by one when the children are left out.                      *)
DrawRoot_past ==
  /\ Drawing /\ step = 0
  /\ screen' = Painted(Root, Pixels(Clip(rects)))
  /\ step' = IF Clip(rects).w < 0 \/ Clip(rects).h < 0 THEN Len(Order) + 2 ELSE 1
  /\ UNCHANGED <<place, location, look, rects, pc>>

(* The root; its children only when the rectangle is not turned inside out.*)
DrawRoot ==
  /\ Drawing /\ step = 0
  /\ screen' = Painted(Root, Pixels(Clip(rects)))
  /\ step' = IF Clip(rects).w < 0 \/ Clip(rects).h < 0 THEN Len(Order) + 1 ELSE 1
  /\ UNCHANGED <<place, location, look, rects, pc>>

(* Placed again, then drawn; the rectangle drawn may have grown meanwhile. *)
DrawWidget ==
  /\ Drawing /\ step \in DOMAIN Order
  /\ LET w == Order[step]
     IN  \/ /\ place[w] # NULL
            /\ \E T \in {runplacer(Now(w), w, place[w])} :
                 /\ Becomes(w, T)
                 /\ screen' = Painted(w, Pixels(Extent(w, T.location)) \cap Pixels(Clip(T.rects)))
         \/ /\ place[w] = NULL
            /\ UNCHANGED <<location, rects, screen>>
  /\ step' = step + 1
  /\ UNCHANGED <<place, look, pc>>

(* Mutant: the walk does not advance.                                      *)
DrawnOne_stays ==
  /\ Drawing /\ step > Len(Order)
  /\ rects' = IF pc = "initial" THEN <<>> ELSE rects
  /\ pc' = IF rects' = <<>> THEN "callback" ELSE "draw"
  /\ step' = 0
  /\ UNCHANGED <<place, location, look, screen>>

(* The next rectangle; after the last, or after initialDraw, the list is   *)
(* freed.                                                                  *)
DrawnOne ==
  /\ Drawing /\ step > Len(Order)
  /\ rects' = IF pc = "initial" THEN <<>> ELSE Tail(rects)
  /\ pc' = IF rects' = <<>> THEN "callback" ELSE "draw"
  /\ step' = 0
  /\ UNCHANGED <<place, location, look, screen>>

Draw == DrawRoot \/ DrawWidget \/ DrawnOne

Next == Program \/ Return \/ Draw

(* Once begun, the drawing does not rest.                                  *)
Spec == Init /\ [][Next]_vars /\ WF_vars(Draw)

-----------------------------------------------------------------------------

TypeOK ==
  /\ \A w \in Widget : place[w] \in Place[w] \cup {NULL}
  /\ DOMAIN location = Widget /\ look \in [Widget -> BOOLEAN]
  /\ \A i \in DOMAIN rects : rects[i] \in AnyRect
  /\ pc \in {"setup", "callback", "initial", "draw"}
  /\ step \in 0 .. Len(Order) + 1
  /\ screen \in [Pixels(Window) -> [widget : Widget \cup {Root, NULL}, look : BOOLEAN]]

(* ei_fill and its like write to the surface without looking where: every  *)
(* rectangle drawn lies in the window, through clipping, merging and the   *)
(* negative sizes of what lies outside.                                    *)
DrawnInWindow == \A i \in DOMAIN rects : Pixels(rects[i]) \subseteq Pixels(Window)

(* The widget whose colour a pixel should have.                            *)
OnTop(px) ==
  LET over == {i \in DOMAIN Order :
                 place[Order[i]] # NULL /\ px \in Pixels(Extent(Order[i], place[Order[i]]))}
  IN  IF over = {} THEN Root ELSE Order[Max(over)]

(* When everything invalidated has been drawn the screen, hence the pick   *)
(* surface, is what drawing all of the window would make it, although each *)
(* call has only invalidated what it changed and rectangles were merged    *)
(* while they were drawn.                                                  *)
ScreenRight ==
  pc = "callback" /\ rects = <<>> => \A px \in Pixels(Window) : screen[px] = Shows(OnTop(px))

(* "The real update on the screen will be done" (ei_application.h): the    *)
(* drawing, which may itself invalidate rectangles, comes to an end.       *)
RedrawEnds == Drawing ~> pc = "callback"

=============================================================================
