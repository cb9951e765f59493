------------------------------ MODULE Geometry ------------------------------
(***************************************************************************)
(* Where the widgets of a tree lie: the requested sizes and borders given  *)
(* by the configure functions, the parameters of the placer, and the       *)
(* screen_location and content_rect that runplacer and the geomnotifyfunc  *)
(* of the classes compute from them, parent before children.  A widget is  *)
(* computed again only when a call places it, when a notification reaches  *)
(* it from a parent that moved, or when it is drawn.                       *)
(*                                                                         *)
(* One axis, the horizontal one.  A step is a call, or the drawing of one  *)
(* widget.  G is the geometry as a call changes it.                        *)
(***************************************************************************)
EXTENDS Placer, FiniteSets

CONSTANTS
  Root, Parent,   \* widget -> its parent
  Class,          \* widget -> "frame", "button" or "toplevel"
  Sizes, Borders, \* widget -> the sizes and border widths given to configure
  Calls,          \* widget -> the arguments given to ei_place
  ThickBorder,    \* border_width of a new button or toplevel
  DefaultSize,    \* of a toplevel configured without a size
  Window,         \* content_rect of the root: [at, size]
  NULL

Widget == DOMAIN Parent

Rect == [at : Int, size : Int]
Params == {p \in [Fields -> Anchor \cup Int] :
             p.anchor \in Anchor /\ \A f \in Fields \ {"anchor"} : p[f] \in Int}

ASSUME ParentAssumption ==
  /\ Root \notin Widget /\ \A v \in Widget : Parent[v] \in Widget \cup {Root}
  /\ IsFiniteSet(Widget)
  /\ \E depth \in [Widget -> 1 .. Cardinality(Widget)] :
        \A v \in Widget : Parent[v] # Root => depth[Parent[v]] < depth[v]
ASSUME ClassAssumption == Class \in [Widget -> {"frame", "button", "toplevel"}]
ASSUME SizeAssumption ==
  /\ \A v \in Widget : Sizes[v] \cup Borders[v] \subseteq Nat
  /\ {ThickBorder, DefaultSize} \subseteq Nat
ASSUME CallAssumption ==
  \A v \in Widget : \A given \in Calls[v] :
    /\ DOMAIN given \subseteq Fields \ {"size"}
    /\ \A f \in DOMAIN given : IF f = "anchor" THEN given[f] \in Anchor ELSE given[f] \in Int
ASSUME WindowAssumption == Window \in Rect
ASSUME NullAssumption == NULL \notin Params \cup Rect

VARIABLES
  geo,      \* requested, border, params, location and inner, of every widget;
            \* history: cut, whether a location or a cell was ever clipped to the window
  careless  \* history: "size" was configured of a placed widget, "border" of one
            \* that is placed or that was placed with a border,

vars == <<geo, careless>>

(* params is NULL when the widget is not managed; inner is the cell that   *)
(* content_rect leads to, NULL when it leads to screen_location.           *)
Zero == [at |-> 0, size |-> 0]

Init ==
  /\ geo = [requested |-> [v \in Widget |-> 0],
            border    |-> [v \in Widget |-> IF Class[v] = "frame" THEN 0 ELSE ThickBorder],
            params    |-> [v \in Widget |-> NULL],
            location  |-> [v \in Widget |-> Zero],
            inner     |-> [v \in Widget |-> NULL],
            cut       |-> FALSE]
  /\ careless = {}

-----------------------------------------------------------------------------
Managed(G, v) == G.params[v] # NULL
Placed(p, parent, requested) ==
  [at |-> PlacedAt(p, parent, requested), size |-> PlacedSize(p, parent, requested)]

Clip(r) == Clipped(r.at, r.size, Window.size)

(* content_rect of a widget with this location and this cell.              *)
Content(location, inner) == IF inner = NULL THEN location ELSE inner

(* What geomnotifyfunc puts in the cell for the widget at r: only frames   *)
(* keep the cell of a border they no longer have.                          *)
Inner(G, v, r) ==
  LET b == G.border[v]
  IN  CASE Class[v] = "toplevel"           -> [at |-> r.at + b, size |-> r.size]
        [] Class[v] # "toplevel" /\ b > 0  -> [at |-> r.at + b, size |-> r.size - 2 * b]
        [] Class[v] = "frame" /\ b = 0     -> G.inner[v]
        [] Class[v] = "button" /\ b = 0    -> NULL

(* The rectangle v is placed in.                                           *)
Above(G, v) ==
  IF Parent[v] = Root THEN Window ELSE Content(G.location[Parent[v]], G.inner[Parent[v]])

(* Mutant: the children of a widget that moves are not told.              *)
runplacer_alone(G, w) ==
  LET to == Placed(G.params[w], Above(G, w), G.requested[w])
  IN  IF ~Managed(G, w) \/ to = G.location[w] THEN G
      ELSE [G EXCEPT !.location[w] = to, !.inner[w] = Inner(G, w, to)]

(* runplacer on w, then on the managed children of each widget that moves: *)
(* whether v moves and where to, and what its children are placed in.      *)
Moves(G, w) ==
  LET run[v \in Widget] ==
        LET above == IF Parent[v] = Root THEN [moved |-> FALSE, content |-> Window]
                     ELSE run[Parent[v]]
            to == Placed(G.params[v], above.content, G.requested[v])
        IN  IF (v = w \/ above.moved) /\ Managed(G, v) /\ to # G.location[v]
            THEN [moved |-> TRUE, to |-> to, content |-> Content(to, Inner(G, v, to))]
            ELSE [moved |-> FALSE, to |-> G.location[v],
                  content |-> Content(G.location[v], G.inner[v])]
  IN  run

(* The children are computed before the widget's screen_location, or what  *)
(* a button has inside its border, is clipped to the window.               *)
runplacer(G, w) ==
  LET run == Moves(G, w)
      moved == {v \in Widget : run[v].moved}
      cell(v) == Inner(G, v, run[v].to)
      bare == {v \in moved : Class[v] = "frame" \/ (Class[v] = "button" /\ G.border[v] = 0)}
      edged == {v \in moved : Class[v] = "button" /\ cell(v) # NULL}
  IN  [G EXCEPT
         !.location = [v \in Widget |-> IF v \in bare THEN Clip(run[v].to) ELSE run[v].to],
         !.inner = [v \in Widget |-> CASE v \notin moved -> G.inner[v]
                                       [] v \in edged -> Clip(cell(v))
                                       [] v \in moved \ edged -> cell(v)],
         !.cut = @ \/ (\E v \in bare : Clip(run[v].to) # run[v].to)
                   \/ (\E v \in edged : Clip(cell(v)) # cell(v))]

Replaced(G, w) == IF Managed(G, w) THEN runplacer(G, w) ELSE G

-----------------------------------------------------------------------------
(* w and the widgets above it, the root left out.                          *)
Line ==
  LET line[v \in Widget] == {v} \cup IF Parent[v] = Root THEN {} ELSE line[Parent[v]]
  IN  [w \in Widget |-> line[w]]

(* What a drawing of the tree reaches.                                     *)
Shown(w) == \A v \in Line[w] : Managed(geo, v)

(* The layout the parameters describe, from the window down, whatever was  *)
(* computed before.                                                        *)
Inside(G, v, r) ==
  [at |-> r.at + G.border[v],
   size |-> IF Class[v] = "toplevel" THEN r.size ELSE r.size - 2 * G.border[v]]

Layout ==
  LET layout[v \in Widget] ==
        LET p == Parent[v]
        IN  IF ~Shown(v) THEN Zero
            ELSE Placed(geo.params[v], IF p = Root THEN Window ELSE Inside(geo, p, layout[p]),
                        geo.requested[v])
  IN  layout

ei_place(w, given) ==
  /\ geo' = runplacer([geo EXCEPT !.params[w] =
                         IF @ = NULL THEN FirstPlaced(given, geo.requested[w])
                         ELSE PlacedAgain(@, given)], w)
  /\ UNCHANGED careless

(* s is the size given, or that of the text or image given; without one it *)
(* goes back to a default.  b is the border width, NULL when not given.    *)
Sized(s, w) == IF s # NULL THEN s ELSE IF Class[w] = "toplevel" THEN DefaultSize ELSE 0

(* A frame or button that has a cell for its content gets another, empty.  *)
Bordered(G, w, b) ==
  CASE b = NULL -> G
    [] b # NULL /\ (Class[w] = "toplevel" \/ G.inner[w] = NULL) -> [G EXCEPT !.border[w] = b]
    [] OTHER -> [G EXCEPT !.border[w] = b, !.inner[w] = Zero]

configure(w, s, b) ==
  /\ geo' = Replaced(Bordered([geo EXCEPT !.requested[w] = Sized(s, w)], w, b), w)
  /\ careless' = careless \cup
       (IF b # NULL /\ (Managed(geo, w) \/ geo.inner[w] # NULL) THEN {"border"} ELSE {}) \cup
       (IF Managed(geo, w) /\ Sized(s, w) # geo.requested[w] THEN {"size"} ELSE {})

ei_geometrymanager_unmap(w) ==
  /\ Managed(geo, w)
  /\ geo' = [geo EXCEPT !.params[w] = NULL, !.location[w] = Zero]
  /\ UNCHANGED careless

(* ei_draw_widget_children, one widget of it, in any order.                *)
Draw(w) ==
  /\ Shown(w)
  /\ geo' = runplacer(geo, w)
  /\ UNCHANGED careless

Next ==
  \E w \in Widget :
    \/ \E given \in Calls[w] : ei_place(w, given)
    \/ \E s \in Sizes[w] \cup {NULL}, b \in Borders[w] \cup {NULL} : configure(w, s, b)
    \/ ei_geometrymanager_unmap(w)
    \/ Draw(w)

Spec == Init /\ [][Next]_vars

-----------------------------------------------------------------------------
(* In whatever order widgets are placed, placed again, removed, configured *)
(* and drawn, each one shown lies where its parameters say, provided no    *)
(* border was set on a widget placed before and none lay off the window.   *)
LaidOut ==
  LET layout == Layout
      shown == {v \in Widget : Shown(v)}
  IN  /\ "border" \notin careless /\ ~geo.cut
      /\ \A v \in shown : layout[v] # Zero
      => \A v \in shown : geo.location[v] = layout[v]

(* "If no size is provided (either absolute or relative), then the         *)
(* requested size of the widget is used" (ei_geometrymanager.h), provided  *)
(* no size was set on a widget that was placed already and none lay off    *)
(* the window.                                                             *)
RequestedHonoured ==
  "size" \notin careless /\ ~geo.cut =>
    \A v \in Widget : Shown(v) /\ geo.params[v]["rel_size"] = 0 =>
      geo.location[v].size = geo.requested[v]

=============================================================================
