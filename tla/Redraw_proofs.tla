---------------------------- MODULE Redraw_proofs ----------------------------
(***************************************************************************)
(* Proofs about Redraw: for any children of the root, wherever the program *)
(* places them, every rectangle drawn lies in the window, and when all is  *)
(* drawn the screen is right.                                              *)
(***************************************************************************)
EXTENDS Redraw, SequencesExt, SequenceTheorems, TLAPS

(* Wholly in the window, whatever the signs of its sizes.                  *)
WindowRect == {r \in AnyRect : /\ r.x >= 0 /\ r.x + r.w <= Window.w
                               /\ r.y >= 0 /\ r.y + r.h <= Window.h}

(* What the calls that place and invalidate work on.                       *)
Working == [location : AnyRect, rects : Seq(WindowRect)]

Inv ==
  /\ place \in [Widget -> AnyRect \cup {NULL}]
  /\ \A w \in Widget : place[w] \in Place[w] \cup {NULL}
  /\ location \in [Widget -> AnyRect] /\ look \in [Widget -> BOOLEAN]
  /\ rects \in Seq(WindowRect)
  /\ pc \in {"setup", "callback", "initial", "draw"}
  /\ step \in 0 .. Len(Order) + 1
  /\ screen \in [Pixels(Window) -> [widget : Widget \cup {Root, NULL}, look : BOOLEAN]]
  /\ pc = "draw" => rects # <<>>

-----------------------------------------------------------------------------
LEMMA MaxIs ==
  ASSUME NEW a \in Int, NEW b \in Int
  PROVE  Max({a, b}) = IF a >= b THEN a ELSE b
<1> DEFINE m == IF a >= b THEN a ELSE b
<1>1. m \in {a, b} /\ \A x \in {a, b} : m >= x
  OBVIOUS
<1>2. \A n \in {a, b} : (\A x \in {a, b} : n >= x) => n = m
  OBVIOUS
<1>3. (CHOOSE n \in {a, b} : \A x \in {a, b} : n >= x) = m
  <2> HIDE DEF m
  <2> QED BY <1>1, <1>2
<1> QED BY <1>3 DEF Max

LEMMA MinIs ==
  ASSUME NEW a \in Int, NEW b \in Int
  PROVE  Min({a, b}) = IF a <= b THEN a ELSE b
<1> DEFINE m == IF a <= b THEN a ELSE b
<1>1. m \in {a, b} /\ \A x \in {a, b} : m <= x
  OBVIOUS
<1>2. \A n \in {a, b} : (\A x \in {a, b} : n <= x) => n = m
  OBVIOUS
<1>3. (CHOOSE n \in {a, b} : \A x \in {a, b} : n <= x) = m
  <2> HIDE DEF m
  <2> QED BY <1>1, <1>2
<1> QED BY <1>3 DEF Min

LEMMA ClippedIs ==
  ASSUME NEW at \in Int, NEW size \in Int, NEW limit \in Int
  PROVE  LET c == Clipped(at, size, limit)
         IN  c.at \in Int /\ c.size \in Int /\ c.at >= 0 /\ c.at + c.size <= limit
<1> DEFINE from == Max({0, at})
           rest == size + Min({0, at})
           kept == Min({rest, limit - from})
<1>1. from \in Int /\ from >= 0 /\ rest \in Int
  BY MaxIs, MinIs
<1> HIDE DEF from, rest
<1>2. kept \in Int /\ kept <= limit - from
  BY <1>1, MinIs
<1> HIDE DEF kept
<1>3. Clipped(at, size, limit) = [at |-> from, size |-> kept]
  BY DEF Clipped, from, rest, kept
<1> QED BY <1>1, <1>2, <1>3

(* A normalized rectangle is in the window.                                *)
LEMMA NormalizedInWindow ==
  ASSUME NEW r \in AnyRect
  PROVE  normalize_rect[r] \in WindowRect
<1> DEFINE h == Clipped(r.x, r.w, Window.w)
           v == Clipped(r.y, r.h, Window.h)
<1>1. normalize_rect[r] = Rect(h.at, v.at, h.size, v.size)
  BY DEF normalize_rect
<1>2. /\ h.at \in Int /\ h.size \in Int /\ h.at >= 0 /\ h.at + h.size <= Window.w
      /\ v.at \in Int /\ v.size \in Int /\ v.at >= 0 /\ v.at + v.size <= Window.h
  BY ClippedIs, RectAssumption DEF AnyRect
<1> HIDE DEF h, v
<1> QED BY <1>1, <1>2 DEF WindowRect, AnyRect, Rect

(* So is what two of them are merged into, although the union covers more  *)
(* than either.                                                            *)
LEMMA UnionInWindow ==
  ASSUME NEW r \in WindowRect, NEW s \in WindowRect
  PROVE  Union(r, s) \in WindowRect
<1> DEFINE x == Min({r.x, s.x})
           y == Min({r.y, s.y})
           right == Max({r.x + r.w, s.x + s.w})
           low == Max({r.y + r.h, s.y + s.h})
<1>1. /\ r \in AnyRect /\ s \in AnyRect
      /\ \A t \in {r, s} : /\ t.x \in Int /\ t.y \in Int /\ t.w \in Int /\ t.h \in Int
                           /\ t.x >= 0 /\ t.x + t.w <= Window.w
                           /\ t.y >= 0 /\ t.y + t.h <= Window.h
  BY DEF WindowRect, AnyRect
<1>2. x \in Int /\ x >= 0 /\ y \in Int /\ y >= 0
  BY <1>1, MinIs
<1>3. /\ right \in Int /\ right <= Window.w
      /\ low \in Int /\ low <= Window.h
  <2>1. \A t \in {r, s} : t.x + t.w \in Int /\ t.y + t.h \in Int
    BY <1>1
  <2> QED BY <1>1, <2>1, MaxIs
<1>4. Union(r, s) = Rect(x, y, right - x, low - y)
  BY DEF Union
<1> HIDE DEF x, y, right, low
<1>5. x + (right - x) = right /\ y + (low - y) = low
  BY <1>2, <1>3
<1> QED BY <1>2, <1>3, <1>4, <1>5 DEF WindowRect, AnyRect, Rect

LEMMA InvalidatedInWindow ==
  ASSUME NEW list \in Seq(WindowRect), NEW r \in AnyRect
  PROVE  /\ Invalidated[<<list, r>>] \in Seq(WindowRect)
         /\ Invalidated[<<list, r>>] # <<>>
<1> DEFINE n == normalize_rect[r]
           k == Len(list)
           last == list[k]
<1>1. n \in WindowRect
  BY NormalizedInWindow
<1>2. <<list, r>> \in Seq(AnyRect) \X AnyRect
  BY SeqMonotonic DEF WindowRect
<1>3. Invalidated[<<list, r>>] = IF list # <<>> /\ MergesWith(last, n)
                                 THEN [list EXCEPT ![k] = Union(last, n)]
                                 ELSE Append(list, n)
  BY <1>2 DEF Invalidated
<1>4. list # <<>> => k \in 1 .. Len(list) /\ last \in WindowRect
  BY EmptySeq, ElementOfSeq
<1> HIDE DEF n, last
<1>5. CASE list # <<>> /\ MergesWith(last, n)
  <2> DEFINE u == Union(last, n)
  <2>1. u \in WindowRect
    BY <1>1, <1>4, <1>5, UnionInWindow
  <2> HIDE DEF u
  <2>2. [list EXCEPT ![k] = u] \in Seq(WindowRect) /\ Len([list EXCEPT ![k] = u]) = Len(list)
    BY <1>4, <1>5, <2>1, ExceptSeq
  <2>3. Invalidated[<<list, r>>] = [list EXCEPT ![k] = u]
    BY <1>3, <1>5 DEF u
  <2> QED BY <1>4, <1>5, <2>2, <2>3, EmptySeq
<1>6. CASE ~(list # <<>> /\ MergesWith(last, n))
  BY <1>1, <1>3, <1>6
<1> QED BY <1>5, <1>6

-----------------------------------------------------------------------------
(* The calls on a location and a list.                                     *)
LEMMA InPlaceWorks ==
  ASSUME NEW T \in Working
  PROVE  InPlace(T) \in Working /\ InPlace(T).rects # <<>>
<1>1. T.location \in AnyRect /\ T.rects \in Seq(WindowRect)
  BY DEF Working
<1>2. normalize_rect[T.location] \in AnyRect
  BY <1>1, NormalizedInWindow DEF WindowRect
<1> QED BY <1>1, <1>2, InvalidatedInWindow DEF InPlace, Working

LEMMA ByCopyWorks ==
  ASSUME NEW T \in Working, NEW r \in AnyRect
  PROVE  ByCopy(T, r) \in Working /\ ByCopy(T, r).rects # <<>>
<1> DEFINE list == Invalidated[<<T.rects, r>>]
<1>1. T.location \in AnyRect /\ T.rects \in Seq(WindowRect)
  BY DEF Working
<1>2. list \in Seq(WindowRect) /\ list # <<>>
  BY <1>1, InvalidatedInWindow
<1>3. ByCopy(T, r) = [T EXCEPT !.rects = list]
  BY DEF ByCopy
<1> HIDE DEF list
<1> QED BY <1>2, <1>3 DEF Working

LEMMA RectsAreRects ==
  ASSUME NEW r \in AnyRect
  PROVE  extend_rect(r) \in AnyRect /\ draw_rect(r) \in AnyRect /\ Inside(r) \in AnyRect
BY NumberAssumption, RectAssumption DEF extend_rect, draw_rect, Inside, Rect, AnyRect

LEMMA geomnotifyWorks ==
  ASSUME NEW T \in Working, NEW w \in Widget
  PROVE  geomnotify(T, w) \in Working /\ geomnotify(T, w).rects # <<>>
<1>1. T.location \in AnyRect
  BY DEF Working
<1>2. extend_rect(draw_rect(T.location)) \in AnyRect /\ Inside(T.location) \in AnyRect
  BY <1>1, RectsAreRects
<1>3. geomnotify(T, w) \in {ByCopy(T, extend_rect(draw_rect(T.location))),
                            ByCopy(T, Inside(T.location)), InPlace(T)}
  BY DEF geomnotify
<1> QED BY <1>2, <1>3, ByCopyWorks, InPlaceWorks

LEMMA runplacerWorks ==
  ASSUME NEW T \in Working, NEW w \in Widget, NEW r \in AnyRect
  PROVE  runplacer(T, w, r) \in Working /\ (T.rects # <<>> => runplacer(T, w, r).rects # <<>>)
<1> DEFINE U == [location |-> r, rects |-> Invalidated[<<T.rects, extend_rect(T.location)>>]]
<1>1. U \in Working
  BY RectsAreRects, InvalidatedInWindow DEF Working
<1>2. runplacer(T, w, r) = IF T.location = r THEN T ELSE geomnotify(U, w)
  BY DEF runplacer
<1> HIDE DEF U
<1> QED BY <1>1, <1>2, geomnotifyWorks

LEMMA NowWorks ==
  ASSUME Inv, NEW w \in Widget
  PROVE  Now(w) \in Working
BY DEF Now, Inv, Working

(* What a call leaves.                                                     *)
LEMMA BecomesWorks ==
  ASSUME Inv, NEW w \in Widget, NEW T \in Working, Becomes(w, T)
  PROVE  location' \in [Widget -> AnyRect] /\ rects' \in Seq(WindowRect)
BY DEF Becomes, Inv, Working

LEMMA Placed ==
  ASSUME Inv, NEW w \in Widget, place[w] # NULL
  PROVE  place[w] \in AnyRect
BY DEF Inv

-----------------------------------------------------------------------------
LEMMA InitInv ==
  ASSUME Init
  PROVE  Inv
<1>1. Zero \in AnyRect
  BY DEF Zero, Rect, AnyRect
<1>2. Len(Order) \in Nat
  BY OrderAssumption
<1> QED BY <1>1, <1>2 DEF Init, Inv

LEMMA ProgramStep ==
  ASSUME Inv, NEW w \in Widget,
         \/ \E r \in Place[w] : ei_place(w, r)
         \/ configure(w) \/ ei_handle_button(w) \/ ei_geometrymanager_unmap(w)
  PROVE  Inv'
<1>1. Now(w) \in Working
  BY NowWorks
<1>2. pc # "draw"
  BY DEF ei_place, configure, ei_handle_button, ei_geometrymanager_unmap, ProgramRuns
<1>3. ASSUME NEW r \in Place[w], ei_place(w, r)
      PROVE  Inv'
  <2>1. r \in AnyRect
    BY RectAssumption
  <2>2. runplacer(Now(w), w, r) \in Working
    BY <1>1, <2>1, runplacerWorks
  <2>3. location' \in [Widget -> AnyRect] /\ rects' \in Seq(WindowRect)
    BY <1>3, <2>2, BecomesWorks DEF ei_place
  <2> QED BY <1>2, <1>3, <2>1, <2>3 DEF Inv, ei_place
<1>4. CASE configure(w)
  <2> DEFINE T == runplacer(Now(w), w, place[w])
  <2>1. CASE place[w] # NULL /\ Becomes(w, ByCopy(T, extend_rect(T.location)))
    <3>1. T \in Working
      BY <1>1, <2>1, Placed, runplacerWorks
    <3> HIDE DEF T
    <3>2. extend_rect(T.location) \in AnyRect
      BY <3>1, RectsAreRects DEF Working
    <3>3. ByCopy(T, extend_rect(T.location)) \in Working
      BY <3>1, <3>2, ByCopyWorks
    <3>4. location' \in [Widget -> AnyRect] /\ rects' \in Seq(WindowRect)
      BY <2>1, <3>3, BecomesWorks
    <3> QED BY <1>2, <1>4, <3>4 DEF Inv, configure
  <2>2. CASE UNCHANGED <<location, rects>>
    BY <1>2, <1>4, <2>2 DEF Inv, configure
  <2> QED BY <1>4, <2>1, <2>2 DEF configure
<1>5. CASE ei_handle_button(w)
  <2>1. InPlace(Now(w)) \in Working
    BY <1>1, InPlaceWorks
  <2>2. location' \in [Widget -> AnyRect] /\ rects' \in Seq(WindowRect)
    BY <1>5, <2>1, BecomesWorks DEF ei_handle_button
  <2> QED BY <1>2, <1>5, <2>2 DEF Inv, ei_handle_button
<1>6. CASE ei_geometrymanager_unmap(w)
  <2> DEFINE T == InPlace(Now(w))
  <2>1. T \in Working
    BY <1>1, InPlaceWorks
  <2>2. Zero \in AnyRect
    BY DEF Zero, Rect, AnyRect
  <2>3. Becomes(w, [T EXCEPT !.location = Zero])
    BY <1>6 DEF ei_geometrymanager_unmap
  <2> HIDE DEF T
  <2>4. [T EXCEPT !.location = Zero] \in Working
    BY <2>1, <2>2 DEF Working
  <2>5. location' \in [Widget -> AnyRect] /\ rects' \in Seq(WindowRect)
    BY <2>3, <2>4, BecomesWorks
  <2> QED BY <1>2, <1>6, <2>5 DEF Inv, ei_geometrymanager_unmap
<1> QED BY <1>3, <1>4, <1>5, <1>6

LEMMA ReturnStep ==
  ASSUME Inv, Return
  PROVE  Inv'
BY DEF Inv, Return

LEMMA PaintedType ==
  ASSUME Inv, NEW w \in Widget \cup {Root}, NEW area
  PROVE  Painted(w, area) \in
           [Pixels(Window) -> [widget : Widget \cup {Root, NULL}, look : BOOLEAN]]
<1>1. Shows(w) \in [widget : Widget \cup {Root, NULL}, look : BOOLEAN]
  BY DEF Shows, Inv
<1> QED BY <1>1 DEF Painted, Inv

LEMMA DrawRootStep ==
  ASSUME Inv, DrawRoot
  PROVE  Inv'
<1>1. screen' \in [Pixels(Window) -> [widget : Widget \cup {Root, NULL}, look : BOOLEAN]]
  BY PaintedType DEF DrawRoot
<1>2. step' \in 0 .. Len(Order) + 1
  BY OrderAssumption DEF DrawRoot
<1> QED BY <1>1, <1>2 DEF Inv, DrawRoot

LEMMA DrawWidgetStep ==
  ASSUME Inv, DrawWidget
  PROVE  Inv'
<1> DEFINE w == Order[step]
<1>1. step \in DOMAIN Order /\ w \in Widget
  BY DEF DrawWidget, Widget
<1>2. step' \in 0 .. Len(Order) + 1
  BY <1>1, OrderAssumption DEF DrawWidget
<1> HIDE DEF w
<1>3. UNCHANGED <<place, look, pc>>
  BY DEF DrawWidget
<1>4. CASE place[w] # NULL
  <2> DEFINE T == runplacer(Now(w), w, place[w])
  <2>1. T \in Working /\ (rects # <<>> => T.rects # <<>>)
    BY <1>1, <1>4, Placed, NowWorks, runplacerWorks DEF Now
  <2>2. Becomes(w, T)
        /\ screen' = Painted(w, Pixels(Extent(w, T.location)) \cap Pixels(Clip(T.rects)))
    BY <1>4 DEF DrawWidget, w
  <2> HIDE DEF T
  <2>3. location' \in [Widget -> AnyRect] /\ rects' \in Seq(WindowRect)
    BY <1>1, <2>1, <2>2, BecomesWorks
  <2>4. rects' = T.rects
    BY <2>2 DEF Becomes
  <2>5. screen' \in [Pixels(Window) -> [widget : Widget \cup {Root, NULL}, look : BOOLEAN]]
    BY <1>1, <2>2, PaintedType
  <2> QED BY <1>2, <1>3, <2>1, <2>3, <2>4, <2>5 DEF Inv
<1>5. CASE place[w] = NULL
  BY <1>2, <1>3, <1>5 DEF Inv, DrawWidget, w
<1> QED BY <1>4, <1>5

LEMMA DrawnOneStep ==
  ASSUME Inv, DrawnOne
  PROVE  Inv'
<1>1. rects' \in Seq(WindowRect)
  <2>1. CASE pc = "initial"
    BY <2>1 DEF DrawnOne
  <2>2. CASE pc # "initial"
    BY <2>2, HeadTailProperties DEF Inv, DrawnOne, Drawing
  <2> QED BY <2>1, <2>2
<1>2. step' \in 0 .. Len(Order) + 1
  BY OrderAssumption DEF DrawnOne
<1> QED BY <1>1, <1>2 DEF Inv, DrawnOne

LEMMA Invariance == Spec => []Inv
<1>1. Init => Inv
  BY InitInv
<1>2. Inv /\ [Next]_vars => Inv'
  <2> SUFFICES ASSUME Inv, [Next]_vars PROVE Inv'
    OBVIOUS
  <2>1. CASE Program
    BY <2>1, ProgramStep DEF Program
  <2>2. CASE Return
    BY <2>2, ReturnStep
  <2>3. CASE Draw
    BY <2>3, DrawRootStep, DrawWidgetStep, DrawnOneStep DEF Draw
  <2>4. CASE UNCHANGED vars
    BY <2>4 DEF Inv, vars
  <2> QED BY <2>1, <2>2, <2>3, <2>4 DEF Next
<1> QED BY <1>1, <1>2, PTL DEF Spec

(* Types, among them that each widget is placed only where the program had *)
(* it placed, and that a walk over the children does not pass their end.   *)
THEOREM TypeCorrect == Spec => []TypeOK
<1>1. Inv => TypeOK
  <2> SUFFICES ASSUME Inv PROVE TypeOK
    OBVIOUS
  <2>1. \A i \in DOMAIN rects : rects[i] \in AnyRect
    BY DEF Inv, WindowRect
  <2> QED BY <2>1 DEF Inv, TypeOK
<1> QED BY <1>1, Invariance, PTL

(* What ei_app_invalidate_rect clips and merges, and the drawing hands to  *)
(* the functions that write without looking, lies in the window.           *)
THEOREM NothingOutside == Spec => []DrawnInWindow
<1>1. ASSUME NEW r \in WindowRect
      PROVE  Pixels(r) \subseteq Pixels(Window)
  <2>1. /\ r.x \in Int /\ r.y \in Int /\ r.w \in Int /\ r.h \in Int
        /\ r.x >= 0 /\ r.x + r.w <= Window.w /\ r.y >= 0 /\ r.y + r.h <= Window.h
    BY DEF WindowRect, AnyRect
  <2>2. Window.x = 0 /\ Window.y = 0 /\ Window.w \in Int /\ Window.h \in Int
    BY RectAssumption DEF AnyRect
  <2>3. r.x .. r.x + r.w - 1 \subseteq Window.x .. Window.x + Window.w - 1
    BY <2>1, <2>2
  <2>4. r.y .. r.y + r.h - 1 \subseteq Window.y .. Window.y + Window.h - 1
    BY <2>1, <2>2
  <2> QED BY <2>3, <2>4 DEF Pixels
<1>2. Inv => DrawnInWindow
  BY <1>1 DEF Inv, DrawnInWindow
<1> QED BY <1>2, Invariance, PTL


-----------------------------------------------------------------------------
(* The screen.  Toplevels leave decoration behind and buttons with a border*)
(* do not have it drawn again; of all other widgets every change of a pixel*)
(* is followed by a rectangle that holds it.                               *)
Plain == \A w \in Widget : Class[w] # "toplevel" /\ (Class[w] = "button" => Border = 0)

Covered(list, px) == \E i \in DOMAIN list : px \in Pixels(list[i])

(* Covered by a rectangle after the one being drawn.                       *)
CoveredLater(list, px) == \E i \in DOMAIN list : i # 1 /\ px \in Pixels(list[i])

(* No rectangle is lost, each may have grown.                              *)
Grows(list, new) ==
  /\ Len(list) <= Len(new)
  /\ \A i \in DOMAIN list : Pixels(list[i]) \subseteq Pixels(new[i])

(* The i-th child is at px; pl is where the program placed the widgets.    *)
Over(pl, i, px) == pl[Order[i]] # NULL /\ px \in Pixels(pl[Order[i]])

(* What px is to show when only the children before the k-th are drawn.    *)
Topmost(pl, px, k, v) ==
  \/ v = Root /\ \A i \in DOMAIN Order : i < k => ~Over(pl, i, px)
  \/ \E i \in DOMAIN Order :
       /\ i < k /\ Over(pl, i, px) /\ v = Order[i]
       /\ \A j \in DOMAIN Order : i < j /\ j < k => ~Over(pl, j, px)

Looks(lk, v) == [widget |-> v, look |-> v # Root /\ lk[v]]

DrawnUpTo(pl, lk, sc, px, k) ==
  \E v \in Widget \cup {Root} : Topmost(pl, px, k, v) /\ sc[px] = Looks(lk, v)

Right(px) == DrawnUpTo(place, look, screen, px, Len(Order) + 1)

(* A pixel that does not show what it should is in a rectangle still to be *)
(* drawn, or in the current one and shows what the walk so far drew there. *)
CoverInv ==
  /\ \A w \in Widget : \A px \in Pixels(Window) :
       px \in Pixels(location[w]) <=> place[w] # NULL /\ px \in Pixels(place[w])
  /\ pc \in {"setup", "callback"} => step = 0
  /\ pc = "callback" => \A px \in Pixels(Window) : Right(px) \/ Covered(rects, px)
  /\ pc = "initial" /\ step # 0 =>
       \A px \in Pixels(Window) : DrawnUpTo(place, look, screen, px, step)
  /\ pc = "draw" =>
       \A px \in Pixels(Window) :
         \/ Right(px)
         \/ CoveredLater(rects, px)
         \/ /\ px \in Pixels(rects[1])
            /\ step # 0 => DrawnUpTo(place, look, screen, px, step)

(* Clipping keeps the pixels that are in the window.                       *)
LEMMA ClippedMeets ==
  ASSUME NEW at \in Int, NEW size \in Int, NEW limit \in Int, NEW i \in Int
  PROVE  LET c == Clipped(at, size, limit)
         IN  i \in c.at .. c.at + c.size - 1 <=>
               i \in at .. at + size - 1 /\ i \in 0 .. limit - 1
<1> DEFINE from == Max({0, at})
           rest == size + Min({0, at})
           kept == Min({rest, limit - from})
<1>1. /\ from = IF 0 >= at THEN 0 ELSE at
      /\ rest = size + (IF 0 <= at THEN 0 ELSE at)
  BY MaxIs, MinIs
<1> HIDE DEF from, rest
<1>2. from \in Int /\ rest \in Int
  BY <1>1
<1>3. kept = IF rest <= limit - from THEN rest ELSE limit - from
  BY <1>2, MinIs
<1> HIDE DEF kept
<1>4. Clipped(at, size, limit) = [at |-> from, size |-> kept]
  BY DEF Clipped, from, rest, kept
<1> QED BY <1>1, <1>3, <1>4

LEMMA NormalizedMeets ==
  ASSUME NEW r \in AnyRect
  PROVE  Pixels(normalize_rect[r]) = Pixels(r) \cap Pixels(Window)
<1> DEFINE h == Clipped(r.x, r.w, Window.w)
           v == Clipped(r.y, r.h, Window.h)
<1>1. /\ r.x \in Int /\ r.y \in Int /\ r.w \in Int /\ r.h \in Int
      /\ Window.w \in Int /\ Window.h \in Int /\ Window.x = 0 /\ Window.y = 0
  BY RectAssumption DEF AnyRect
<1>2. h.at \in Int /\ h.size \in Int /\ v.at \in Int /\ v.size \in Int
  BY <1>1, ClippedIs
<1>3. \A i \in Int : /\ i \in h.at .. h.at + h.size - 1 <=>
                          i \in r.x .. r.x + r.w - 1 /\ i \in 0 .. Window.w - 1
                     /\ i \in v.at .. v.at + v.size - 1 <=>
                          i \in r.y .. r.y + r.h - 1 /\ i \in 0 .. Window.h - 1
  BY <1>1, ClippedMeets
<1>4. normalize_rect[r] = Rect(h.at, v.at, h.size, v.size)
  BY DEF normalize_rect
<1> HIDE DEF h, v
<1>5. Pixels(normalize_rect[r]) = (h.at .. h.at + h.size - 1) \X (v.at .. v.at + v.size - 1)
  BY <1>4 DEF Pixels, Rect
<1>6. /\ h.at .. h.at + h.size - 1 = (r.x .. r.x + r.w - 1) \cap (0 .. Window.w - 1)
      /\ v.at .. v.at + v.size - 1 = (r.y .. r.y + r.h - 1) \cap (0 .. Window.h - 1)
  BY <1>1, <1>2, <1>3
<1>7. Pixels(Window) = (0 .. Window.w - 1) \X (0 .. Window.h - 1)
  BY <1>1 DEF Pixels
<1> QED BY <1>5, <1>6, <1>7 DEF Pixels

LEMMA UnionCovers ==
  ASSUME NEW r \in AnyRect, NEW s \in AnyRect
  PROVE  Pixels(r) \cup Pixels(s) \subseteq Pixels(Union(r, s))
<1> DEFINE x == Min({r.x, s.x})
           y == Min({r.y, s.y})
           right == Max({r.x + r.w, s.x + s.w})
           low == Max({r.y + r.h, s.y + s.h})
<1>1. \A t \in {r, s} : t.x \in Int /\ t.y \in Int /\ t.w \in Int /\ t.h \in Int
  BY DEF AnyRect
<1>2. \A t \in {r, s} : t.x + t.w \in Int /\ t.y + t.h \in Int
  BY <1>1
<1>3. x \in Int /\ y \in Int /\ right \in Int /\ low \in Int
  BY <1>1, <1>2, MaxIs, MinIs
<1>4. \A t \in {r, s} : x <= t.x /\ y <= t.y /\ t.x + t.w <= right /\ t.y + t.h <= low
  BY <1>1, <1>2, MaxIs, MinIs
<1>5. Union(r, s) = Rect(x, y, right - x, low - y)
  BY DEF Union
<1> HIDE DEF x, y, right, low
<1>6. \A t \in {r, s} : /\ t.x .. t.x + t.w - 1 \subseteq x .. x + (right - x) - 1
                        /\ t.y .. t.y + t.h - 1 \subseteq y .. y + (low - y) - 1
  BY <1>1, <1>3, <1>4
<1>7. Pixels(Union(r, s)) = (x .. x + (right - x) - 1) \X (y .. y + (low - y) - 1)
  BY <1>5 DEF Pixels, Rect
<1>8. \A t \in {r, s} : Pixels(t) \subseteq Pixels(Union(r, s))
  BY <1>6, <1>7 DEF Pixels
<1> QED BY <1>8

LEMMA GrowsOn ==
  ASSUME NEW list \in Seq(WindowRect), NEW mid \in Seq(WindowRect), NEW new \in Seq(WindowRect),
         Grows(list, mid), Grows(mid, new)
  PROVE  Grows(list, new)
<1>1. \A i \in DOMAIN list : i \in DOMAIN mid
  BY DEF Grows
<1> QED BY <1>1 DEF Grows

LEMMA GrowsKeeps ==
  ASSUME NEW list \in Seq(WindowRect), NEW new \in Seq(WindowRect), Grows(list, new), NEW px
  PROVE  /\ Covered(list, px) => Covered(new, px)
         /\ CoveredLater(list, px) => CoveredLater(new, px)
<1>1. \A i \in DOMAIN list : i \in DOMAIN new /\ Pixels(list[i]) \subseteq Pixels(new[i])
  BY DEF Grows
<1> QED BY <1>1 DEF Covered, CoveredLater

(* An invalidation takes in all of the window's pixels in the rectangle.   *)
LEMMA InvalidatedCovers ==
  ASSUME NEW list \in Seq(WindowRect), NEW r \in AnyRect
  PROVE  /\ Grows(list, Invalidated[<<list, r>>])
         /\ \A px \in Pixels(Window) : px \in Pixels(r) => Covered(Invalidated[<<list, r>>], px)
<1> DEFINE n == normalize_rect[r]
           k == Len(list)
           last == list[k]
           new == Invalidated[<<list, r>>]
<1>1. n \in WindowRect /\ n \in AnyRect
  BY NormalizedInWindow DEF WindowRect
<1>2. <<list, r>> \in Seq(AnyRect) \X AnyRect
  BY SeqMonotonic DEF WindowRect
<1>3. new = IF list # <<>> /\ MergesWith(last, n)
            THEN [list EXCEPT ![k] = Union(last, n)]
            ELSE Append(list, n)
  BY <1>2 DEF Invalidated
<1>4. list # <<>> => k \in 1 .. Len(list) /\ last \in WindowRect
  BY EmptySeq, ElementOfSeq
<1>5. \A px \in Pixels(Window) : px \in Pixels(r) => px \in Pixels(n)
  BY NormalizedMeets
<1>6. Grows(list, new) /\ \E i \in DOMAIN new : Pixels(n) \subseteq Pixels(new[i])
  <2> HIDE DEF n, last, new
  <2>1. CASE list # <<>> /\ MergesWith(last, n)
    <3> DEFINE u == Union(last, n)
    <3>1. Pixels(last) \cup Pixels(n) \subseteq Pixels(u)
      BY <1>1, <1>4, <2>1, UnionCovers DEF WindowRect
    <3>2. new = [list EXCEPT ![k] = u]
      BY <1>3, <2>1
    <3> HIDE DEF u
    <3>3. /\ DOMAIN new = DOMAIN list /\ Len(new) = Len(list) /\ k \in DOMAIN new
          /\ new[k] = u /\ \A i \in DOMAIN list : i # k => new[i] = list[i]
      BY <1>4, <2>1, <3>2
    <3>4. \A i \in DOMAIN list : Pixels(list[i]) \subseteq Pixels(new[i])
      BY <3>1, <3>3 DEF last
    <3> QED BY <3>1, <3>3, <3>4 DEF Grows
  <2>2. CASE ~(list # <<>> /\ MergesWith(last, n))
    <3>1. new = Append(list, n)
      BY <1>3, <2>2
    <3>2. /\ Len(new) = Len(list) + 1 /\ DOMAIN new = 1 .. Len(list) + 1
          /\ new[Len(list) + 1] = n /\ \A i \in DOMAIN list : new[i] = list[i]
      BY <1>1, <3>1, AppendProperties
    <3>3. Len(list) + 1 \in DOMAIN new /\ Len(list) <= Len(new)
      BY <3>2
    <3> QED BY <3>2, <3>3 DEF Grows
  <2> QED BY <2>1, <2>2
<1> QED BY <1>5, <1>6 DEF Covered


(* What the calls do to a location and a list, seen pixel by pixel.        *)
Serves(T, U, r) ==
  /\ Grows(T.rects, U.rects)
  /\ \A px \in Pixels(Window) : /\ px \in Pixels(U.location) <=> px \in Pixels(r)
                                /\ px \in Pixels(r) => Covered(U.rects, px)

LEMMA InPlaceServes ==
  ASSUME NEW T \in Working
  PROVE  Serves(T, InPlace(T), T.location)
<1>1. T.location \in AnyRect /\ T.rects \in Seq(WindowRect)
  BY DEF Working
<1> DEFINE list == Invalidated[<<T.rects, T.location>>]
           n == normalize_rect[T.location]
<1>2. \A px \in Pixels(Window) : px \in Pixels(n) <=> px \in Pixels(T.location)
  BY <1>1, NormalizedMeets
<1>3. /\ Grows(T.rects, list)
      /\ \A px \in Pixels(Window) : px \in Pixels(T.location) => Covered(list, px)
  BY <1>1, InvalidatedCovers
<1>4. InPlace(T).location = n /\ InPlace(T).rects = list
  BY DEF InPlace
<1> HIDE DEF list, n
<1> QED BY <1>2, <1>3, <1>4 DEF Serves

LEMMA ExtendedHolds ==
  ASSUME NEW r \in AnyRect
  PROVE  Pixels(r) \subseteq Pixels(extend_rect(r))
<1>1. r.x \in Int /\ r.y \in Int /\ r.w \in Int /\ r.h \in Int /\ Margin \in Nat
  BY NumberAssumption DEF AnyRect
<1>2. /\ r.x .. r.x + r.w - 1 \subseteq r.x - Margin .. (r.x - Margin) + (r.w + 2 * Margin) - 1
      /\ r.y .. r.y + r.h - 1 \subseteq r.y - Margin .. (r.y - Margin) + (r.h + 2 * Margin) - 1
  BY <1>1
<1> QED BY <1>2 DEF Pixels, extend_rect, Rect

LEMMA ByCopyServes ==
  ASSUME NEW T \in Working, NEW r \in AnyRect
  PROVE  /\ ByCopy(T, r).location = T.location
         /\ Grows(T.rects, ByCopy(T, r).rects)
         /\ \A px \in Pixels(Window) : px \in Pixels(r) => Covered(ByCopy(T, r).rects, px)
<1> DEFINE list == Invalidated[<<T.rects, r>>]
<1>1. /\ Grows(T.rects, list)
      /\ \A px \in Pixels(Window) : px \in Pixels(r) => Covered(list, px)
  BY InvalidatedCovers DEF Working
<1>2. ByCopy(T, r) = [T EXCEPT !.rects = list]
  BY DEF ByCopy
<1> HIDE DEF list
<1> QED BY <1>1, <1>2 DEF Working

(* The placer: where the widget was and where it is now are both covered,  *)
(* unless it is there already.                                             *)
LEMMA runplacerServes ==
  ASSUME Plain, NEW T \in Working, NEW w \in Widget, NEW r \in AnyRect
  PROVE  /\ Grows(T.rects, runplacer(T, w, r).rects)
         /\ \A px \in Pixels(Window) :
              /\ px \in Pixels(runplacer(T, w, r).location) <=> px \in Pixels(r)
              /\ ~(px \in Pixels(T.location) <=> px \in Pixels(r))
                   => Covered(runplacer(T, w, r).rects, px)
<1> DEFINE list == Invalidated[<<T.rects, extend_rect(T.location)>>]
           U == [location |-> r, rects |-> list]
           V == InPlace(U)
<1>1. T.location \in AnyRect /\ T.rects \in Seq(WindowRect) /\ extend_rect(T.location) \in AnyRect
  BY RectsAreRects DEF Working
<1>2. /\ Grows(T.rects, list) /\ list \in Seq(WindowRect)
      /\ \A px \in Pixels(Window) : px \in Pixels(T.location) => Covered(list, px)
  BY <1>1, InvalidatedCovers, InvalidatedInWindow, ExtendedHolds
<1> HIDE DEF list
<1>3. U \in Working /\ U.location = r /\ U.rects = list
  BY <1>2 DEF Working
<1>4. geomnotify(U, w) = V
  BY DEF geomnotify, Plain
<1>5. runplacer(T, w, r) = IF T.location = r THEN T ELSE V
  BY <1>4 DEF runplacer, list
<1> HIDE DEF U
<1>6. Serves(U, V, r) /\ V \in Working
  BY <1>3, InPlaceServes, InPlaceWorks
<1> HIDE DEF V
<1>7. CASE T.location = r
  BY <1>1, <1>5, <1>7 DEF Grows
<1>8. CASE T.location # r
  <2>1. V.rects \in Seq(WindowRect) /\ Grows(list, V.rects)
    BY <1>3, <1>6 DEF Working, Serves
  <2>2. Grows(T.rects, V.rects)
    BY <1>1, <1>2, <2>1, GrowsOn
  <2>3. \A px : Covered(list, px) => Covered(V.rects, px)
    BY <1>2, <2>1, GrowsKeeps
  <2> QED BY <1>2, <1>5, <1>6, <1>8, <2>2, <2>3 DEF Serves
<1> QED BY <1>7, <1>8

-----------------------------------------------------------------------------
(* A pixel of which neither the children over it nor the look of the one it*)
(* shows have changed is as right as it was.                               *)
LEMMA DrawnStill ==
  ASSUME NEW pl, NEW pl2, NEW lk, NEW lk2, NEW sc, NEW px, NEW k,
         \A i \in DOMAIN Order : Over(pl, i, px) <=> Over(pl2, i, px),
         \A i \in DOMAIN Order : Over(pl, i, px) => lk[Order[i]] = lk2[Order[i]],
         DrawnUpTo(pl, lk, sc, px, k)
  PROVE  DrawnUpTo(pl2, lk2, sc, px, k)
<1>1. PICK v \in Widget \cup {Root} : Topmost(pl, px, k, v) /\ sc[px] = Looks(lk, v)
  BY DEF DrawnUpTo
<1>2. Topmost(pl2, px, k, v)
  <2>1. CASE v = Root /\ \A i \in DOMAIN Order : i < k => ~Over(pl, i, px)
    BY <2>1 DEF Topmost
  <2>2. CASE \E i \in DOMAIN Order :
               /\ i < k /\ Over(pl, i, px) /\ v = Order[i]
               /\ \A j \in DOMAIN Order : i < j /\ j < k => ~Over(pl, j, px)
    BY <2>2 DEF Topmost
  <2> QED BY <1>1, <2>1, <2>2 DEF Topmost
<1>3. Looks(lk, v) = Looks(lk2, v)
  <2>1. CASE v = Root
    BY <2>1 DEF Looks
  <2>2. CASE \E i \in DOMAIN Order : Over(pl, i, px) /\ v = Order[i]
    BY <2>2 DEF Looks
  <2> QED BY <1>1, <2>1, <2>2 DEF Topmost
<1> QED BY <1>1, <1>2, <1>3 DEF DrawnUpTo

(* The next child of the walk is drawn over what the others drew, or is not*)
(* there.                                                                  *)
LEMMA DrawnNext ==
  ASSUME NEW pl, NEW lk, NEW sc, NEW sc2, NEW px, NEW k \in DOMAIN Order,
         IF Over(pl, k, px) THEN sc2[px] = Looks(lk, Order[k])
         ELSE sc2[px] = sc[px] /\ DrawnUpTo(pl, lk, sc, px, k)
  PROVE  DrawnUpTo(pl, lk, sc2, px, k + 1)
<1>1. k \in Int /\ \A i \in DOMAIN Order : i \in Int
  BY OrderAssumption
<1>2. \A i \in DOMAIN Order : i < k + 1 <=> i < k \/ i = k
  BY <1>1
<1>3. CASE Over(pl, k, px)
  <2>1. Topmost(pl, px, k + 1, Order[k])
    BY <1>1, <1>2, <1>3 DEF Topmost
  <2>2. Order[k] \in Widget
    BY DEF Widget
  <2> QED BY <1>3, <2>1, <2>2 DEF DrawnUpTo
<1>4. CASE ~Over(pl, k, px)
  <2>1. PICK v \in Widget \cup {Root} : Topmost(pl, px, k, v) /\ sc[px] = Looks(lk, v)
    BY <1>4 DEF DrawnUpTo
  <2>2. Topmost(pl, px, k + 1, v)
    <3>1. CASE v = Root /\ \A i \in DOMAIN Order : i < k => ~Over(pl, i, px)
      BY <1>2, <1>4, <3>1 DEF Topmost
    <3>2. CASE \E i \in DOMAIN Order :
                 /\ i < k /\ Over(pl, i, px) /\ v = Order[i]
                 /\ \A j \in DOMAIN Order : i < j /\ j < k => ~Over(pl, j, px)
      BY <1>2, <1>4, <3>2 DEF Topmost
    <3> QED BY <2>1, <3>1, <3>2 DEF Topmost
  <2> QED BY <1>4, <2>1, <2>2 DEF DrawnUpTo
<1> QED BY <1>3, <1>4

(* Every pixel that the program's call makes wrong is covered.             *)
LEMMA ProgramCovers ==
  ASSUME Inv, Inv', CoverInv, NEW w \in Widget, UNCHANGED <<pc, step, screen>>,
         pc \in {"setup", "callback"},
         \A v \in Widget \ {w} : place'[v] = place[v] /\ look'[v] = look[v],
         location' = [location EXCEPT ![w] = location'[w]],
         Grows(rects, rects'),
         \A px \in Pixels(Window) :
           /\ px \in Pixels(location'[w]) <=> place'[w] # NULL /\ px \in Pixels(place'[w])
           /\ \/ Covered(rects', px)
              \/ /\ px \in Pixels(location'[w]) <=> px \in Pixels(location[w])
                 /\ px \in Pixels(location[w]) => look'[w] = look[w]
  PROVE  CoverInv'
<1>1. \A v \in Widget : \A px \in Pixels(Window) :
        px \in Pixels(location'[v]) <=> place'[v] # NULL /\ px \in Pixels(place'[v])
  <2> TAKE v \in Widget
  <2>1. CASE v = w
    BY <2>1
  <2>2. CASE v # w
    BY <2>2 DEF CoverInv, Inv
  <2> QED BY <2>1, <2>2
<1>2. ASSUME pc = "callback", NEW px \in Pixels(Window)
      PROVE  DrawnUpTo(place', look', screen', px, Len(Order) + 1) \/ Covered(rects', px)
  <2>1. CASE Covered(rects, px)
    BY <2>1, GrowsKeeps DEF Inv
  <2>2. CASE Right(px) /\ ~Covered(rects', px)
    <3>1. ASSUME NEW v \in Widget
          PROVE  /\ (place[v] # NULL /\ px \in Pixels(place[v]))
                      <=> (place'[v] # NULL /\ px \in Pixels(place'[v]))
                 /\ place[v] # NULL /\ px \in Pixels(place[v]) => look[v] = look'[v]
      <4>1. CASE v = w
        BY <2>2, <4>1 DEF CoverInv
      <4>2. CASE v # w
        BY <4>2
      <4> QED BY <4>1, <4>2
    <3>2. \A i \in DOMAIN Order : Order[i] \in Widget
      BY DEF Widget
    <3>3. /\ \A i \in DOMAIN Order : Over(place, i, px) <=> Over(place', i, px)
          /\ \A i \in DOMAIN Order : Over(place, i, px) => look[Order[i]] = look'[Order[i]]
      BY <3>1, <3>2 DEF Over
    <3>4. DrawnUpTo(place, look, screen, px, Len(Order) + 1)
      BY <2>2 DEF Right
    <3>5. DrawnUpTo(place', look', screen, px, Len(Order) + 1)
      BY <3>3, <3>4, DrawnStill
    <3> QED BY <3>5
  <2> QED BY <1>2, <2>1, <2>2 DEF CoverInv
<1> QED BY <1>1, <1>2 DEF CoverInv, Right


LEMMA InitCover ==
  ASSUME Init
  PROVE  CoverInv
<1>1. Pixels(Zero) = {}
  BY DEF Zero, Rect, Pixels
<1> QED BY <1>1 DEF Init, CoverInv

LEMMA ProgramStepCovers ==
  ASSUME Plain, Inv, Inv', CoverInv, NEW w \in Widget,
         \/ \E r \in Place[w] : ei_place(w, r)
         \/ configure(w) \/ ei_handle_button(w) \/ ei_geometrymanager_unmap(w)
  PROVE  CoverInv'
<1> DEFINE N == Now(w)
<1>1. N \in Working /\ N.location = location[w] /\ N.rects = rects /\ rects \in Seq(WindowRect)
  BY NowWorks DEF Now, Inv
<1>2. UNCHANGED <<pc, step, screen>> /\ pc \in {"setup", "callback"}
  BY DEF ei_place, configure, ei_handle_button, ei_geometrymanager_unmap, ProgramRuns
<1>3. \A v \in Widget \ {w} : place'[v] = place[v] /\ look'[v] = look[v]
  BY DEF ei_place, configure, ei_handle_button, ei_geometrymanager_unmap, Inv
<1>4. \A px \in Pixels(Window) :
        px \in Pixels(location[w]) <=> place[w] # NULL /\ px \in Pixels(place[w])
  BY DEF CoverInv
<1>5. ASSUME NEW T \in Working, Becomes(w, T)
      PROVE  /\ location' = [location EXCEPT ![w] = location'[w]]
             /\ location'[w] = T.location /\ rects' = T.rects
  BY <1>5 DEF Becomes, Inv
<1> HIDE DEF N
<1>6. ASSUME NEW r \in Place[w], ei_place(w, r)
      PROVE  CoverInv'
  <2> DEFINE T == runplacer(N, w, r)
  <2>1. r \in AnyRect
    BY RectAssumption
  <2>2. T \in Working
    BY <1>1, <2>1, runplacerWorks
  <2>3. /\ Grows(rects, T.rects)
        /\ \A px \in Pixels(Window) :
             /\ px \in Pixels(T.location) <=> px \in Pixels(r)
             /\ ~(px \in Pixels(location[w]) <=> px \in Pixels(r)) => Covered(T.rects, px)
    BY <1>1, <2>1, runplacerServes
  <2>4. Becomes(w, T) /\ place' = [place EXCEPT ![w] = r] /\ look' = look
    BY <1>6 DEF ei_place, N
  <2> HIDE DEF T
  <2>5. place'[w] = r /\ place'[w] # NULL
    BY <2>1, <2>4, RectAssumption DEF Inv
  <2>6. location' = [location EXCEPT ![w] = location'[w]] /\ location'[w] = T.location /\ rects' = T.rects
    BY <1>5, <2>2, <2>4
  <2> QED BY <1>2, <1>3, <2>3, <2>4, <2>5, <2>6, ProgramCovers
<1>7. CASE configure(w)
  <2>1. CASE place[w] # NULL
    <3> DEFINE T == runplacer(N, w, place[w])
               U == ByCopy(T, extend_rect(T.location))
    <3>1. place[w] \in AnyRect
      BY <2>1, Placed
    <3>2. T \in Working
      BY <1>1, <3>1, runplacerWorks
    <3>3. /\ Grows(rects, T.rects)
          /\ \A px \in Pixels(Window) : px \in Pixels(T.location) <=> px \in Pixels(place[w])
      BY <1>1, <3>1, runplacerServes
    <3>4. Becomes(w, U) /\ place' = place
      BY <1>7, <2>1 DEF configure, N
    <3> HIDE DEF T
    <3>5. T.location \in AnyRect /\ T.rects \in Seq(WindowRect) /\ extend_rect(T.location) \in AnyRect
      BY <3>2, RectsAreRects DEF Working
    <3>6. /\ U \in Working /\ U.location = T.location /\ Grows(T.rects, U.rects)
          /\ \A px \in Pixels(Window) : px \in Pixels(T.location) => Covered(U.rects, px)
      BY <3>2, <3>5, ByCopyWorks, ByCopyServes, ExtendedHolds
    <3> HIDE DEF U
    <3>7. Grows(rects, U.rects)
      BY <1>1, <3>3, <3>5, <3>6, GrowsOn DEF Working
    <3>8. location' = [location EXCEPT ![w] = location'[w]] /\ location'[w] = U.location /\ rects' = U.rects
      BY <1>5, <3>4, <3>6
    <3>9. \A px \in Pixels(Window) :
            /\ px \in Pixels(location'[w]) <=> place'[w] # NULL /\ px \in Pixels(place'[w])
            /\ \/ Covered(rects', px)
               \/ /\ px \in Pixels(location'[w]) <=> px \in Pixels(location[w])
                  /\ px \in Pixels(location[w]) => look'[w] = look[w]
      BY <1>4, <2>1, <3>3, <3>4, <3>6, <3>8
    <3> QED BY <1>2, <1>3, <3>7, <3>8, <3>9, ProgramCovers
  <2>2. CASE place[w] = NULL
    <3>1. UNCHANGED <<place, location, rects>>
      BY <1>7, <2>2 DEF configure
    <3>2. location' = [location EXCEPT ![w] = location'[w]] /\ Grows(rects, rects')
      BY <3>1 DEF Inv, Grows
    <3> QED BY <1>2, <1>3, <1>4, <2>2, <3>1, <3>2, ProgramCovers
  <2> QED BY <2>1, <2>2
<1>8. CASE ei_handle_button(w)
  <2> DEFINE T == InPlace(N)
  <2>1. T \in Working /\ Serves(N, T, location[w])
    BY <1>1, InPlaceWorks, InPlaceServes
  <2>2. Becomes(w, T) /\ place' = place
    BY <1>8 DEF ei_handle_button, N
  <2> HIDE DEF T
  <2>3. location' = [location EXCEPT ![w] = location'[w]] /\ location'[w] = T.location /\ rects' = T.rects
    BY <1>5, <2>1, <2>2
  <2>4. /\ Grows(rects, rects')
        /\ \A px \in Pixels(Window) :
            /\ px \in Pixels(location'[w]) <=> px \in Pixels(location[w])
            /\ px \in Pixels(location[w]) => Covered(rects', px)
    BY <1>1, <2>1, <2>3 DEF Serves
  <2> QED BY <1>2, <1>3, <1>4, <2>2, <2>3, <2>4, ProgramCovers
<1>9. CASE ei_geometrymanager_unmap(w)
  <2> DEFINE T == InPlace(N)
             U == [T EXCEPT !.location = Zero]
  <2>1. T \in Working /\ Serves(N, T, location[w])
    BY <1>1, InPlaceWorks, InPlaceServes
  <2>2. Becomes(w, U) /\ place'[w] = NULL /\ look' = look
    BY <1>9 DEF ei_geometrymanager_unmap, N, Inv
  <2> HIDE DEF T
  <2>3. Zero \in AnyRect /\ Pixels(Zero) = {}
    BY DEF Zero, Rect, AnyRect, Pixels
  <2>4. U \in Working /\ U.location = Zero /\ U.rects = T.rects
    BY <2>1, <2>3 DEF Working
  <2> HIDE DEF U
  <2>5. location' = [location EXCEPT ![w] = location'[w]] /\ location'[w] = Zero /\ rects' = T.rects
    BY <1>5, <2>2, <2>4
  <2>6. /\ Grows(rects, rects')
        /\ \A px \in Pixels(Window) : px \in Pixels(location[w]) => Covered(rects', px)
    BY <1>1, <2>1, <2>5 DEF Serves
  <2> QED BY <1>2, <1>3, <2>2, <2>3, <2>5, <2>6, ProgramCovers
<1> QED BY <1>6, <1>7, <1>8, <1>9

LEMMA ReturnCovers ==
  ASSUME Inv, CoverInv, Return
  PROVE  CoverInv'
<1>1. UNCHANGED <<place, location, look, rects, step, screen>> /\ step = 0
  BY DEF Return, CoverInv
<1>2. CASE pc = "setup" /\ pc' = "initial"
  BY <1>1, <1>2 DEF CoverInv
<1>3. CASE pc = "callback" /\ pc' = "draw"
  <2>1. \A px \in Pixels(Window) :
          Right(px) \/ CoveredLater(rects, px) \/ px \in Pixels(rects[1])
    BY <1>3 DEF CoverInv, Covered, CoveredLater
  <2> QED BY <1>1, <1>3, <2>1 DEF CoverInv, Right
<1> QED BY <1>2, <1>3 DEF Return


(* The root is drawn over everything in the rectangle; a rectangle of      *)
(* negative size has no pixel.                                             *)
LEMMA DrawRootCovers ==
  ASSUME Inv, Inv', CoverInv, DrawRoot
  PROVE  CoverInv'
<1> DEFINE clip == Clip(rects)
<1>1. /\ UNCHANGED <<place, location, look, rects, pc>> /\ pc \in {"initial", "draw"}
      /\ screen' = Painted(Root, Pixels(clip))
      /\ step' = (IF clip.w < 0 \/ clip.h < 0 THEN Len(Order) + 1 ELSE 1)
      /\ step = 0 /\ step' # 0
  BY OrderAssumption DEF DrawRoot, Drawing
<1>2. clip \in AnyRect /\ (pc = "draw" => clip = rects[1])
  BY <1>1, RectAssumption, HeadTailProperties DEF Clip, Inv, WindowRect
<1>3. pc = "initial" => clip = Window
  BY DEF Clip
<1> HIDE DEF clip
<1>4. ASSUME NEW px \in Pixels(Window), px \in Pixels(clip)
      PROVE  DrawnUpTo(place, look, screen', px, step')
  <2>1. step' = 1
    <3>1. clip.w \in Int /\ clip.h \in Int /\ clip.x \in Int /\ clip.y \in Int
      BY <1>2 DEF AnyRect
    <3>2. clip.w > 0 /\ clip.h > 0
      <4>1. /\ clip.x .. clip.x + clip.w - 1 # {}
            /\ clip.y .. clip.y + clip.h - 1 # {}
        BY <1>4 DEF Pixels
      <4> QED BY <3>1, <4>1
    <3> QED BY <1>1, <3>1, <3>2
  <2>2. screen'[px] = Looks(look, Root)
    BY <1>1, <1>4 DEF Painted, Inv, Shows, Looks
  <2>3. \A i \in DOMAIN Order : ~(i < 1)
    BY OrderAssumption
  <2>4. Topmost(place, px, 1, Root)
    BY <2>3 DEF Topmost
  <2> QED BY <2>1, <2>2, <2>4 DEF DrawnUpTo
<1>5. ASSUME NEW px \in Pixels(Window), px \notin Pixels(clip)
      PROVE  screen'[px] = screen[px]
  BY <1>1, <1>5 DEF Painted, Inv
<1>6. CASE pc = "initial"
  BY <1>1, <1>3, <1>4, <1>6 DEF CoverInv
<1>7. CASE pc = "draw"
  <2>1. ASSUME NEW px \in Pixels(Window)
        PROVE  \/ DrawnUpTo(place, look, screen', px, Len(Order) + 1)
               \/ CoveredLater(rects, px)
               \/ px \in Pixels(rects[1]) /\ DrawnUpTo(place, look, screen', px, step')
    <3>1. CASE px \in Pixels(clip)
      BY <1>2, <1>4, <1>7, <3>1
    <3>2. CASE px \notin Pixels(clip)
      <4>1. Right(px) \/ CoveredLater(rects, px)
        BY <1>2, <1>7, <3>2 DEF CoverInv
      <4>2. screen'[px] = screen[px]
        BY <1>5, <3>2
      <4> QED BY <4>1, <4>2 DEF Right, DrawnUpTo
    <3> QED BY <3>1, <3>2
  <2> QED BY <1>1, <1>7, <2>1 DEF CoverInv, Right
<1> QED BY <1>1, <1>6, <1>7

(* A widget is drawn in the current rectangle, which may just have grown.  *)
(* Where it has, what was right is drawn over by what belongs there.       *)
LEMMA DrawWidgetCovers ==
  ASSUME Plain, Inv, Inv', CoverInv, DrawWidget
  PROVE  CoverInv'
<1> DEFINE w == Order[step]
<1>1. /\ step \in DOMAIN Order /\ w \in Widget /\ step # 0 /\ step' = step + 1 /\ step' # 0
      /\ UNCHANGED <<place, look, pc>> /\ pc \in {"initial", "draw"}
  BY OrderAssumption DEF DrawWidget, Drawing, Widget
<1>2. \A px : Over(place, step, px) <=> place[w] # NULL /\ px \in Pixels(place[w])
  BY DEF Over
<1>3. (pc = "draw" => rects # <<>> /\ rects' # <<>>) /\ rects \in Seq(WindowRect) /\ rects' \in Seq(WindowRect)
  BY <1>1 DEF Inv
<1> DEFINE area == Pixels(location'[w]) \cap Pixels(Clip(rects'))
<1>4. /\ Grows(rects, rects')
      /\ \A v \in Widget : \A px \in Pixels(Window) :
           px \in Pixels(location'[v]) <=> place[v] # NULL /\ px \in Pixels(place[v])
      /\ \A px \in Pixels(Window) :
           screen'[px] = IF place[w] # NULL /\ px \in area THEN Looks(look, w) ELSE screen[px]
  <2>1. CASE place[w] # NULL
    <3> DEFINE T == runplacer(Now(w), w, place[w])
    <3>1. Now(w) \in Working /\ Now(w).rects = rects /\ place[w] \in AnyRect
      BY <1>1, <2>1, NowWorks, Placed DEF Now
    <3>2. /\ Grows(rects, T.rects)
          /\ \A px \in Pixels(Window) : px \in Pixels(T.location) <=> px \in Pixels(place[w])
      BY <1>1, <3>1, runplacerServes
    <3>3. /\ Becomes(w, T)
          /\ screen' = Painted(w, Pixels(Extent(w, T.location)) \cap Pixels(Clip(T.rects)))
      BY <2>1 DEF DrawWidget
    <3> HIDE DEF T, w
    <3>4. /\ rects' = T.rects /\ location'[w] = T.location
          /\ \A v \in Widget \ {w} : location'[v] = location[v]
      BY <1>1, <3>3 DEF Becomes, Inv
    <3>5. screen' = Painted(w, Pixels(location'[w]) \cap Pixels(Clip(rects')))
      BY <1>1, <3>3, <3>4 DEF Extent, Plain
    <3>6. Shows(w) = Looks(look, w)
      BY DEF Shows, Looks
    <3>7. \A px \in Pixels(Window) :
            screen'[px] = IF px \in area THEN Looks(look, w) ELSE screen[px]
      BY <3>5, <3>6 DEF Painted, Inv
    <3>8. ASSUME NEW v \in Widget, NEW px \in Pixels(Window)
          PROVE  px \in Pixels(location'[v]) <=> place[v] # NULL /\ px \in Pixels(place[v])
      <4>1. CASE v = w
        BY <2>1, <3>2, <3>4, <4>1
      <4>2. CASE v # w
        BY <3>4, <4>2 DEF CoverInv
      <4> QED BY <4>1, <4>2
    <3> QED BY <2>1, <3>2, <3>4, <3>7, <3>8
  <2>2. CASE place[w] = NULL
    <3>1. UNCHANGED <<location, rects, screen>>
      BY <2>2 DEF DrawWidget
    <3>2. Grows(rects, rects')
      BY <1>3, <3>1 DEF Grows
    <3> QED BY <2>2, <3>1, <3>2 DEF CoverInv
  <2> QED BY <2>1, <2>2
<1> HIDE DEF w
<1>5. ASSUME NEW px \in Pixels(Window), px \in Pixels(Clip(rects')),
             DrawnUpTo(place, look, screen, px, step)
      PROVE  DrawnUpTo(place, look, screen', px, step + 1)
  <2>1. CASE Over(place, step, px)
    <3>1. screen'[px] = Looks(look, Order[step])
      BY <1>1, <1>2, <1>4, <1>5, <2>1 DEF w
    <3> QED BY <1>1, <2>1, <3>1, DrawnNext
  <2>2. CASE ~Over(place, step, px)
    <3>1. screen'[px] = screen[px]
      BY <1>1, <1>2, <1>4, <2>2
    <3> QED BY <1>1, <1>5, <2>2, <3>1, DrawnNext
  <2> QED BY <2>1, <2>2
<1>6. CASE pc = "initial"
  <2>1. Clip(rects') = Window
    BY <1>6 DEF Clip
  <2>2. \A px \in Pixels(Window) : DrawnUpTo(place, look, screen', px, step + 1)
    BY <1>1, <1>5, <1>6, <2>1 DEF CoverInv
  <2> QED BY <1>1, <1>4, <1>6, <2>2 DEF CoverInv
<1>7. CASE pc = "draw"
  <2>1. Clip(rects') = rects'[1] /\ Pixels(rects[1]) \subseteq Pixels(rects'[1])
    <3>1. 1 \in DOMAIN rects /\ Clip(rects') = rects'[1]
      BY <1>3, <1>7, HeadTailProperties, EmptySeq DEF Clip
    <3> QED BY <1>4, <3>1 DEF Grows
  <2>2. ASSUME NEW px \in Pixels(Window)
        PROVE  \/ DrawnUpTo(place, look, screen', px, Len(Order) + 1)
               \/ CoveredLater(rects', px)
               \/ px \in Pixels(rects'[1]) /\ DrawnUpTo(place, look, screen', px, step + 1)
    <3>1. CASE CoveredLater(rects, px)
      BY <1>3, <1>4, <3>1, GrowsKeeps
    <3>2. CASE px \in Pixels(rects[1]) /\ DrawnUpTo(place, look, screen, px, step)
      BY <1>5, <2>1, <3>2
    <3>3. CASE Right(px)
      <4>1. CASE place[w] # NULL /\ px \in area
        <5>1. Over(place, step, px) /\ screen'[px] = Looks(look, Order[step])
          BY <1>1, <1>2, <1>4, <4>1 DEF w
        <5>2. DrawnUpTo(place, look, screen', px, step + 1)
          BY <1>1, <5>1, DrawnNext
        <5> QED BY <2>1, <4>1, <5>2
      <4>2. CASE ~(place[w] # NULL /\ px \in area)
        <5>1. screen'[px] = screen[px]
          BY <1>4, <4>2
        <5> QED BY <3>3, <5>1 DEF Right, DrawnUpTo
      <4> QED BY <4>1, <4>2
    <3> QED BY <1>1, <1>7, <3>1, <3>2, <3>3 DEF CoverInv
  <2> QED BY <1>1, <1>4, <1>7, <2>2 DEF CoverInv, Right
<1> QED BY <1>1, <1>6, <1>7

LEMMA DrawnOneCovers ==
  ASSUME Inv, Inv', CoverInv, DrawnOne
  PROVE  CoverInv'
<1>1. /\ step = Len(Order) + 1 /\ step # 0 /\ step' = 0 /\ pc \in {"initial", "draw"}
      /\ UNCHANGED <<place, location, look, screen>> /\ pc' \in {"callback", "draw"}
  BY OrderAssumption DEF DrawnOne, Drawing, Inv
<1>2. CASE pc = "initial"
  <2>1. pc' = "callback" /\ \A px \in Pixels(Window) : Right(px)
    BY <1>1, <1>2 DEF DrawnOne, CoverInv, Right
  <2> QED BY <1>1, <2>1 DEF CoverInv, Right
<1>3. CASE pc = "draw"
  <2>1. rects \in Seq(WindowRect) /\ rects # <<>> /\ rects' = Tail(rects)
    BY <1>3 DEF Inv, DrawnOne
  <2>2. /\ rects' \in Seq(WindowRect) /\ Len(rects') = Len(rects) - 1
        /\ \A i \in 1 .. Len(rects') : rects'[i] = rects[i + 1]
    BY <2>1, HeadTailProperties
  <2>3. ASSUME NEW px \in Pixels(Window)
        PROVE  Right(px) \/ Covered(rects', px)
    <3>1. CASE CoveredLater(rects, px)
      <4>1. PICK i \in DOMAIN rects : i # 1 /\ px \in Pixels(rects[i])
        BY <3>1 DEF CoveredLater
      <4>2. i - 1 \in 1 .. Len(rects') /\ (i - 1) + 1 = i
        BY <2>1, <2>2, <4>1
      <4>3. px \in Pixels(rects'[i - 1]) /\ i - 1 \in DOMAIN rects'
        BY <2>2, <4>1, <4>2
      <4> QED BY <4>3 DEF Covered
    <3>2. CASE Right(px) \/ DrawnUpTo(place, look, screen, px, step)
      BY <1>1, <3>2 DEF Right
    <3> QED BY <1>1, <1>3, <3>1, <3>2 DEF CoverInv
  <2>4. \A px \in Pixels(Window) : Covered(rects', px) => CoveredLater(rects', px) \/ px \in Pixels(rects'[1])
    BY DEF Covered, CoveredLater
  <2> QED BY <1>1, <2>3, <2>4 DEF CoverInv, Right
<1> QED BY <1>1, <1>2, <1>3

LEMMA RightIsOnTop ==
  ASSUME Plain, NEW px, Right(px)
  PROVE  screen[px] = Shows(OnTop(px))
<1> DEFINE over == {i \in DOMAIN Order : Over(place, i, px)}
<1>1. OnTop(px) = IF over = {} THEN Root ELSE Order[Max(over)]
  <2>1. \A i \in DOMAIN Order : \A r : Extent(Order[i], r) = r
    BY DEF Extent, Plain, Widget
  <2> QED BY <2>1 DEF OnTop, Over
<1>2. PICK v \in Widget \cup {Root} : Topmost(place, px, Len(Order) + 1, v) /\ screen[px] = Looks(look, v)
  BY DEF Right, DrawnUpTo
<1>3. \A i \in DOMAIN Order : i \in Int /\ i < Len(Order) + 1
  BY OrderAssumption
<1>4. v = OnTop(px)
  <2>1. CASE v = Root /\ \A i \in DOMAIN Order : ~Over(place, i, px)
    BY <1>1, <2>1
  <2>2. CASE \E i \in DOMAIN Order : /\ Over(place, i, px) /\ v = Order[i]
                                     /\ \A j \in DOMAIN Order : i < j => ~Over(place, j, px)
    <3>1. PICK i \in over : v = Order[i] /\ \A j \in DOMAIN Order : i < j => ~Over(place, j, px)
      BY <2>2
    <3>2. \A j \in over : i >= j
      BY <1>3, <3>1
    <3>3. \A k \in over : (\A j \in over : k >= j) => k = i
      BY <1>3, <3>2
    <3> HIDE DEF over
    <3>4. (CHOOSE k \in over : \A j \in over : k >= j) = i
      BY <3>1, <3>2, <3>3
    <3>5. Max(over) = i
      BY <3>4 DEF Max
    <3> QED BY <1>1, <3>1, <3>5
  <2> QED BY <1>2, <1>3, <2>1, <2>2 DEF Topmost
<1> QED BY <1>2, <1>4 DEF Shows, Looks

(* Wherever frames and buttons without a border are placed, in the window, *)
(* across its sides or outside, each call of the program invalidates all   *)
(* that it changes, and neither the merging of rectangles nor their growth *)
(* while they are drawn leaves out a pixel or draws one in a wrong order.  *)
THEOREM ScreenIsRight ==
  ASSUME Plain
  PROVE  Spec => []ScreenRight
<1>1. Init => Inv /\ CoverInv
  BY InitInv, InitCover
<1>2. Inv /\ Inv' /\ CoverInv /\ [Next]_vars => CoverInv'
  <2> SUFFICES ASSUME Inv, Inv', CoverInv, [Next]_vars PROVE CoverInv'
    OBVIOUS
  <2>1. CASE Program
    BY <2>1, ProgramStepCovers DEF Program
  <2>2. CASE Return
    BY <2>2, ReturnCovers
  <2>3. CASE Draw
    BY <2>3, DrawRootCovers, DrawWidgetCovers, DrawnOneCovers DEF Draw
  <2>4. CASE UNCHANGED vars
    BY <2>4 DEF CoverInv, Right, vars
  <2> QED BY <2>1, <2>2, <2>3, <2>4 DEF Next
<1>3. CoverInv => ScreenRight
  <2> SUFFICES ASSUME CoverInv, pc = "callback", rects = <<>>, NEW px \in Pixels(Window)
               PROVE  screen[px] = Shows(OnTop(px))
    BY DEF ScreenRight
  <2>1. Right(px)
    BY DEF CoverInv, Covered
  <2> QED BY <2>1, RightIsOnTop
<1> QED BY <1>1, <1>2, <1>3, Invariance, PTL DEF Spec

=============================================================================
