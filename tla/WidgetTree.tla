----------------------------- MODULE WidgetTree -----------------------------
(***************************************************************************)
(* The widget hierarchy as ei_widget.c keeps it: each widget points to its *)
(* first and last child and to its next sibling, and                       *)
(* ei_widget_create, ei_widget_destroy and ei_toplevel_configure rewrite   *)
(* these pointers by hand.  A step is one call, made by the program or, to *)
(* close a toplevel, by quit_toplevel_event.  "fault" names the first null *)
(* pointer followed; the program ends there.                               *)
(***************************************************************************)

CONSTANTS
  Widget, Root, Toplevel,
  QuitButton, ResizeButton,  \* toplevel -> the buttons made with it
  NULL

Decoration == {QuitButton[t] : t \in Toplevel} \cup {ResizeButton[t] : t \in Toplevel}

ASSUME NullAssumption == NULL \notin Widget \cup BOOLEAN
ASSUME ClassAssumption ==
  /\ Toplevel \subseteq Widget /\ Root \in Widget \ (Toplevel \cup Decoration)
  /\ QuitButton \in [Toplevel -> Widget] /\ ResizeButton \in [Toplevel -> Widget]
  /\ Decoration \cap Toplevel = {}
  /\ \A s, t \in Toplevel : QuitButton[s] # ResizeButton[t]
  /\ \A s, t \in Toplevel : s # t => /\ QuitButton[s] # QuitButton[t]
                                     /\ ResizeButton[s] # ResizeButton[t]

VARIABLES
  status,              \* unborn, live, destroyed (by a call on it), released (with one above)
  parent,
  links,               \* children_head, children_tail and next_sibling of every widget
  closable, resizable, \* of every toplevel; resizable: on some axis
  notified,            \* history: the widgets whose destructor has been called
  fault

vars == <<status, parent, links, closable, resizable, notified, fault>>

Live == {w \in Widget : status[w] = "live"}
NoLink == [w \in Widget |-> NULL]

(* What following the pointers fs reaches from n.                          *)
Reached(n, fs) ==
  LET near == ({n} \cup UNION {{f[c] : c \in Widget} : f \in fs}) \ {NULL}
      closed == {S \in SUBSET near : /\ n \in S \cup {NULL}
                                     /\ \A c \in S, f \in fs : f[c] \in S \cup {NULL}}
  IN  {c \in near : \A S \in closed : c \in S}

(* n and the siblings after it; the children of p.                         *)
SiblingsFrom(L, n) == Reached(n, {L.next})
Children(L, p) == SiblingsFrom(L, L.head[p])

(* Mutant: the siblings of a first child are not destroyed with it.        *)
Subtree_firstChild(L, w) == {w} \cup Reached(L.head[w], {L.head})

(* w and what ei_widget_destroy_recurs reaches below it.                   *)
Subtree(L, w) == {w} \cup Reached(L.head[w], {L.head, L.next})

Init ==
  /\ status = [w \in Widget |-> IF w = Root THEN "live" ELSE "unborn"]
  /\ parent = NoLink
  /\ links = [head |-> NoLink, tail |-> NoLink, next |-> NoLink]
  /\ closable = [t \in Toplevel |-> TRUE] /\ resizable = [t \in Toplevel |-> TRUE]
  /\ notified = {}
  /\ fault = "none"

-----------------------------------------------------------------------------
(* ei_widget_create.                                                       *)
AtHead(L, w, p) == [L EXCEPT !.head[p] = w, !.next[w] = L.head[p]]

AtTail(L, w, p) ==
  [head |-> [L.head EXCEPT ![p] = IF @ = NULL THEN w ELSE @],
   tail |-> [L.tail EXCEPT ![p] = w],
   next |-> [c \in Widget |-> IF c = L.tail[p] THEN w ELSE L.next[c]]]

Between(L, w, before, after) == [L EXCEPT !.next[before] = w, !.next[w] = after]

(* In a resizable toplevel the resize button is to stay last: it is looked *)
(* for from the second child on, and the walk follows a null pointer when  *)
(* there is none.                                                          *)
KeepsGripLast(p) == p \in Toplevel /\ resizable[p] /\ links.head[p] # NULL

IsGrip(c) == \E t \in Toplevel : c = ResizeButton[t]

(* Mutant: the walk starts one child too far.                              *)
Grips_fromThird(p) ==
  {c \in Children(links, p) \ {links.head[p], links.next[links.head[p]]} : IsGrip(c)}

Grips(p) == {c \in Children(links, p) \ {links.head[p]} : IsGrip(c)}

(* Where the walk ends, and the child before a child.                      *)
FirstGrip(p) == CHOOSE g \in Grips(p) : Grips(p) \subseteq SiblingsFrom(links, g)
Before(L, p, w) == CHOOSE c \in Children(L, p) : L.next[c] = w

OnlyChild(p) == links.next[links.head[p]] = NULL
WalksOff(p) == KeepsGripLast(p) /\ ~OnlyChild(p) /\ Grips(p) = {}

(* Mutants: a new child goes last, or first, in any parent.                *)
Placed_last(w, p) == AtTail(links, w, p)
Placed_first(w, p) == IF links.head[p] = NULL THEN AtTail(links, w, p) ELSE AtHead(links, w, p)

Placed(w, p) ==
  IF ~KeepsGripLast(p) THEN AtTail(links, w, p)
  ELSE IF OnlyChild(p) THEN AtHead(links, w, p)
  ELSE LET g == FirstGrip(p)
       IN  IF links.next[g] = NULL /\ links.tail[p] = g
           THEN Between(links, w, Before(links, p, g), g) ELSE AtTail(links, w, p)

(* Every widget of the domain of "under" is born below the widget given.   *)
Born(under) ==
  /\ status' = [c \in Widget |-> IF c \in DOMAIN under THEN "live" ELSE status[c]]
  /\ parent' = [c \in Widget |-> IF c \in DOMAIN under THEN under[c] ELSE parent[c]]
  /\ UNCHANGED fault

(* setdefaultstoplevel creates the resize button, then the quit button,    *)
(* which finds one child and goes in front of it.                          *)
WithButtons(L, t) == AtHead(AtTail(L, ResizeButton[t], t), QuitButton[t], t)

ei_widget_create(w, p) ==
  /\ w \notin Decoration /\ status[w] = "unborn" /\ p \in Live
  /\ \/ /\ WalksOff(p)
        /\ fault' = "walked_off"
        /\ UNCHANGED <<status, parent, links>>
     \/ /\ ~WalksOff(p) /\ w \notin Toplevel
        /\ links' = Placed(w, p)
        /\ Born([c \in {w} |-> p])
     \/ /\ ~WalksOff(p) /\ w \in Toplevel
        /\ links' = WithButtons(Placed(w, p), w)
        /\ Born([c \in {w, QuitButton[w], ResizeButton[w]} |-> IF c = w THEN p ELSE w])
  /\ UNCHANGED <<closable, resizable, notified>>

-----------------------------------------------------------------------------
(* ei_widget_destroy: the place of w among its siblings is looked for from *)
(* the parent's first child.  A widget already taken out of the list is    *)
(* not found, and if it has siblings the walk ends on a null pointer.      *)
LosesWay(L, w) ==
  LET p == parent[w] IN p # NULL /\ L.head[p] # NULL /\ w \notin Children(L, p)

(* Mutant: children_tail is left on the last child destroyed.              *)
Unchained_keepsTail(L, w) ==
  LET p == parent[w]
  IN  CASE p = NULL -> L
        [] p # NULL /\ L.head[p] \in {NULL, w} -> [L EXCEPT !.head[p] = L.next[w]]
        [] OTHER -> [L EXCEPT !.next[Before(L, p, w)] = L.next[w]]

Unchained(L, w) ==
  LET p == parent[w]
  IN  CASE p = NULL -> L
        [] p # NULL /\ L.head[p] \in {NULL, w} /\ L.tail[p] \in {NULL, w} ->
             [L EXCEPT !.head[p] = NULL, !.tail[p] = NULL]
        [] p # NULL /\ L.head[p] = w /\ L.tail[p] # w -> [L EXCEPT !.head[p] = L.next[w]]
        [] p # NULL /\ L.head[p] # w /\ L.tail[p] = w ->
             [L EXCEPT !.next[Before(L, p, w)] = NULL, !.tail[p] = Before(L, p, w)]
        [] OTHER -> [L EXCEPT !.next[Before(L, p, w)] = L.next[w]]

Without(f, S) == [c \in Widget |-> IF c \in S THEN NULL ELSE f[c]]
Forgotten(L, S) ==
  [head |-> Without(L.head, S), tail |-> Without(L.tail, S), next |-> Without(L.next, S)]

(* Mutant: the walk begins at w and goes on to its siblings.               *)
Notified_siblings(L, w) == {w, L.next[w]} \ ({NULL} \cup Decoration)

(* Destructors: that of w, and below it that of each first child; the      *)
(* library gives its own buttons none.                                     *)
Notified(L, w) == ({w} \cup {L.head[d] : d \in Subtree(L, w)}) \ ({NULL} \cup Decoration)

(* What a call has done so far to the tree, and the call's outcome.        *)
Untouched == [links |-> links, gone |-> {}, freed |-> {}, called |-> {}, fault |-> "none"]

Destroy(T, w) ==
  IF LosesWay(T.links, w) THEN [T EXCEPT !.fault = "lost_child"]
  ELSE [T EXCEPT !.links = Forgotten(Unchained(T.links, w), Subtree(T.links, w)),
                 !.gone = @ \cup {w},
                 !.freed = @ \cup Subtree(T.links, w),
                 !.called = @ \cup Notified(T.links, w)]

Becomes(T) ==
  /\ links' = T.links
  /\ status' = [c \in Widget |-> IF c \in T.gone THEN "destroyed"
                                 ELSE IF c \in T.freed THEN "released" ELSE status[c]]
  /\ parent' = Without(parent, T.freed)
  /\ notified' = notified \cup T.called
  /\ fault' = T.fault

(* Called by the program, by quit_toplevel_event, and by ei_app_free on    *)
(* the root.                                                               *)
ei_widget_destroy(w) ==
  /\ w \in Live \ Decoration
  /\ Becomes(Destroy(Untouched, w))
  /\ UNCHANGED <<closable, resizable>>

-----------------------------------------------------------------------------
(* ei_toplevel_configure: taking away the right to close or to resize also *)
(* takes the button out of the children, then destroys it.                 *)
Withdrawn(L, t, b) ==
  CASE L.head[t] = b -> [L EXCEPT !.head[t] = L.next[b], !.tail[t] = IF @ = b THEN NULL ELSE @]
    [] L.head[t] # b /\ L.next[b] # NULL -> [L EXCEPT !.next[Before(L, t, b)] = L.next[b]]
    [] OTHER -> [L EXCEPT !.tail[t] = Before(L, t, b)]

(* The class of the first child is read without looking whether there is   *)
(* a first child.                                                          *)
Withdraw(T, t, b) ==
  CASE T.fault # "none" -> T
    [] T.fault = "none" /\ T.links.head[t] = NULL -> [T EXCEPT !.fault = "no_child"]
    [] T.fault = "none" /\ b \in Children(T.links, t) ->
         Destroy([T EXCEPT !.links = Withdrawn(T.links, t, b)], b)
    [] OTHER -> T

(* Mutant: an argument resizable not given is stored all the same.         *)
ei_toplevel_configure_unchecked(t, c, r) ==
  /\ t \in Live
  /\ resizable' = [resizable EXCEPT ![t] = r]
  /\ UNCHANGED <<status, parent, links, closable, notified, fault>>

(* c and r are the arguments closable and resizable, NULL when not given.  *)
ei_toplevel_configure(t, c, r) ==
  LET closed == IF c = FALSE THEN Withdraw(Untouched, t, QuitButton[t]) ELSE Untouched
      fixed == IF r = FALSE THEN Withdraw(closed, t, ResizeButton[t]) ELSE closed
  IN  /\ t \in Live
      /\ Becomes(fixed)
      /\ closable' = [closable EXCEPT ![t] = IF c = NULL THEN @ ELSE c]
      /\ resizable' = [resizable EXCEPT ![t] = IF r = NULL THEN @ ELSE r]

-----------------------------------------------------------------------------

Over == status[Root] # "live" \/ fault # "none"

Next ==
  \/ /\ ~Over
     /\ \/ \E w, p \in Widget : ei_widget_create(w, p)
        \/ \E w \in Widget : ei_widget_destroy(w)
        \/ \E t \in Toplevel, c, r \in BOOLEAN \cup {NULL} : ei_toplevel_configure(t, c, r)
  \/ Over /\ UNCHANGED vars

Spec == Init /\ [][Next]_vars

-----------------------------------------------------------------------------

TypeOK ==
  /\ status \in [Widget -> {"unborn", "live", "destroyed", "released"}]
  /\ parent \in [Widget -> Widget \cup {NULL}]
  /\ {links.head, links.tail, links.next} \subseteq [Widget -> Widget \cup {NULL}]
  /\ closable \in [Toplevel -> BOOLEAN] /\ resizable \in [Toplevel -> BOOLEAN]
  /\ notified \subseteq Widget
  /\ fault \in {"none", "walked_off", "lost_child", "no_child"}

(* The three pointers agree: what children_head and next_sibling reach     *)
(* below a widget is exactly its live children, once each, and             *)
(* children_tail is the last of them, so that a child appended is reached. *)
WellLinked ==
  fault = "none" =>
    \A p \in Live :
      LET kids == Children(links, p)
          tail == links.tail[p]
      IN  /\ kids = {c \in Live : parent[c] = p}
          /\ \A c \in kids : c \notin SiblingsFrom(links, links.next[c])
          /\ IF kids = {} THEN tail = NULL ELSE tail \in kids /\ links.next[tail] = NULL

(* A toplevel that can be resized has its resize button: nobody has taken  *)
(* resizing away and given it back.                                        *)
HasGrip(p) == p \in Toplevel /\ resizable[p] => ResizeButton[p] \in Live

(* The resize button "must be the last one" of the children of a toplevel  *)
(* that can be resized (ei_widget.c), which draws it above the others.     *)
GripLast ==
  \A t \in Toplevel \cap Live :
    resizable[t] /\ HasGrip(t) => links.tail[t] = ResizeButton[t]

(* No call follows a null pointer, as long as the live toplevels are as    *)
(* the programs of the repository have them: each can be closed, and has   *)
(* its quit button and, if it can be resized, its resize button.           *)
CallsComplete ==
  (\A t \in Toplevel \cap Live : closable[t] /\ QuitButton[t] \in Live /\ HasGrip(t))
  => fault = "none"

(* Creating, destroying and configuring never change the order in which    *)
(* the remaining children of a widget are drawn, and a new child is drawn  *)
(* above all of them but the resize button.                                *)
DrawingOrder ==
  [][\A p \in Live : HasGrip(p) /\ status'[p] = "live" /\ fault' = "none" =>
       LET old == Children(links, p)
           new == Children(links', p)
           stay == {c \in old : status'[c] = "live"}
       IN  /\ stay = {c \in new : status[c] # "unborn"}
           /\ \A c \in stay :
                SiblingsFrom(links, c) \cap stay = SiblingsFrom(links', c) \cap stay
           /\ \A c \in new \ stay : \A d \in SiblingsFrom(links', links'.next[c]) : IsGrip(d)]_vars

(* The destructor of a widget that goes by a call of its own is called,    *)
(* and none of a widget that stays, or stays unborn, although the walk over*)
(* the descendants goes from sibling to sibling: "function to call before  *)
(* destroying this widget structure" (ei_widget.h).  Of those released with*)
(* an ancestor only each first child's is called.                          *)
DestructorsHonest ==
  \A w \in Widget \ Decoration :
    /\ status[w] = "destroyed" => w \in notified
    /\ w \in notified => status[w] \in {"destroyed", "released"}

(* ei_widget_create and ei_widget_destroy implement the tree of WidgetLife.*)
Ancestors(w) == Reached(w, {parent})

Life == INSTANCE WidgetLife WITH
  above <- [w \in Widget |-> IF w \in Live THEN Ancestors(w) ELSE {}]

ImplementsLife == Life!Spec

=============================================================================
