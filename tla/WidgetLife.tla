----------------------------- MODULE WidgetLife -----------------------------
(***************************************************************************)
(* What ei_widget_create and ei_widget_destroy promise: a tree of live     *)
(* widgets, in which a widget is destroyed together with everything below  *)
(* it.  The order of siblings is left out; WidgetTree models it.           *)
(***************************************************************************)
CONSTANTS
  Widget,     \* widget instances; each is created at most once
  Root        \* the root widget, made by ei_app_create

VARIABLES
  status,     \* unborn, live, destroyed (by a call on it), released (with one above)
  above       \* above[w]: w and the widgets its chain of parents goes through

lifeVars == <<status, above>>

Status == {"unborn", "live", "destroyed", "released"}

Live == {w \in Widget : status[w] = "live"}

(* w and its descendants.                                                  *)
Family(w) == {d \in Live : w \in above[d]}

Init ==
  /\ status = [w \in Widget |-> IF w = Root THEN "live" ELSE "unborn"]
  /\ above = [w \in Widget |-> IF w = Root THEN {Root} ELSE {}]

(* Mutant: the parts are made next to w instead of below it.               *)
Create_beside(w, p, parts) ==
  /\ p \in Live
  /\ \A c \in parts \cup {w} : status[c] = "unborn"
  /\ status' = [c \in Widget |-> IF c \in parts \cup {w} THEN "live" ELSE status[c]]
  /\ above' = [c \in Widget |-> IF c \in parts \cup {w} THEN above[p] \cup {c} ELSE above[c]]

(* Creates w below p; the default attributes of a toplevel create two more *)
(* widgets, its parts, below w.                                            *)
Create(w, p, parts) ==
  /\ p \in Live
  /\ \A c \in parts \cup {w} : status[c] = "unborn"
  /\ status' = [c \in Widget |-> IF c \in parts \cup {w} THEN "live" ELSE status[c]]
  /\ above' = [c \in Widget |->
                 IF c = w THEN above[p] \cup {w}
                 ELSE IF c \in parts THEN above[p] \cup {w, c}
                 ELSE above[c]]

(* Mutant: the descendants stay.                                           *)
Destroy_alone(w) ==
  /\ w \in Live
  /\ status' = [status EXCEPT ![w] = "destroyed"]
  /\ above' = [above EXCEPT ![w] = {}]

Destroy(w) ==
  /\ w \in Live
  /\ LET family == Family(w)
     IN  /\ status' = [c \in Widget |-> IF c = w THEN "destroyed"
                                        ELSE IF c \in family THEN "released"
                                        ELSE status[c]]
         /\ above' = [c \in Widget |-> IF c \in family THEN {} ELSE above[c]]

Next ==
  \/ \E w, p \in Widget : \E parts \in SUBSET {c \in Widget \ {w} : status[c] = "unborn"} : Create(w, p, parts)
  \/ \E w \in Widget : Destroy(w)

Spec == Init /\ [][Next]_lifeVars

TypeOK ==
  /\ status \in [Widget -> Status]
  /\ above \in [Widget -> SUBSET Widget]

(* What the parent pointers of a live widget reach is live, all the way    *)
(* up; the other widgets reach nothing.                                    *)
Rooted ==
  \A w \in Widget :
    /\ status[w] = "live" => w \in above[w]
    /\ \A a \in above[w] : status[w] = "live" /\ status[a] = "live" /\ above[a] \subseteq above[w]

=============================================================================
