----------------------------- MODULE EventLoop -----------------------------
(***************************************************************************)
(* ei_app_run: events are taken one by one and offered to the bindings in  *)
(* the order of the list, and the callbacks may bind, unbind, create and   *)
(* destroy while the loop stands on one of them.  One step is one binding  *)
(* examined, one call made by a callback, or one move to the next binding. *)
(*                                                                         *)
(* "fault" names the first access to freed memory; the model stops there,  *)
(* since what the program does next is not defined.  When Careful is TRUE  *)
(* the program keeps to the obligations gathered in SafeToUnbind,          *)
(* SafeToDestroy and SafeEvent.                                            *)
(***************************************************************************)
EXTENDS Naturals, Sequences, Functions

CONSTANTS
  Widget, Root, Button, Toplevel, \* widget instances and their classes
  QuitButton, ResizeButton,       \* toplevel -> the buttons made with it
  UserCallback,                   \* the program's own callbacks
  UserBinding,                    \* the bindings the program may (un)register
  MaxBind,
  Careful,
  NULL

EventType == {"ei_ev_mouse_buttondown", "ei_ev_mouse_buttonup",
              "ei_ev_mouse_move", "ei_ev_keydown"}
MouseEvent == EventType \ {"ei_ev_keydown"}

Tag == {"all", "frame", "button", "toplevel"}

LibraryCallback == {"ei_handle_button_down", "ei_handle_button_up",
  "ei_handle_button_move", "beg_resize", "resize", "end_resize",
  "beg_move", "move", "end_move", "quit_toplevel_event"}

Callback == LibraryCallback \cup UserCallback

ASSUME NullAssumption == NULL \notin Widget \cup Tag
ASSUME MaxBindAssumption == MaxBind \in Nat /\ MaxBind >= 7
ASSUME CarefulAssumption == Careful \in BOOLEAN
ASSUME ClassAssumption ==
  /\ Toplevel \subseteq Widget /\ Button \subseteq Widget
  /\ Root \in Widget \ (Toplevel \cup Button)
  /\ Toplevel \cap Button = {}
ASSUME PartAssumption ==
  /\ QuitButton \in [Toplevel -> Button] /\ ResizeButton \in [Toplevel -> Button]
  /\ \A s, t \in Toplevel : QuitButton[s] # ResizeButton[t]
  /\ \A s, t \in Toplevel : QuitButton[s] = QuitButton[t] => s = t
  /\ \A s, t \in Toplevel : ResizeButton[s] = ResizeButton[t] => s = t
ASSUME CallbackAssumption == UserCallback \cap LibraryCallback = {}

VARIABLES
  bindings, registered, fault,   \* see EventBinding
  status, above,                 \* see WidgetLife
  pc,                  \* what runs: the program, the loop, or a callback
  event,               \* the event being dispatched
  current,             \* current_bind
  processed,           \* a callback has consumed the event
  run,                 \* cleared by ei_app_quit_request
  button_pressed, resizing_toplevel, moving_toplevel

Bind == INSTANCE EventBinding
Tree == INSTANCE WidgetLife

loopVars == <<event, current, processed>>
gestureVars == <<button_pressed, resizing_toplevel, moving_toplevel>>
vars == <<bindings, registered, fault, status, above, pc, loopVars, run, gestureVars>>

NIL == Bind!NIL
Linked == Bind!Linked
Live == Tree!Live
Family(w) == Tree!Family(w)
Gone(w) == status[w] \in {"destroyed", "released"}

Decoration == {QuitButton[t] : t \in Toplevel} \cup {ResizeButton[t] : t \in Toplevel}

ClassOf(w) == IF w \in Toplevel THEN "toplevel" ELSE IF w \in Button THEN "button" ELSE "frame"
HasTag(w, tag) == tag = "all" \/ tag = ClassOf(w)

OnWidget(e, w, cb) == [eventtype |-> e, widget |-> w, tag |-> NULL, callback |-> cb]
OnTag(e, tag, cb) == [eventtype |-> e, widget |-> NULL, tag |-> tag, callback |-> cb]

(* The bindings setdefaultstoplevel makes, in its order.                   *)
ToplevelBindings(t) == <<
  OnWidget("ei_ev_mouse_buttondown", ResizeButton[t], "beg_resize"),
  OnWidget("ei_ev_mouse_buttondown", t, "beg_move"),
  OnWidget("ei_ev_mouse_buttondown", QuitButton[t], "quit_toplevel_event") >>

-----------------------------------------------------------------------------
(* Events.  "under" is the widget whose pick colour the pick surface holds *)
(* at the mouse; "left" the button; "titlebar" whether the mouse is no     *)
(* lower than the title bar of that widget.  Non-mouse events are one type.*)
Event == {e \in [type : EventType, under : Widget, left : BOOLEAN, titlebar : BOOLEAN] :
            /\ e.titlebar => e.type = "ei_ev_mouse_buttondown"
            /\ e.left => e.type \in {"ei_ev_mouse_buttondown", "ei_ev_mouse_buttonup"}
            /\ e.type = "ei_ev_keydown" => e.under = Root}

NoEvent == [type |-> "ei_ev_keydown", under |-> Root, left |-> FALSE, titlebar |-> FALSE]

(* Destroying a toplevel repaints its screen_location, which leaves its    *)
(* title bar and quit button on the pick surface.                          *)
OnScreen(w) == \/ w \in Live
               \/ Gone(w) /\ \E t \in Toplevel : w \in {t, QuitButton[t]}

SafeEvent(e) ==
  ~ \E t \in Toplevel : e.under = QuitButton[t] /\ e.type = "ei_ev_mouse_buttondown"

-----------------------------------------------------------------------------
(* ei_app_create.                                                          *)
DefaultBindings == <<
  OnTag("ei_ev_mouse_buttondown", "button", "ei_handle_button_down"),
  OnTag("ei_ev_mouse_buttonup", "all", "ei_handle_button_up"),
  OnTag("ei_ev_mouse_move", "all", "ei_handle_button_move"),
  OnTag("ei_ev_mouse_buttonup", "all", "end_resize"),
  OnTag("ei_ev_mouse_move", "all", "resize"),
  OnTag("ei_ev_mouse_buttonup", "all", "end_move"),
  OnTag("ei_ev_mouse_move", "all", "move") >>

(* A program that names callbacks of the library in ei_bind or ei_unbind   *)
(* names them as the library itself binds them.                            *)
LibraryBinding == {DefaultBindings[i] : i \in DOMAIN DefaultBindings}
  \cup UNION {{ToplevelBindings(t)[i] : i \in 1 .. 3} : t \in Toplevel}

ASSUME UserBindingAssumption ==
  \A b \in UserBinding : /\ b \in Bind!Binding
                         /\ b.callback \in LibraryCallback => b \in LibraryBinding

Init ==
  /\ bindings = DefaultBindings
  /\ registered = Len(DefaultBindings)
  /\ fault = "none"
  /\ Tree!Init
  /\ pc = "setup"
  /\ event = NoEvent /\ current = NIL /\ processed = FALSE
  /\ run = TRUE
  /\ button_pressed = NULL /\ resizing_toplevel = NULL /\ moving_toplevel = NULL

Fault(cause) ==
  /\ fault' = cause
  /\ UNCHANGED <<bindings, registered, status, above, pc, loopVars, run, gestureVars>>

(* Mutant: the widget goes and its bindings stay.                          *)
DestroyWidget_keepsBindings(w) ==
  /\ w \in Live
  /\ Tree!Destroy(w)
  /\ UNCHANGED <<bindings, registered, fault>>

(* ei_widget_destroy: the widget's own bindings, then the subtree.         *)
DestroyWidget(w) ==
  /\ w \in Live
  /\ Bind!destroy_event_binded_to_widget(w)
  /\ IF fault' = "none" THEN Tree!Destroy(w) ELSE UNCHANGED <<status, above>>

-----------------------------------------------------------------------------
(* Calls the program makes: before ei_app_run, from a callback bound with  *)
(* ei_bind, or from the callback of a button.                              *)
ProgramRuns == fault = "none" /\ pc \in {"setup", "user", "button_user"}

UserBind(b) ==
  /\ ProgramRuns
  /\ b.widget \in Live \cup {NULL}
  /\ Bind!ei_bind(b)
  /\ UNCHANGED <<status, above, pc, loopVars, run, gestureVars>>

(* The binding being executed is not the one removed.                      *)
SafeToUnbind(b) ==
  current \in Bind!Matching(b) => \E n \in Bind!Matching(b) : n < current

UserUnbind(b) ==
  /\ ProgramRuns
  /\ Careful => SafeToUnbind(b)
  /\ Bind!ei_unbind(b)
  /\ UNCHANGED <<status, above, pc, loopVars, run, gestureVars>>

UserCreate(w, p) ==
  /\ ProgramRuns
  /\ w \notin Toplevel \cup Decoration
  /\ Tree!Create(w, p, {})
  /\ UNCHANGED <<bindings, registered, fault, pc, loopVars, run, gestureVars>>

(* setdefaultstoplevel makes the two buttons and binds the three of them.  *)
CreateToplevel(t, p) ==
  /\ ProgramRuns
  /\ Tree!Create(t, p, {ResizeButton[t], QuitButton[t]})
  /\ Bind!Register(ToplevelBindings(t))
  /\ UNCHANGED <<fault, pc, loopVars, run, gestureVars>>

(* No descendant of w is bound, w has no two neighbouring bindings and is  *)
(* not the one being called, and no gesture is under way on what dies.     *)
SafeToDestroy(w) ==
  /\ \A d \in Family(w) \ {w} : Bind!BoundTo(d) = {}
  /\ ~Bind!Adjacent(w)
  /\ current \notin Bind!BoundTo(w)
  /\ \A d \in {button_pressed, resizing_toplevel, moving_toplevel} : d \notin Family(w)

UserDestroy(w) ==
  /\ ProgramRuns
  /\ w \notin Decoration \cup {Root}
  /\ Careful => SafeToDestroy(w)
  /\ DestroyWidget(w)
  /\ UNCHANGED <<registered, pc, loopVars, run, gestureVars>>

ei_app_quit_request ==
  /\ ProgramRuns
  /\ run' = FALSE
  /\ UNCHANGED <<bindings, registered, fault, status, above, pc, loopVars, gestureVars>>

(* The callback returns r to the loop.                                     *)
Return(r) ==
  /\ processed' = r
  /\ pc' = "next"
  /\ UNCHANGED <<event, current>>

UserReturn(r) ==
  /\ fault = "none" /\ pc = "user"
  /\ Return(r)
  /\ UNCHANGED <<bindings, registered, fault, status, above, run, gestureVars>>

(* What the callback of a button returns is dropped.                       *)
ButtonUserReturn ==
  /\ fault = "none" /\ pc = "button_user"
  /\ Return(FALSE)
  /\ UNCHANGED <<bindings, registered, fault, status, above, run, gestureVars>>

-----------------------------------------------------------------------------
(* The loop.                                                               *)
AppRun ==
  /\ fault = "none" /\ pc = "setup"
  /\ pc' = IF run THEN "wait" ELSE "stopped"
  /\ UNCHANGED <<bindings, registered, fault, status, above, loopVars, run, gestureVars>>

WaitNext(e) ==
  /\ fault = "none" /\ pc = "wait"
  /\ OnScreen(e.under)
  /\ Careful => SafeEvent(e)
  /\ event' = e
  /\ \/ Bind!Follows(NIL, current')
     \/ Bind!LastLinked(NIL) /\ current' = NIL
  /\ processed' = FALSE
  /\ pc' = "dispatch"
  /\ UNCHANGED <<bindings, registered, fault, status, above, run, gestureVars>>

Examining == fault = "none" /\ pc = "dispatch" /\ ~processed /\ current # NIL

(* Whether some widget carrying the tag is concerned by the event.         *)
TagConcerned(tag) ==
  IF event.type \in MouseEvent
  THEN event.under \in Live /\ HasTag(event.under, tag)
  ELSE \E w \in Live : HasTag(w, tag)

Concerned(b) ==
  /\ b.eventtype = event.type
  /\ \/ b.widget # NULL /\ (event.type \in MouseEvent => event.under = b.widget)
     \/ b.widget = NULL /\ TagConcerned(b.tag)

(* The pick colour of a bound widget is read, and a bound widget is handed *)
(* to its callback, whether or not it still exists.                        *)
ReadsGone(b) == b.eventtype = event.type /\ b.widget # NULL /\ b.widget \notin Live

Deliver ==
  /\ Examining
  /\ ~ReadsGone(bindings[current])
  /\ Concerned(bindings[current])
  /\ pc' = IF bindings[current].callback \in UserCallback THEN "user" ELSE "library"
  /\ UNCHANGED <<bindings, registered, fault, status, above, loopVars, run, gestureVars>>

Skip ==
  /\ Examining
  /\ ~ReadsGone(bindings[current])
  /\ ~Concerned(bindings[current])
  /\ pc' = "next"
  /\ UNCHANGED <<bindings, registered, fault, status, above, loopVars, run, gestureVars>>

ExamineGone ==
  /\ Examining
  /\ ReadsGone(bindings[current])
  /\ Fault("freed_widget")

(* Mutant: the walk does not advance.                                      *)
NextBinding_stays ==
  /\ fault = "none" /\ pc = "next" /\ current \in Linked
  /\ pc' = "dispatch"
  /\ UNCHANGED <<bindings, registered, fault, status, above, event, current, processed, run,
                 gestureVars>>

(* current_bind = current_bind->next, after the callback has run.          *)
NextBinding ==
  /\ fault = "none" /\ pc = "next" /\ current \in Linked
  /\ \/ Bind!Follows(current, current')
     \/ Bind!LastLinked(current) /\ current' = NIL
  /\ pc' = "dispatch"
  /\ UNCHANGED <<bindings, registered, fault, status, above, event, processed, run, gestureVars>>

NextFreed ==
  /\ fault = "none" /\ pc = "next" /\ current \notin Linked
  /\ Fault("freed_binding")

(* Mutant: the loop does not look at "run".                                *)
EndTurn_always ==
  /\ fault = "none" /\ pc = "dispatch"
  /\ processed \/ current = NIL
  /\ pc' = "wait"
  /\ event' = NoEvent /\ current' = NIL /\ processed' = FALSE
  /\ UNCHANGED <<bindings, registered, fault, status, above, run, gestureVars>>

(* The end of one turn of the loop: what was invalidated is drawn, and     *)
(* "run" decides whether there is another turn.                            *)
EndTurn ==
  /\ fault = "none" /\ pc = "dispatch"
  /\ processed \/ current = NIL
  /\ pc' = IF run THEN "wait" ELSE "stopped"
  /\ event' = NoEvent /\ current' = NIL /\ processed' = FALSE
  /\ UNCHANGED <<bindings, registered, fault, status, above, run, gestureVars>>

(* ei_app_free: the root with all widgets, then every binding left.        *)
AppFree ==
  /\ fault = "none" /\ pc = "stopped"
  /\ Careful => ~Bind!Adjacent(Root)
  /\ \/ /\ Bind!Adjacent(Root)
        /\ Fault("freed_predecessor")
     \/ /\ ~Bind!Adjacent(Root)
        /\ Tree!Destroy(Root)
        /\ Bind!Unlink(Linked)
        /\ pc' = "freed"
        /\ UNCHANGED <<registered, fault, loopVars, run, gestureVars>>

-----------------------------------------------------------------------------
(* The callbacks of the library.                                           *)
Runs(cb) == fault = "none" /\ pc = "library" /\ bindings[current].callback = cb

ListsAndTree == <<bindings, registered, status, above>>

ButtonDown ==
  /\ Runs("ei_handle_button_down")
  /\ button_pressed' = IF event.left /\ event.under \in Live
                       THEN event.under ELSE button_pressed
  /\ Return(FALSE)
  /\ UNCHANGED <<ListsAndTree, fault, run, resizing_toplevel, moving_toplevel>>

(* The left button came up: the press is over, and if it ends where it     *)
(* began the button's callback, if it has one, is called.                  *)
ButtonUp ==
  /\ Runs("ei_handle_button_up")
  /\ button_pressed' = IF event.left THEN NULL ELSE button_pressed
  /\ \/ Return(FALSE)
     \/ /\ event.left
        /\ event.under \in Live /\ button_pressed = event.under
        /\ event.under \notin Decoration
        /\ pc' = "button_user"
        /\ UNCHANGED loopVars
  /\ UNCHANGED <<ListsAndTree, fault, run, resizing_toplevel, moving_toplevel>>

Gestureless == UNCHANGED <<ListsAndTree, run, gestureVars>>

(* Reads the relief of the button pressed.                                 *)
ButtonMove ==
  /\ Runs("ei_handle_button_move")
  /\ button_pressed \in Live \cup {NULL}
  /\ Return(FALSE)
  /\ Gestureless /\ UNCHANGED fault

ButtonMoveFreed ==
  /\ Runs("ei_handle_button_move")
  /\ button_pressed \notin Live \cup {NULL}
  /\ Fault("freed_button")

(* Mutant: resizes the button instead of its parent.                       *)
BegResize_onButton ==
  /\ Runs("beg_resize")
  /\ resizing_toplevel' = IF event.left THEN bindings[current].widget ELSE resizing_toplevel
  /\ Return(event.left)
  /\ UNCHANGED <<ListsAndTree, fault, run, button_pressed, moving_toplevel>>

BegResize ==
  /\ Runs("beg_resize")
  /\ \/ /\ ~event.left
        /\ Return(FALSE)
        /\ UNCHANGED resizing_toplevel
     \/ /\ event.left
        /\ \E t \in Toplevel :
             /\ ResizeButton[t] = bindings[current].widget
             /\ resizing_toplevel' = t
        /\ Return(TRUE)
  /\ UNCHANGED <<ListsAndTree, fault, run, button_pressed, moving_toplevel>>

Resize ==
  /\ Runs("resize")
  /\ resizing_toplevel \in Live \cup {NULL}
  /\ Return(FALSE)
  /\ Gestureless /\ UNCHANGED fault

ResizeFreed ==
  /\ Runs("resize")
  /\ resizing_toplevel \notin Live \cup {NULL}
  /\ Fault("freed_toplevel")

(* Mutant: the resize goes on.                                             *)
EndResize_forgets ==
  /\ Runs("end_resize")
  /\ Return(FALSE)
  /\ UNCHANGED <<ListsAndTree, fault, run, gestureVars>>

EndResize ==
  /\ Runs("end_resize")
  /\ resizing_toplevel' = NULL
  /\ Return(FALSE)
  /\ UNCHANGED <<ListsAndTree, fault, run, button_pressed, moving_toplevel>>

BegMove ==
  /\ Runs("beg_move")
  /\ moving_toplevel' = IF event.titlebar THEN bindings[current].widget ELSE moving_toplevel
  /\ Return(FALSE)
  /\ UNCHANGED <<ListsAndTree, fault, run, button_pressed, resizing_toplevel>>

Move ==
  /\ Runs("move")
  /\ moving_toplevel \in Live \cup {NULL}
  /\ Return(FALSE)
  /\ Gestureless /\ UNCHANGED fault

MoveFreed ==
  /\ Runs("move")
  /\ moving_toplevel \notin Live \cup {NULL}
  /\ Fault("freed_toplevel")

EndMove ==
  /\ Runs("end_move")
  /\ moving_toplevel' = NULL
  /\ Return(FALSE)
  /\ UNCHANGED <<ListsAndTree, fault, run, button_pressed, resizing_toplevel>>

(* Destroys the parent of the quit button, and with it the quit button     *)
(* whose binding is being executed.                                        *)
QuitToplevel ==
  /\ Runs("quit_toplevel_event")
  /\ \E t \in Toplevel :
       /\ QuitButton[t] = bindings[current].widget
       /\ DestroyWidget(t)
  /\ IF fault' = "none" THEN Return(TRUE) ELSE UNCHANGED <<pc, loopVars>>
  /\ UNCHANGED <<registered, run, gestureVars>>

-----------------------------------------------------------------------------

Program ==
  \/ \E b \in UserBinding : UserBind(b) \/ UserUnbind(b)
  \/ \E w, p \in Widget : UserCreate(w, p)
  \/ \E t \in Toplevel, p \in Widget : CreateToplevel(t, p)
  \/ \E w \in Widget : UserDestroy(w)
  \/ ei_app_quit_request

Library ==
  \/ ButtonDown \/ ButtonUp \/ ButtonMove \/ ButtonMoveFreed
  \/ BegResize \/ Resize \/ ResizeFreed \/ EndResize
  \/ BegMove \/ Move \/ MoveFreed \/ EndMove
  \/ QuitToplevel

CallbackReturn == ButtonUserReturn \/ \E r \in BOOLEAN : UserReturn(r)

Turn ==
  \/ Deliver \/ Skip \/ ExamineGone \/ NextBinding \/ NextFreed \/ EndTurn

Over == pc = "freed" \/ fault # "none"
Stopped == Over /\ UNCHANGED vars

Next ==
  \/ Program \/ AppRun
  \/ \E e \in Event : WaitNext(e)
  \/ Turn \/ Library \/ CallbackReturn
  \/ AppFree
  \/ Stopped

(* The loop and the library never rest within a turn, and a callback of    *)
(* the program returns.                                                    *)
Fairness == WF_vars(Turn) /\ WF_vars(Library) /\ WF_vars(CallbackReturn)

Spec == Init /\ [][Next]_vars /\ Fairness

-----------------------------------------------------------------------------

Cause == {"none", "freed_predecessor", "freed_widget", "freed_binding",
          "freed_button", "freed_toplevel"}

TypeOK ==
  /\ registered \in 0 .. MaxBind
  /\ Linked \subseteq 1 .. registered
  /\ \A n \in Linked : bindings[n] \in Bind!Binding
  /\ fault \in Cause
  /\ Tree!TypeOK
  /\ pc \in {"setup", "wait", "dispatch", "library", "user", "button_user",
             "next", "stopped", "freed"}
  /\ event \in Event
  /\ current \in 0 .. MaxBind
  /\ processed \in BOOLEAN /\ run \in BOOLEAN
  /\ button_pressed \in Widget \cup {NULL}
  /\ resizing_toplevel \in Toplevel \cup {NULL}
  /\ moving_toplevel \in Widget \cup {NULL}

(* No step of the library reads or writes a widget or a binding that has   *)
(* been freed.  Holds of a careful program.                                *)
NoFreedAccess == fault = "none"

(* The tree has no hole: what the parent pointers of a live widget reach   *)
(* is live, so the parent a decoration button acts on exists.              *)
TreeRooted == Tree!Rooted

(* Why a careful program is safe, clause by clause.                        *)
BoundAreLive == \A n \in Linked : bindings[n].widget \in Live \cup {NULL}

LibraryBoundAsMade ==
  \A n \in Linked : bindings[n].callback \in LibraryCallback => bindings[n] \in LibraryBinding

GripsOnToplevels ==
  \A t \in Toplevel : ResizeButton[t] \in Live => t \in above[ResizeButton[t]]

GesturesOnLive ==
  pc # "freed" => {button_pressed, resizing_toplevel, moving_toplevel} \subseteq Live \cup {NULL}

CursorLinked ==
  /\ pc \in {"library", "user", "button_user", "next"} => current \in Linked
  /\ pc = "dispatch" => current \in Linked \cup {NIL}
  /\ pc \in {"setup", "wait", "stopped", "freed"} => current = NIL

CalledAsBound ==
  pc = "library" => /\ bindings[current].callback \in LibraryCallback
                    /\ Concerned(bindings[current])

(* The inductive invariant behind NoFreedAccess: whatever the library      *)
(* points to, from the list, the loop or a gesture, has not been freed.    *)
CarefulInv ==
  /\ NoFreedAccess
  /\ TreeRooted
  /\ BoundAreLive
  /\ LibraryBoundAsMade
  /\ GripsOnToplevels
  /\ GesturesOnLive
  /\ CursorLinked
  /\ CalledAsBound
  /\ SafeEvent(event)

(* ei_widget_destroy leaves no binding on the widget it is called for,     *)
(* whoever calls it: a callback, the quit button or the main program.      *)
DestroyedIsUnbound ==
  \A n \in Linked : bindings[n].widget # NULL =>
    status[bindings[n].widget] \notin {"unborn", "destroyed"}

(* A left button released over a widget that is still there when the event *)
(* has been dispatched ends every gesture, so that no press, move or       *)
(* resize goes on without the button held.                                 *)
ReleaseEndsGestures ==
  [][(/\ EndTurn
      /\ event.type = "ei_ev_mouse_buttonup" /\ event.left
      /\ event.under \in Live)
     => button_pressed = NULL /\ resizing_toplevel = NULL /\ moving_toplevel = NULL]_vars

(* The button ei_handle_button_move animates when the mouse leaves it has  *)
(* not been destroyed by the press itself, as the close button of a        *)
(* toplevel "closable by the user" (ei_widget.h) is.  One of the causes of  *)
(* NoFreedAccess, and one a program can do nothing about.                  *)
AnimatedButtonLives == fault # "freed_button"

(* Dispatching an event comes to an end whatever its callbacks bind,       *)
(* unbind, create or destroy, as long as they return and bind finitely     *)
(* often (MaxBind).                                                        *)
EveryTurnEnds == (pc = "dispatch") ~> (pc \in {"wait", "stopped"} \/ fault # "none")

(* ei_app_run "exits when ei_app_quit_request is called"                   *)
(* (ei_application.h), from whichever callback of whichever event.         *)
QuitIsHonoured == (~run /\ pc # "setup") ~> (pc \in {"stopped", "freed"} \/ fault # "none")

=============================================================================
