-------------------------- MODULE EventLoop_proofs --------------------------
(***************************************************************************)
(* Proofs about EventLoop.  For every program: its types, the tree of      *)
(* widgets and the bindings of destroyed widgets.  For every careful       *)
(* program: no access to freed memory.  For every program that keeps the   *)
(* bindings of ei_app_create for a release: the end of the gestures.       *)
(***************************************************************************)
EXTENDS EventLoop, TLAPS

(* The bindings of the library are bindings.                               *)
LEMMA LibraryBindings ==
  /\ \A i \in 1 .. 7 : DefaultBindings[i] \in Bind!Binding
  /\ \A t \in Toplevel : \A i \in 1 .. 3 : ToplevelBindings(t)[i] \in Bind!Binding
  /\ Len(DefaultBindings) = 7 /\ DOMAIN DefaultBindings = 1 .. 7
  /\ \A t \in Toplevel : Len(ToplevelBindings(t)) = 3 /\ DOMAIN ToplevelBindings(t) = 1 .. 3
<1>1. /\ Len(DefaultBindings) = 7 /\ DOMAIN DefaultBindings = 1 .. 7
      /\ \A t \in Toplevel : Len(ToplevelBindings(t)) = 3 /\ DOMAIN ToplevelBindings(t) = 1 .. 3
  BY DEF DefaultBindings, ToplevelBindings
<1>2. \A e \in EventType, tag \in Tag, cb \in LibraryCallback : OnTag(e, tag, cb) \in Bind!Binding
  BY DEF OnTag, Bind!Binding, Callback
<1>3. \A e \in EventType, w \in Widget, cb \in LibraryCallback : OnWidget(e, w, cb) \in Bind!Binding
  BY DEF OnWidget, Bind!Binding, Callback
<1>4. \A i \in 1 .. 7 : DefaultBindings[i] \in Bind!Binding
  BY <1>2 DEF DefaultBindings, EventType, Tag, LibraryCallback
<1>5. \A t \in Toplevel : \A i \in 1 .. 3 : ToplevelBindings(t)[i] \in Bind!Binding
  BY <1>3, PartAssumption, ClassAssumption DEF ToplevelBindings, EventType, LibraryCallback
<1> QED BY <1>1, <1>4, <1>5

-----------------------------------------------------------------------------
(* What the three operations on the list do to its type.                   *)
ListOK ==
  /\ registered \in 0 .. MaxBind
  /\ Linked \subseteq 1 .. registered
  /\ \A n \in Linked : bindings[n] \in Bind!Binding

LEMMA RegisterType ==
  ASSUME ListOK, NEW bs, NEW k \in Nat, Len(bs) = k, DOMAIN bs = 1 .. k,
         \A i \in 1 .. k : bs[i] \in Bind!Binding,
         Bind!Register(bs)
  PROVE  ListOK'
<1>1. registered' \in 0 .. MaxBind /\ registered' = registered + k
  BY MaxBindAssumption DEF ListOK, Bind!Register
<1>2. Linked' = Linked \cup {registered + i : i \in 1 .. k}
  BY DEF Bind!Register, Linked, Bind!Linked
<1>3. Linked' \subseteq 1 .. registered'
  <2>1. registered \in Nat /\ registered' = registered + k
    BY <1>1, MaxBindAssumption DEF ListOK
  <2>2. \A i \in 1 .. k : registered + i \in 1 .. registered'
    BY <2>1
  <2>3. \A n \in Linked : n \in 1 .. registered'
    BY <2>1 DEF ListOK
  <2> QED BY <1>2, <2>2, <2>3
<1>4. \A n \in Linked' : bindings'[n] = IF n \in Linked THEN bindings[n] ELSE bs[n - registered]
  BY <1>2 DEF Bind!Register, Linked, Bind!Linked
<1>5. \A i \in 1 .. k : (registered + i) - registered = i
  BY DEF ListOK
<1>6. \A n \in Linked' : bindings'[n] \in Bind!Binding
  BY <1>2, <1>4, <1>5 DEF ListOK
<1> QED BY <1>1, <1>3, <1>6 DEF ListOK

LEMMA UnlinkType ==
  ASSUME ListOK, NEW S, Bind!Unlink(S), registered' = registered
  PROVE  ListOK' /\ Linked' = Linked \ S /\ \A n \in Linked' : bindings'[n] = bindings[n]
BY DEF ListOK, Bind!Unlink, Bind!Restrict, Linked, Bind!Linked

LEMMA DestroyBindingsType ==
  ASSUME ListOK, NEW w, Bind!destroy_event_binded_to_widget(w)
  PROVE  ListOK'
<1>1. registered' = registered
  BY DEF Bind!destroy_event_binded_to_widget
<1>2. CASE Bind!Unlink(Bind!BoundTo(w))
  BY <1>1, <1>2, UnlinkType
<1>3. CASE UNCHANGED bindings
  BY <1>1, <1>3 DEF ListOK, Linked, Bind!Linked
<1> QED BY <1>2, <1>3 DEF Bind!destroy_event_binded_to_widget

LEMMA UnbindType ==
  ASSUME ListOK, NEW b, Bind!ei_unbind(b)
  PROVE  ListOK'
<1>1. registered' = registered
  BY DEF Bind!ei_unbind
<1>2. CASE UNCHANGED bindings
  BY <1>1, <1>2 DEF ListOK, Linked, Bind!Linked
<1>3. ASSUME NEW n, Bind!Unlink({n}) PROVE ListOK'
  BY <1>1, <1>3, UnlinkType
<1> QED BY <1>2, <1>3 DEF Bind!ei_unbind

LEMMA TreeType ==
  ASSUME Tree!TypeOK,
         \/ \E w, p \in Widget : \E parts \in SUBSET Widget : Tree!Create(w, p, parts)
         \/ \E w \in Widget : Tree!Destroy(w)
         \/ UNCHANGED <<status, above>>
  PROVE  Tree!TypeOK'
<1>1. ASSUME NEW w \in Widget, NEW p \in Widget, NEW parts \in SUBSET Widget,
             Tree!Create(w, p, parts)
      PROVE  Tree!TypeOK'
  BY <1>1 DEF Tree!TypeOK, Tree!Create, Tree!Status
<1>2. ASSUME NEW w \in Widget, Tree!Destroy(w)
      PROVE  Tree!TypeOK'
  BY <1>2 DEF Tree!TypeOK, Tree!Destroy, Tree!Status
<1>3. CASE UNCHANGED <<status, above>>
  BY <1>3 DEF Tree!TypeOK
<1> QED BY <1>1, <1>2, <1>3

-----------------------------------------------------------------------------
(* The type invariant, of any program.                                     *)
LEMMA InitType == Init => TypeOK
<1> SUFFICES ASSUME Init PROVE TypeOK
  OBVIOUS
<1>1. registered = 7 /\ Linked = 1 .. 7 /\ \A n \in Linked : bindings[n] \in Bind!Binding
  BY LibraryBindings DEF Init, Linked, Bind!Linked
<1>2. Tree!TypeOK
  BY ClassAssumption DEF Init, Tree!Init, Tree!TypeOK, Tree!Status
<1>3. event \in Event
  BY ClassAssumption DEF Init, NoEvent, Event, EventType
<1>4. current \in 0 .. MaxBind
  BY MaxBindAssumption DEF Init, NIL, Bind!NIL
<1>5. registered \in 0 .. MaxBind /\ Linked \subseteq 1 .. registered
  BY <1>1, MaxBindAssumption
<1>6. /\ fault \in Cause /\ pc = "setup"
      /\ processed \in BOOLEAN /\ run \in BOOLEAN
      /\ button_pressed = NULL /\ resizing_toplevel = NULL /\ moving_toplevel = NULL
  BY DEF Init, Cause
<1> QED
  BY <1>1, <1>2, <1>3, <1>4, <1>5, <1>6 DEF TypeOK

(* What is neither list nor tree.                                          *)
LoopOK ==
  /\ fault \in Cause
  /\ pc \in {"setup", "wait", "dispatch", "library", "user", "button_user",
             "next", "stopped", "freed"}
  /\ event \in Event
  /\ current \in 0 .. MaxBind
  /\ processed \in BOOLEAN /\ run \in BOOLEAN
  /\ button_pressed \in Widget \cup {NULL}
  /\ resizing_toplevel \in Toplevel \cup {NULL}
  /\ moving_toplevel \in Widget \cup {NULL}

LEMMA TypeSplits == (TypeOK <=> ListOK /\ Tree!TypeOK /\ LoopOK)
                    /\ (TypeOK' <=> ListOK' /\ Tree!TypeOK' /\ LoopOK')
BY DEF TypeOK, ListOK, LoopOK

ListKept == UNCHANGED <<bindings, registered>>
TreeKept == UNCHANGED <<status, above>>

LEMMA Kept ==
  /\ ListOK /\ ListKept => ListOK'
  /\ Tree!TypeOK /\ TreeKept => Tree!TypeOK'
BY TreeType DEF ListOK, ListKept, TreeKept, Linked, Bind!Linked

LEMMA ProgramType == TypeOK /\ Program => TypeOK'
<1> SUFFICES ASSUME ListOK, Tree!TypeOK, LoopOK, Program PROVE ListOK' /\ Tree!TypeOK' /\ LoopOK'
  BY TypeSplits
<1>1. ASSUME NEW b \in UserBinding, UserBind(b) PROVE ListOK' /\ Tree!TypeOK' /\ LoopOK'
  <2>1. ListOK'
    <3>1. Bind!Register(<<b>>) /\ b \in Bind!Binding
      BY <1>1, UserBindingAssumption DEF UserBind, Bind!ei_bind
    <3>2. Len(<<b>>) = 1 /\ DOMAIN <<b>> = 1 .. 1 /\ \A i \in 1 .. 1 : <<b>>[i] \in Bind!Binding
      BY <3>1
    <3> QED BY <3>1, <3>2, RegisterType
  <2>2. TreeKept /\ LoopOK'
    BY <1>1 DEF UserBind, Bind!ei_bind, LoopOK, TreeKept, loopVars, gestureVars
  <2> QED BY <2>1, <2>2, Kept
<1>2. ASSUME NEW b \in UserBinding, UserUnbind(b) PROVE ListOK' /\ Tree!TypeOK' /\ LoopOK'
  <2>1. ListOK'
    BY <1>2, UnbindType DEF UserUnbind
  <2>2. TreeKept /\ LoopOK'
    BY <1>2 DEF UserUnbind, Bind!ei_unbind, LoopOK, TreeKept, loopVars, gestureVars
  <2> QED BY <2>1, <2>2, Kept
<1>3. ASSUME NEW w \in Widget, NEW p \in Widget, UserCreate(w, p) PROVE ListOK' /\ Tree!TypeOK' /\ LoopOK'
  <2>1. Tree!TypeOK'
    BY <1>3, TreeType DEF UserCreate
  <2>2. ListKept /\ LoopOK'
    BY <1>3 DEF UserCreate, LoopOK, ListKept, loopVars, gestureVars
  <2> QED BY <2>1, <2>2, Kept
<1>4. ASSUME NEW t \in Toplevel, NEW p \in Widget, CreateToplevel(t, p)
      PROVE  ListOK' /\ Tree!TypeOK' /\ LoopOK'
  <2>1. ListOK'
    BY <1>4, RegisterType, LibraryBindings DEF CreateToplevel
  <2>2. Tree!TypeOK'
    <3>1. t \in Widget /\ {ResizeButton[t], QuitButton[t]} \in SUBSET Widget
      BY ClassAssumption, PartAssumption
    <3> QED BY <1>4, <3>1, TreeType DEF CreateToplevel
  <2>3. LoopOK'
    BY <1>4 DEF CreateToplevel, LoopOK, loopVars, gestureVars
  <2> QED BY <2>1, <2>2, <2>3
<1>5. ASSUME NEW w \in Widget, UserDestroy(w) PROVE ListOK' /\ Tree!TypeOK' /\ LoopOK'
  <2>1. ListOK'
    BY <1>5, DestroyBindingsType DEF UserDestroy, DestroyWidget
  <2>2. Tree!TypeOK'
    BY <1>5, TreeType DEF UserDestroy, DestroyWidget
  <2>3. LoopOK'
    BY <1>5 DEF UserDestroy, DestroyWidget, Bind!destroy_event_binded_to_widget,
                LoopOK, Cause, loopVars, gestureVars
  <2> QED BY <2>1, <2>2, <2>3
<1>6. CASE ei_app_quit_request
  <2>1. ListKept /\ TreeKept /\ LoopOK'
    BY <1>6 DEF ei_app_quit_request, LoopOK, ListKept, TreeKept, loopVars, gestureVars
  <2> QED BY <2>1, Kept
<1> QED BY <1>1, <1>2, <1>3, <1>4, <1>5, <1>6 DEF Program

LEMMA CursorType ==
  ASSUME ListOK
  PROVE  /\ \A n \in Linked : n \in 1 .. MaxBind
         /\ \A m, n : Bind!Follows(m, n) => n \in Linked /\ n \in 0 .. MaxBind
<1>1. registered \in Nat /\ registered <= MaxBind
  BY MaxBindAssumption DEF ListOK
<1>2. \A n \in Linked : n \in 1 .. MaxBind
  BY <1>1, MaxBindAssumption DEF ListOK
<1> QED BY <1>2 DEF Bind!Follows, Linked

LEMMA TurnType ==
  TypeOK /\ (Turn \/ AppRun \/ CallbackReturn \/ \E e \in Event : WaitNext(e)) => TypeOK'
<1> SUFFICES ASSUME ListOK, Tree!TypeOK, LoopOK,
                    Turn \/ AppRun \/ CallbackReturn \/ \E e \in Event : WaitNext(e)
             PROVE  ListKept /\ TreeKept /\ LoopOK'
  BY TypeSplits, Kept
<1> USE DEF ListKept, TreeKept, loopVars, gestureVars
<1>1. NoEvent \in Event
  BY ClassAssumption DEF NoEvent, Event, EventType
<1>2. 0 \in 0 .. MaxBind
  BY MaxBindAssumption
<1>3. CASE Deliver \/ Skip
  BY <1>3 DEF Deliver, Skip, LoopOK
<1>4. CASE ExamineGone \/ NextFreed
  BY <1>4 DEF ExamineGone, NextFreed, Fault, LoopOK, Cause
<1>5. CASE NextBinding
  BY <1>5, <1>2, CursorType DEF NextBinding, LoopOK, NIL, Bind!NIL
<1>6. CASE EndTurn
  BY <1>6, <1>1, <1>2 DEF EndTurn, LoopOK, NIL, Bind!NIL
<1>7. CASE AppRun
  BY <1>7 DEF AppRun, LoopOK
<1>8. CASE CallbackReturn
  BY <1>8 DEF CallbackReturn, ButtonUserReturn, UserReturn, Return, LoopOK
<1>9. ASSUME NEW e \in Event, WaitNext(e) PROVE ListKept /\ TreeKept /\ LoopOK'
  BY <1>9, <1>2, CursorType DEF WaitNext, LoopOK, NIL, Bind!NIL
<1> QED BY <1>3, <1>4, <1>5, <1>6, <1>7, <1>8, <1>9 DEF Turn

(* The loop and the callbacks of the library stand on a linked binding;    *)
(* only what the program does in a callback can unlink it.                 *)
OnLinked ==
  /\ pc = "library" => current \in Linked
  /\ pc = "dispatch" => current \in Linked \cup {NIL}

LEMMA LibraryType == TypeOK /\ OnLinked /\ (Library \/ AppFree) => TypeOK'
<1> SUFFICES ASSUME ListOK, Tree!TypeOK, LoopOK, OnLinked, Library \/ AppFree
             PROVE  ListOK' /\ Tree!TypeOK' /\ LoopOK'
  BY TypeSplits
<1> USE DEF ListKept, TreeKept, loopVars, gestureVars, ListsAndTree
<1>1. CASE ButtonDown
  <2>1. event.under \in Widget
    BY DEF LoopOK, Event
  <2> QED BY <1>1, <2>1, Kept DEF ButtonDown, Return, LoopOK
<1>2. CASE ButtonUp
  BY <1>2, Kept DEF ButtonUp, Return, LoopOK
<1>3. CASE ButtonMove \/ Resize \/ Move
  BY <1>3, Kept DEF ButtonMove, Resize, Move, Gestureless, Return, LoopOK
<1>4. CASE ButtonMoveFreed \/ ResizeFreed \/ MoveFreed
  BY <1>4, Kept DEF ButtonMoveFreed, ResizeFreed, MoveFreed, Fault, LoopOK, Cause
<1>5. CASE BegResize
  BY <1>5, Kept DEF BegResize, Return, LoopOK
<1>6. CASE EndResize \/ EndMove
  BY <1>6, Kept DEF EndResize, EndMove, Return, LoopOK
<1>7. CASE BegMove
  <2>1. bindings[current] \in Bind!Binding
    BY <1>7 DEF BegMove, Runs, OnLinked, ListOK
  <2>2. bindings[current].widget \in Widget \cup {NULL}
    BY <2>1 DEF Bind!Binding
  <2> QED BY <1>7, <2>2, Kept DEF BegMove, Return, LoopOK
<1>8. CASE QuitToplevel
  <2>1. PICK t \in Toplevel : DestroyWidget(t)
    BY <1>8 DEF QuitToplevel
  <2>2. ListOK'
    BY <2>1, DestroyBindingsType DEF DestroyWidget
  <2>3. Tree!TypeOK'
    BY <2>1, TreeType, ClassAssumption DEF DestroyWidget
  <2>4. LoopOK'
    BY <1>8, <2>1 DEF QuitToplevel, DestroyWidget, Bind!destroy_event_binded_to_widget,
                      Return, LoopOK, Cause
  <2> QED BY <2>2, <2>3, <2>4
<1>9. CASE AppFree
  <2>1. CASE Fault("freed_predecessor")
    BY <2>1, Kept DEF Fault, LoopOK, Cause
  <2>2. CASE /\ Tree!Destroy(Root) /\ Bind!Unlink(Linked) /\ pc' = "freed"
             /\ UNCHANGED <<registered, fault, loopVars, run, gestureVars>>
    <3>1. ListOK'
      BY <2>2, UnlinkType
    <3>2. Tree!TypeOK'
      BY <2>2, TreeType, ClassAssumption
    <3>3. LoopOK'
      BY <2>2 DEF LoopOK
    <3> QED BY <3>1, <3>2, <3>3
  <2> QED BY <1>9, <2>1, <2>2 DEF AppFree
<1> QED BY <1>1, <1>2, <1>3, <1>4, <1>5, <1>6, <1>7, <1>8, <1>9 DEF Library

LEMMA OnLinkedKept == TypeOK /\ OnLinked /\ [Next]_vars => OnLinked'
<1> SUFFICES ASSUME TypeOK, OnLinked, [Next]_vars PROVE OnLinked'
  OBVIOUS
<1> USE DEF loopVars, gestureVars, ListsAndTree
<1>1. CASE Program
  BY <1>1 DEF Program, ProgramRuns, UserBind, UserUnbind, UserCreate, CreateToplevel,
              UserDestroy, ei_app_quit_request, OnLinked
<1>2. CASE Turn
  <2>1. CASE Deliver \/ Skip
    BY <2>1 DEF Deliver, Skip, Examining, OnLinked, Linked, Bind!Linked
  <2>2. CASE ExamineGone \/ NextFreed
    BY <2>2 DEF ExamineGone, NextFreed, Fault, OnLinked, Linked, Bind!Linked
  <2>3. CASE NextBinding
    BY <2>3 DEF NextBinding, OnLinked, Bind!Follows, Linked, Bind!Linked
  <2>4. CASE EndTurn
    BY <2>4 DEF EndTurn, OnLinked
  <2> QED BY <1>2, <2>1, <2>2, <2>3, <2>4 DEF Turn
<1>3. CASE AppRun \/ CallbackReturn
  BY <1>3 DEF AppRun, CallbackReturn, ButtonUserReturn, UserReturn, Return, OnLinked
<1>4. ASSUME NEW e \in Event, WaitNext(e) PROVE OnLinked'
  BY <1>4 DEF WaitNext, OnLinked, Bind!Follows, Linked, Bind!Linked
<1>5. CASE Library
  <2>1. CASE ButtonMoveFreed \/ ResizeFreed \/ MoveFreed
    BY <2>1 DEF ButtonMoveFreed, ResizeFreed, MoveFreed, Fault, OnLinked, Linked, Bind!Linked
  <2>2. CASE QuitToplevel
    <3>1. CASE fault' = "none"
      BY <2>2, <3>1 DEF QuitToplevel, Return, OnLinked
    <3>2. CASE fault' # "none"
      <4>1. PICK t \in Toplevel : DestroyWidget(t)
        BY <2>2 DEF QuitToplevel
      <4>2. fault = "none" /\ UNCHANGED <<pc, current>>
        BY <2>2, <3>2 DEF QuitToplevel, Runs
      <4>3. UNCHANGED bindings
        BY <3>2, <4>1, <4>2 DEF DestroyWidget, Bind!destroy_event_binded_to_widget
      <4> QED BY <4>2, <4>3 DEF OnLinked, Linked, Bind!Linked
    <3> QED BY <3>1, <3>2
  <2>3. CASE ButtonDown \/ ButtonUp \/ ButtonMove \/ BegResize \/ Resize \/ EndResize
             \/ BegMove \/ Move \/ EndMove
    BY <2>3 DEF ButtonDown, ButtonUp, ButtonMove, BegResize, Resize, EndResize, BegMove,
                Move, EndMove, Return, OnLinked
  <2> QED BY <1>5, <2>1, <2>2, <2>3 DEF Library
<1>6. CASE AppFree
  BY <1>6 DEF AppFree, Fault, OnLinked
<1>7. CASE Stopped \/ UNCHANGED vars
  BY <1>7 DEF Stopped, vars, OnLinked, Linked, Bind!Linked
<1> QED BY <1>1, <1>2, <1>3, <1>4, <1>5, <1>6, <1>7 DEF Next

LEMMA TypeStep == TypeOK /\ OnLinked /\ [Next]_vars => TypeOK' /\ OnLinked'
<1>1. TypeOK /\ UNCHANGED vars => TypeOK'
  <2> SUFFICES ASSUME TypeOK, UNCHANGED vars PROVE ListKept /\ TreeKept /\ LoopOK'
    BY TypeSplits, Kept
  <2> QED BY TypeSplits DEF vars, ListKept, TreeKept, LoopOK, loopVars, gestureVars
<1> QED BY <1>1, ProgramType, TurnType, LibraryType, OnLinkedKept DEF Next, Stopped

(* Every variable keeps its type whatever the program does: the list never *)
(* holds a rank ei_bind did not hand out, and the gestures of the library  *)
(* only ever designate widgets.                                            *)
THEOREM TypeCorrect == Spec => []TypeOK
<1>1. Init => TypeOK /\ OnLinked
  BY InitType DEF Init, OnLinked
<1> QED BY <1>1, TypeStep, PTL DEF Spec

-----------------------------------------------------------------------------
(* The tree under creation and destruction.                                *)
LEMMA CreateTree ==
  ASSUME Tree!TypeOK, TreeRooted,
         NEW w \in Widget, NEW p \in Widget, NEW parts \in SUBSET Widget, w \notin parts,
         Tree!Create(w, p, parts)
  PROVE  /\ TreeRooted'
         /\ Live' = Live \cup parts \cup {w}
         /\ \A c \in Live : c \notin parts \cup {w} /\ above'[c] = above[c]
         /\ \A c \in parts : w \in above'[c]
<1> USE DEF TreeRooted, Tree!Rooted, Live, Tree!Live
<1>1. /\ status \in [Widget -> Tree!Status] /\ above \in [Widget -> SUBSET Widget]
      /\ p \in Live
      /\ \A c \in parts \cup {w} : status[c] = "unborn"
      /\ status' = [c \in Widget |-> IF c \in parts \cup {w} THEN "live" ELSE status[c]]
      /\ above' = [c \in Widget |-> IF c = w THEN above[p] \cup {w}
                                    ELSE IF c \in parts THEN above[p] \cup {w, c}
                                    ELSE above[c]]
  BY DEF Tree!Create, Tree!TypeOK
<1>2. \A c \in Widget : status[c] = "live" => status'[c] = "live" /\ above'[c] = above[c]
  BY <1>1
<1>3. Live' = Live \cup parts \cup {w}
  BY <1>1
<1>4. \A c \in parts : above'[c] = above[p] \cup {w, c}
  BY <1>1
<1>5. above'[w] = above[p] \cup {w}
  BY <1>1
<1>6. \A a \in above[p] : status[a] = "live" /\ above[a] \subseteq above[p] /\ a \in Widget
  BY <1>1
<1>7. \A a \in above[p] : status'[a] = "live" /\ above'[a] \subseteq above[p]
  BY <1>2, <1>6
<1>8. TreeRooted'
  <2> SUFFICES ASSUME NEW c \in Widget
               PROVE  /\ status'[c] = "live" => c \in above'[c]
                      /\ \A a \in above'[c] : status'[c] = "live" /\ status'[a] = "live"
                                              /\ above'[a] \subseteq above'[c]
    BY DEF TreeRooted, Tree!Rooted
  <2>1. CASE c = w
    BY <1>1, <1>5, <1>7, <2>1
  <2>2. CASE c \in parts
    BY <1>1, <1>4, <1>5, <1>7, <2>2
  <2>3. CASE c \notin parts \cup {w}
    <3>1. status'[c] = status[c] /\ above'[c] = above[c]
      BY <1>1, <2>3
    <3>2. \A a \in above[c] : a \in Widget /\ status[a] = "live"
      BY <1>1
    <3> QED BY <1>2, <3>1, <3>2
  <2> QED BY <2>1, <2>2, <2>3
<1>9. \A c \in Live : c \notin parts \cup {w} /\ above'[c] = above[c]
  BY <1>1
<1> QED BY <1>3, <1>4, <1>8, <1>9

LEMMA DestroyTree ==
  ASSUME Tree!TypeOK, TreeRooted, NEW w \in Widget, Tree!Destroy(w)
  PROVE  /\ TreeRooted'
         /\ Live' = Live \ Family(w)
         /\ \A c \in Live' : above'[c] = above[c]
<1> USE DEF TreeRooted, Tree!Rooted, Live, Tree!Live, Family, Tree!Family
<1>1. /\ status \in [Widget -> Tree!Status] /\ above \in [Widget -> SUBSET Widget]
      /\ w \in Family(w)
      /\ \A c \in Widget : status'[c] = IF c = w THEN "destroyed"
                                        ELSE IF c \in Family(w) THEN "released" ELSE status[c]
      /\ \A c \in Widget : above'[c] = IF c \in Family(w) THEN {} ELSE above[c]
  BY DEF Tree!Destroy, Tree!TypeOK
<1>2. Live' = Live \ Family(w)
  BY <1>1
<1>3. TreeRooted'
  <2> SUFFICES ASSUME NEW c \in Widget
               PROVE  /\ status'[c] = "live" => c \in above'[c]
                      /\ \A a \in above'[c] : status'[c] = "live" /\ status'[a] = "live"
                                              /\ above'[a] \subseteq above'[c]
    BY DEF TreeRooted, Tree!Rooted
  <2>1. CASE c \in Family(w)
    BY <1>1, <2>1
  <2>2. CASE c \notin Family(w)
    <3>1. status'[c] = status[c] /\ above'[c] = above[c]
      BY <1>1, <2>2
    <3>2. \A a \in above[c] : a \in Widget /\ status[a] = "live" /\ above[a] \subseteq above[c]
                              /\ status[c] = "live"
      BY <1>1
    <3>3. \A a \in above[c] : a \notin Family(w)
      BY <2>2, <3>2
    <3> QED BY <1>1, <3>1, <3>2, <3>3
  <2> QED BY <2>1, <2>2
<1> QED BY <1>1, <1>2, <1>3

(* The list after ei_bind, and after the destruction of a widget whose     *)
(* bindings are not neighbours.                                            *)
LEMMA RegisterList ==
  ASSUME ListOK, NEW bs, NEW k \in Nat, Len(bs) = k, DOMAIN bs = 1 .. k, Bind!Register(bs)
  PROVE  /\ Linked \subseteq Linked'
         /\ \A n \in Linked : bindings'[n] = bindings[n]
         /\ \A n \in Linked' \ Linked : \E i \in 1 .. k : bindings'[n] = bs[i]
<1>1. Linked' = Linked \cup {registered + i : i \in 1 .. k}
  BY DEF Bind!Register, Linked, Bind!Linked
<1>2. \A n \in Linked' : bindings'[n] = IF n \in Linked THEN bindings[n] ELSE bs[n - registered]
  BY <1>1 DEF Bind!Register, Linked, Bind!Linked
<1>3. \A i \in 1 .. k : (registered + i) - registered = i
  BY DEF ListOK
<1> QED BY <1>1, <1>2, <1>3

LEMMA DestroyedList ==
  ASSUME ListOK, NEW w, ~Bind!Adjacent(w), Bind!destroy_event_binded_to_widget(w)
  PROVE  /\ Linked' = Linked \ Bind!BoundTo(w)
         /\ \A n \in Linked' : bindings'[n] = bindings[n]
         /\ UNCHANGED <<registered, fault>>
<1>1. Bind!Unlink(Bind!BoundTo(w)) /\ UNCHANGED <<registered, fault>>
  BY DEF Bind!destroy_event_binded_to_widget
<1> QED BY <1>1, UnlinkType

-----------------------------------------------------------------------------
(* Two invariants of any program.  Only the program, the close button and  *)
(* ei_app_free touch the list and the tree.                                *)
LEMMA OtherSteps ==
  [Next]_vars => (ListKept /\ TreeKept) \/ Program \/ QuitToplevel \/ AppFree
<1> USE DEF ListKept, TreeKept, ListsAndTree
<1>1. Turn \/ AppRun \/ CallbackReturn \/ (\E e \in Event : WaitNext(e)) => ListKept /\ TreeKept
  BY DEF Turn, Deliver, Skip, ExamineGone, Fault, NextBinding, NextFreed, EndTurn, AppRun,
         CallbackReturn, ButtonUserReturn, UserReturn, WaitNext
<1>2. Library => QuitToplevel \/ (ListKept /\ TreeKept)
  BY DEF Library, ButtonDown, ButtonUp, ButtonMove, ButtonMoveFreed, BegResize, Resize, ResizeFreed,
         EndResize, BegMove, Move, MoveFreed, EndMove, Gestureless, Fault
<1>3. Stopped \/ UNCHANGED vars => ListKept /\ TreeKept
  BY DEF Stopped, vars
<1> QED BY <1>1, <1>2, <1>3 DEF Next

LEMMA RootedStep == TypeOK /\ TreeRooted /\ [Next]_vars => TreeRooted'
<1> SUFFICES ASSUME ListOK, Tree!TypeOK, TreeRooted, [Next]_vars PROVE TreeRooted'
  BY TypeSplits
<1>1. CASE TreeKept
  BY <1>1 DEF TreeKept, TreeRooted, Tree!Rooted
<1>2. ASSUME NEW w \in Widget, DestroyWidget(w) PROVE TreeRooted'
  <2>1. TreeKept \/ Tree!Destroy(w)
    BY <1>2 DEF DestroyWidget, TreeKept
  <2> QED BY <1>1, <2>1, DestroyTree
<1>3. CASE Program
  <2>1. ASSUME NEW w \in Widget, NEW p \in Widget, UserCreate(w, p) PROVE TreeRooted'
    BY <2>1, CreateTree DEF UserCreate
  <2>2. ASSUME NEW t \in Toplevel, NEW p \in Widget, CreateToplevel(t, p) PROVE TreeRooted'
    <3>1. t \in Widget /\ {ResizeButton[t], QuitButton[t]} \in SUBSET Widget
          /\ t \notin {ResizeButton[t], QuitButton[t]}
      BY ClassAssumption, PartAssumption
    <3> QED BY <2>2, <3>1, CreateTree DEF CreateToplevel
  <2>3. ASSUME NEW w \in Widget, UserDestroy(w) PROVE TreeRooted'
    BY <1>2, <2>3 DEF UserDestroy
  <2>4. (\E b \in UserBinding : UserBind(b) \/ UserUnbind(b)) \/ ei_app_quit_request => TreeKept
    BY DEF UserBind, UserUnbind, ei_app_quit_request, TreeKept
  <2> QED BY <1>1, <1>3, <2>1, <2>2, <2>3, <2>4 DEF Program
<1>4. CASE QuitToplevel
  BY <1>2, <1>4, ClassAssumption DEF QuitToplevel
<1>5. CASE AppFree
  <2>1. TreeKept \/ Tree!Destroy(Root)
    BY <1>5 DEF AppFree, Fault, TreeKept
  <2> QED BY <1>1, <2>1, DestroyTree, ClassAssumption
<1> QED BY <1>1, <1>3, <1>4, <1>5, OtherSteps

(* Whatever a program creates and destroys, and whichever callback closes  *)
(* a toplevel under it, no live widget has a dead one above it.            *)
THEOREM TreeIsRooted == Spec => []TreeRooted
<1>1. Init => TypeOK /\ OnLinked /\ TreeRooted
  BY InitType, ClassAssumption DEF Init, OnLinked, Tree!Init, TreeRooted, Tree!Rooted
<1> QED BY <1>1, TypeStep, RootedStep, PTL DEF Spec

(* The statuses that ei_widget_destroy and ei_widget_create lead to.       *)
LEMMA CreateStatus ==
  ASSUME Tree!TypeOK, NEW w, NEW p, NEW parts, Tree!Create(w, p, parts)
  PROVE  \A c \in Widget : status'[c] \in {"live", status[c]}
BY DEF Tree!Create, Tree!TypeOK

LEMMA DestroyStatus ==
  ASSUME Tree!TypeOK, NEW w, Tree!Destroy(w)
  PROVE  \A c \in Widget : c # w => status'[c] \in {"released", status[c]}
BY DEF Tree!Destroy, Tree!TypeOK

LEMMA UnboundStep == TypeOK /\ DestroyedIsUnbound /\ [Next]_vars => DestroyedIsUnbound'
<1> SUFFICES ASSUME ListOK, Tree!TypeOK, DestroyedIsUnbound, [Next]_vars PROVE DestroyedIsUnbound'
  BY TypeSplits
<1>0. \A n \in Linked : bindings[n].widget \in Widget \cup {NULL}
  BY DEF ListOK, Bind!Binding
<1>1. CASE ListKept /\ TreeKept
  BY <1>1 DEF ListKept, TreeKept, DestroyedIsUnbound, Linked, Bind!Linked
<1>2. ASSUME NEW w \in Widget, fault = "none", DestroyWidget(w) PROVE DestroyedIsUnbound'
  <2>1. CASE Bind!Adjacent(w)
    BY <1>2, <2>1 DEF DestroyWidget, Bind!destroy_event_binded_to_widget, DestroyedIsUnbound,
                      Linked, Bind!Linked
  <2>2. CASE ~Bind!Adjacent(w)
    <3>1. /\ Linked' = Linked \ Bind!BoundTo(w)
          /\ \A n \in Linked' : bindings'[n] = bindings[n]
          /\ fault' = "none"
      BY <1>2, <2>2, DestroyedList DEF DestroyWidget
    <3>2. Tree!Destroy(w)
      BY <1>2, <3>1 DEF DestroyWidget
    <3>3. \A n \in Linked' : n \in Linked /\ bindings[n].widget # w
      BY <3>1 DEF Bind!BoundTo, Linked, Bind!Linked
    <3> QED BY <1>0, <3>1, <3>2, <3>3, DestroyStatus DEF DestroyedIsUnbound
  <2> QED BY <2>1, <2>2
<1>3. CASE Program
  <2>1. ASSUME NEW b \in UserBinding, UserBind(b) PROVE DestroyedIsUnbound'
    <3>1. Bind!Register(<<b>>) /\ TreeKept /\ b.widget \in Live \cup {NULL}
      BY <2>1 DEF UserBind, Bind!ei_bind, TreeKept
    <3>2. Len(<<b>>) = 1 /\ DOMAIN <<b>> = 1 .. 1 /\ \A i \in 1 .. 1 : <<b>>[i] = b
      OBVIOUS
    <3>3. 1 \in Nat /\ Bind!Register(<<b>>) /\ Len(<<b>>) = 1 /\ DOMAIN <<b>> = 1 .. 1
      BY <3>1, <3>2
    <3>4. /\ \A n \in Linked : bindings'[n] = bindings[n]
          /\ \A n \in Linked' \ Linked : \E i \in 1 .. 1 : bindings'[n] = <<b>>[i]
      BY <3>3, RegisterList, Zenon
    <3> QED BY <3>1, <3>2, <3>4 DEF DestroyedIsUnbound, TreeKept, Live, Tree!Live
  <2>2. ASSUME NEW b \in UserBinding, UserUnbind(b) PROVE DestroyedIsUnbound'
    <3>1. TreeKept /\ registered' = registered
      BY <2>2 DEF UserUnbind, Bind!ei_unbind, TreeKept
    <3>2. UNCHANGED bindings \/ \E n : Bind!Unlink({n})
      BY <2>2 DEF UserUnbind, Bind!ei_unbind
    <3>3. Linked' \subseteq Linked /\ \A n \in Linked' : bindings'[n] = bindings[n]
      BY <3>1, <3>2, UnlinkType DEF Linked, Bind!Linked
    <3> QED BY <3>1, <3>3 DEF DestroyedIsUnbound, TreeKept
  <2>3. ASSUME NEW w \in Widget, NEW p \in Widget, UserCreate(w, p) PROVE DestroyedIsUnbound'
    <3>1. Tree!Create(w, p, {}) /\ UNCHANGED bindings
      BY <2>3 DEF UserCreate
    <3> QED BY <1>0, <3>1, CreateStatus DEF DestroyedIsUnbound, Linked, Bind!Linked
  <2>4. ASSUME NEW t \in Toplevel, NEW p \in Widget, CreateToplevel(t, p) PROVE DestroyedIsUnbound'
    <3>1. t \in Widget /\ {ResizeButton[t], QuitButton[t]} \in SUBSET Widget
      BY ClassAssumption, PartAssumption
    <3>2. /\ Tree!Create(t, p, {ResizeButton[t], QuitButton[t]})
          /\ Bind!Register(ToplevelBindings(t))
      BY <2>4 DEF CreateToplevel
    <3>3. 3 \in Nat /\ Len(ToplevelBindings(t)) = 3 /\ DOMAIN ToplevelBindings(t) = 1 .. 3
      BY LibraryBindings
    <3>4. /\ \A n \in Linked : bindings'[n] = bindings[n]
          /\ \A n \in Linked' \ Linked : \E i \in 1 .. 3 : bindings'[n] = ToplevelBindings(t)[i]
      BY <3>2, <3>3, RegisterList, Zenon
    <3>5. \A c \in {t, ResizeButton[t], QuitButton[t]} : status'[c] = "live"
      BY <3>1, <3>2 DEF Tree!Create, Tree!TypeOK
    <3>6. \A i \in 1 .. 3 : ToplevelBindings(t)[i].widget \in {t, ResizeButton[t], QuitButton[t]}
      BY DEF ToplevelBindings, OnWidget
    <3>7. \A c \in Widget : status'[c] \in {"live", status[c]}
      BY <3>1, <3>2, CreateStatus
    <3> QED BY <1>0, <3>4, <3>5, <3>6, <3>7 DEF DestroyedIsUnbound
  <2>5. ASSUME NEW w \in Widget, UserDestroy(w) PROVE DestroyedIsUnbound'
    BY <1>2, <2>5 DEF UserDestroy, ProgramRuns
  <2>6. CASE ei_app_quit_request
    BY <1>1, <2>6 DEF ei_app_quit_request, ListKept, TreeKept
  <2> QED BY <1>3, <2>1, <2>2, <2>3, <2>4, <2>5, <2>6 DEF Program
<1>4. CASE QuitToplevel
  BY <1>2, <1>4, ClassAssumption DEF QuitToplevel, Runs
<1>5. CASE AppFree
  <2>1. CASE Bind!Adjacent(Root)
    BY <1>1, <1>5, <2>1 DEF AppFree, Fault, ListKept, TreeKept
  <2>2. CASE ~Bind!Adjacent(Root)
    <3>1. Linked' = {}
      BY <1>5, <2>2, UnlinkType DEF AppFree
    <3> QED BY <3>1 DEF DestroyedIsUnbound
  <2> QED BY <2>1, <2>2
<1> QED BY <1>1, <1>3, <1>4, <1>5, OtherSteps

(* No binding is left on a widget ei_widget_destroy has been called for,   *)
(* or made for one that does not exist yet, in any program.                *)
THEOREM DestroyedStaysUnbound == Spec => []DestroyedIsUnbound
<1>1. Init => TypeOK /\ OnLinked /\ DestroyedIsUnbound
  <2> SUFFICES ASSUME Init PROVE DestroyedIsUnbound
    BY InitType DEF Init, OnLinked
  <2>1. Linked = 1 .. 7 /\ bindings = DefaultBindings
    BY LibraryBindings DEF Init, Linked, Bind!Linked
  <2> QED BY <2>1 DEF DestroyedIsUnbound, DefaultBindings, OnTag
<1> QED BY <1>1, TypeStep, UnboundStep, PTL DEF Spec

-----------------------------------------------------------------------------
(* A careful program keeps everything the library points to alive.         *)
Static == TreeRooted /\ BoundAreLive /\ LibraryBoundAsMade /\ GripsOnToplevels
Dynamic == /\ NoFreedAccess /\ GesturesOnLive /\ CursorLinked /\ CalledAsBound
           /\ SafeEvent(event)

LEMMA CarefulSplits ==
  /\ CarefulInv <=> Static /\ Dynamic
  /\ CarefulInv' <=> Static' /\ Dynamic'
BY DEF CarefulInv, Static, Dynamic

LEMMA StaticKept == ListKept /\ TreeKept /\ Static => Static'
BY DEF ListKept, TreeKept, Static, TreeRooted, Tree!Rooted, BoundAreLive, LibraryBoundAsMade,
       GripsOnToplevels, Linked, Bind!Linked, Live, Tree!Live

LEMMA LibraryBindingForms ==
  \A b \in LibraryBinding : b.callback = "quit_toplevel_event" =>
    \E t \in Toplevel : b.widget = QuitButton[t] /\ b.eventtype = "ei_ev_mouse_buttondown"
<1> SUFFICES ASSUME NEW b \in LibraryBinding, b.callback = "quit_toplevel_event"
             PROVE  \E t \in Toplevel : /\ b.widget = QuitButton[t]
                                        /\ b.eventtype = "ei_ev_mouse_buttondown"
  OBVIOUS
<1>1. CASE \E i \in 1 .. 7 : b = DefaultBindings[i]
  BY <1>1 DEF DefaultBindings, OnTag
<1>2. CASE \E t \in Toplevel : \E i \in 1 .. 3 : b = ToplevelBindings(t)[i]
  BY <1>2 DEF ToplevelBindings, OnWidget
<1> QED BY <1>1, <1>2, LibraryBindings DEF LibraryBinding

LEMMA BindingCalls ==
  ASSUME Static, ListOK, NEW bs, NEW k \in Nat, Len(bs) = k, DOMAIN bs = 1 .. k,
         Bind!Register(bs),
         Live \subseteq Live',
         \A i \in 1 .. k : /\ bs[i].widget \in Live' \cup {NULL}
                           /\ bs[i].callback \in LibraryCallback => bs[i] \in LibraryBinding
  PROVE  BoundAreLive' /\ LibraryBoundAsMade' /\ Linked \subseteq Linked'
<1>1. /\ Linked \subseteq Linked'
      /\ \A n \in Linked : bindings'[n] = bindings[n]
      /\ \A n \in Linked' \ Linked : \E i \in 1 .. k : bindings'[n] = bs[i]
  BY RegisterList
<1>2. BoundAreLive'
  BY <1>1 DEF Static, BoundAreLive
<1>3. LibraryBoundAsMade'
  BY <1>1 DEF Static, LibraryBoundAsMade
<1> QED BY <1>1, <1>2, <1>3

LEMMA CarefulProgram ==
  TypeOK /\ CarefulInv /\ Careful /\ Program => CarefulInv'
<1> SUFFICES ASSUME ListOK, Tree!TypeOK, LoopOK, Static, Dynamic, Careful, Program
             PROVE  Static' /\ Dynamic'
  BY CarefulSplits, TypeSplits
<1> USE DEF loopVars, gestureVars, ProgramRuns
<1>0. TreeRooted
  BY DEF Static
<1>1. ASSUME NEW b \in UserBinding, UserBind(b) PROVE Static' /\ Dynamic'
  <2>1. Bind!Register(<<b>>) /\ UNCHANGED <<fault, status, above, pc, loopVars, gestureVars>>
    BY <1>1 DEF UserBind, Bind!ei_bind
  <2>2. Len(<<b>>) = 1 /\ DOMAIN <<b>> = 1 .. 1 /\ \A i \in 1 .. 1 : <<b>>[i] = b
    OBVIOUS
  <2>3. Live' = Live /\ b.widget \in Live \cup {NULL}
    BY <1>1, <2>1 DEF UserBind, Live, Tree!Live
  <2>4. b.callback \in LibraryCallback => b \in LibraryBinding
    BY UserBindingAssumption
  <2>5. BoundAreLive' /\ LibraryBoundAsMade' /\ Linked \subseteq Linked'
    BY <2>1, <2>2, <2>3, <2>4, BindingCalls
  <2>6. TreeRooted' /\ GripsOnToplevels'
    BY <2>1, <2>3 DEF Static, TreeRooted, Tree!Rooted, GripsOnToplevels
  <2>7. Dynamic'
    BY <1>1, <2>1, <2>3, <2>5 DEF UserBind, Dynamic, NoFreedAccess, GesturesOnLive, CursorLinked,
                                  CalledAsBound
  <2> QED BY <2>5, <2>6, <2>7 DEF Static
<1>2. ASSUME NEW b \in UserBinding, UserUnbind(b) PROVE Static' /\ Dynamic'
  <2>1. UNCHANGED <<registered, fault, status, above, pc, loopVars, gestureVars>>
    BY <1>2 DEF UserUnbind, Bind!ei_unbind
  <2>2. Live' = Live
    BY <2>1 DEF Live, Tree!Live
  <2>3. /\ Linked' \subseteq Linked
        /\ \A n \in Linked' : bindings'[n] = bindings[n]
        /\ current \in Linked => current \in Linked'
    <3>1. CASE UNCHANGED bindings
      BY <3>1 DEF Linked, Bind!Linked
    <3>2. ASSUME NEW n \in Bind!Matching(b), \A k \in Bind!Matching(b) : n <= k, Bind!Unlink({n})
          PROVE  /\ Linked' \subseteq Linked
                 /\ \A m \in Linked' : bindings'[m] = bindings[m]
                 /\ current \in Linked => current \in Linked'
      <4>1. Linked' = Linked \ {n} /\ \A m \in Linked' : bindings'[m] = bindings[m]
        BY <2>1, <3>2, UnlinkType
      <4>2. \A k \in Bind!Matching(b) : k \in Nat
        BY DEF Bind!Matching, ListOK, Linked
      <4>3. current # n
        BY <1>2, <3>2, <4>2 DEF UserUnbind, SafeToUnbind
      <4> QED BY <4>1, <4>3
    <3> QED BY <1>2, <3>1, <3>2 DEF UserUnbind, Bind!ei_unbind
  <2>4. Static'
    BY <2>1, <2>2, <2>3 DEF Static, TreeRooted, Tree!Rooted, GripsOnToplevels, BoundAreLive,
                            LibraryBoundAsMade
  <2>5. Dynamic'
    BY <1>2, <2>1, <2>2, <2>3 DEF UserUnbind, Dynamic, NoFreedAccess, GesturesOnLive, CursorLinked,
                                  CalledAsBound
  <2> QED BY <2>4, <2>5
<1>3. ASSUME NEW w \in Widget, NEW p \in Widget, UserCreate(w, p) PROVE Static' /\ Dynamic'
  <2>1. /\ Tree!Create(w, p, {}) /\ w \notin Toplevel \cup Decoration
        /\ UNCHANGED <<bindings, registered, fault, pc, loopVars, gestureVars>>
    BY <1>3 DEF UserCreate
  <2>2. /\ TreeRooted'
        /\ Live' = Live \cup {w}
        /\ \A c \in Live : above'[c] = above[c]
    BY <1>0, <2>1, CreateTree
  <2>3. GripsOnToplevels'
    BY <2>1, <2>2 DEF Static, GripsOnToplevels, Decoration
  <2>4. Static'
    BY <2>1, <2>2, <2>3 DEF Static, BoundAreLive, LibraryBoundAsMade, Linked, Bind!Linked
  <2>5. Dynamic'
    BY <1>3, <2>1, <2>2 DEF UserCreate, Dynamic, NoFreedAccess, GesturesOnLive, CursorLinked,
                            CalledAsBound, Linked, Bind!Linked
  <2> QED BY <2>4, <2>5
<1>4. ASSUME NEW t \in Toplevel, NEW p \in Widget, CreateToplevel(t, p) PROVE Static' /\ Dynamic'
  <2> DEFINE parts == {ResizeButton[t], QuitButton[t]}
  <2>1. /\ Tree!Create(t, p, parts) /\ Bind!Register(ToplevelBindings(t))
        /\ UNCHANGED <<fault, pc, loopVars, gestureVars>>
    BY <1>4 DEF CreateToplevel
  <2>2. t \in Widget /\ parts \in SUBSET Widget /\ t \notin parts
    BY ClassAssumption, PartAssumption
  <2>3. /\ TreeRooted'
        /\ Live' = Live \cup parts \cup {t}
        /\ \A c \in Live : c \notin parts \cup {t} /\ above'[c] = above[c]
        /\ \A c \in parts : t \in above'[c]
    <3> HIDE DEF parts
    <3> QED BY <1>0, <2>1, <2>2, CreateTree
  <2>4. \A i \in 1 .. 3 : /\ ToplevelBindings(t)[i].widget \in parts \cup {t}
                          /\ ToplevelBindings(t)[i] \in LibraryBinding
    BY DEF ToplevelBindings, OnWidget, LibraryBinding
  <2>5. BoundAreLive' /\ LibraryBoundAsMade' /\ Linked \subseteq Linked'
    <3> HIDE DEF parts
    <3>1. \A i \in 1 .. 3 : ToplevelBindings(t)[i].widget \in Live' \cup {NULL}
      BY <2>3, <2>4
    <3> QED BY <2>1, <2>3, <2>4, <3>1, BindingCalls, LibraryBindings
  <2>6. GripsOnToplevels'
    <3> SUFFICES ASSUME NEW s \in Toplevel, ResizeButton[s] \in Live'
                 PROVE  s \in above'[ResizeButton[s]]
      BY DEF GripsOnToplevels
    <3>1. CASE s = t
      BY <2>3, <3>1
    <3>2. CASE s # t
      <4>1. ResizeButton[s] \notin parts \cup {t}
        BY <3>2, PartAssumption, ClassAssumption
      <4> QED BY <2>3, <4>1 DEF Static, GripsOnToplevels
    <3> QED BY <3>1, <3>2
  <2>7. Dynamic'
    BY <1>4, <2>1, <2>3, <2>5 DEF CreateToplevel, Dynamic, NoFreedAccess, GesturesOnLive,
                                  CursorLinked, CalledAsBound
  <2> QED BY <2>3, <2>5, <2>6, <2>7 DEF Static
<1>5. ASSUME NEW w \in Widget, UserDestroy(w) PROVE Static' /\ Dynamic'
  <2>1. /\ SafeToDestroy(w) /\ DestroyWidget(w) /\ fault = "none"
        /\ UNCHANGED <<pc, loopVars, gestureVars>>
    BY <1>5 DEF UserDestroy
  <2>2. /\ Linked' = Linked \ Bind!BoundTo(w)
        /\ \A n \in Linked' : bindings'[n] = bindings[n]
        /\ fault' = "none"
    BY <2>1, DestroyedList DEF DestroyWidget, SafeToDestroy
  <2>3. Tree!Destroy(w)
    BY <2>1, <2>2 DEF DestroyWidget
  <2>4. /\ TreeRooted'
        /\ Live' = Live \ Family(w)
        /\ \A c \in Live' : above'[c] = above[c]
    BY <1>0, <2>3, DestroyTree
  <2>5. BoundAreLive'
    <3> SUFFICES ASSUME NEW n \in Linked', bindings[n].widget \in Live
                 PROVE  bindings[n].widget \notin Family(w)
      BY <2>2, <2>4 DEF BoundAreLive, Static
    <3>1. bindings[n].widget # w /\ n \in Bind!BoundTo(bindings[n].widget)
      BY <2>2 DEF Bind!BoundTo, Linked
    <3> QED BY <2>1, <3>1 DEF SafeToDestroy
  <2>6. LibraryBoundAsMade' /\ GripsOnToplevels'
    BY <2>2, <2>4 DEF Static, LibraryBoundAsMade, GripsOnToplevels
  <2>7. Dynamic'
    BY <1>5, <2>1, <2>2, <2>4 DEF UserDestroy, SafeToDestroy, Dynamic, NoFreedAccess, GesturesOnLive,
                                  CursorLinked, CalledAsBound
  <2> QED BY <2>4, <2>5, <2>6, <2>7 DEF Static
<1>6. CASE ei_app_quit_request
  <2>1. ListKept /\ TreeKept /\ UNCHANGED <<fault, pc, loopVars, gestureVars>>
    BY <1>6 DEF ei_app_quit_request, ListKept, TreeKept
  <2>2. Dynamic'
    BY <1>6, <2>1 DEF ei_app_quit_request, ListKept, TreeKept, Dynamic, NoFreedAccess, GesturesOnLive,
                CursorLinked, CalledAsBound, Linked, Bind!Linked, Live, Tree!Live
  <2> QED BY <2>1, <2>2, StaticKept
<1> QED BY <1>1, <1>2, <1>3, <1>4, <1>5, <1>6 DEF Program

LEMMA CarefulTurn ==
  TypeOK /\ CarefulInv /\ Careful
  /\ (Turn \/ AppRun \/ CallbackReturn \/ \E e \in Event : WaitNext(e))
  => CarefulInv'
<1> SUFFICES ASSUME ListOK, Tree!TypeOK, LoopOK, Static, Dynamic, Careful,
                    Turn \/ AppRun \/ CallbackReturn \/ \E e \in Event : WaitNext(e)
             PROVE  ListKept /\ TreeKept /\ Dynamic'
  BY CarefulSplits, TypeSplits, StaticKept
<1> USE DEF loopVars, gestureVars, ListKept, TreeKept
<1>1. (ListKept /\ TreeKept) => /\ Live' = Live /\ Linked' = Linked
                               /\ NoFreedAccess' = (fault' = "none")
  BY DEF Live, Tree!Live, Linked, Bind!Linked, NoFreedAccess
<1>2. CASE Deliver
  <2>1. /\ current \in Linked /\ Concerned(bindings[current])
        /\ bindings[current] \in Bind!Binding
    BY <1>2 DEF Deliver, Examining, Dynamic, CursorLinked, ListOK
  <2>2. bindings[current].callback \in LibraryCallback \cup UserCallback
    BY <2>1 DEF Bind!Binding, Callback
  <2>3. Concerned(bindings[current])'
    BY <1>2, <2>1 DEF Deliver, Concerned, TagConcerned, Live, Tree!Live
  <2>4. /\ pc' \in {"user", "library"}
        /\ pc' = "library" => bindings[current].callback \in LibraryCallback
        /\ UNCHANGED <<bindings, registered, fault, status, above, loopVars, run, gestureVars>>
    BY <1>2, <2>2 DEF Deliver
  <2>5. CalledAsBound'
    BY <2>3, <2>4 DEF CalledAsBound
  <2>6. CursorLinked'
    BY <1>1, <2>1, <2>4 DEF CursorLinked
  <2>7. NoFreedAccess' /\ GesturesOnLive' /\ SafeEvent(event)'
    BY <1>1, <1>2, <2>4 DEF Deliver, Examining, Dynamic, NoFreedAccess, GesturesOnLive, SafeEvent
  <2> QED BY <2>4, <2>5, <2>6, <2>7 DEF Dynamic
<1>3. CASE Skip
  BY <1>1, <1>3 DEF Skip, Examining, Dynamic, NoFreedAccess, GesturesOnLive, CursorLinked, CalledAsBound
<1>4. CASE ExamineGone
  <2>1. current \in Linked /\ ReadsGone(bindings[current])
    BY <1>4 DEF ExamineGone, Examining, Dynamic, CursorLinked
  <2> QED BY <2>1 DEF ReadsGone, Static, BoundAreLive
<1>5. CASE NextFreed
  BY <1>5 DEF NextFreed, Dynamic, CursorLinked
<1>6. CASE NextBinding
  BY <1>1, <1>6 DEF NextBinding, Bind!Follows, Dynamic, NoFreedAccess, GesturesOnLive, CursorLinked,
                    CalledAsBound, Linked
<1>7. CASE EndTurn
  BY <1>1, <1>7, PartAssumption, ClassAssumption
     DEF EndTurn, Dynamic, NoFreedAccess, GesturesOnLive, CursorLinked, CalledAsBound, SafeEvent, NoEvent
<1>8. CASE AppRun
  BY <1>1, <1>8 DEF AppRun, Dynamic, NoFreedAccess, GesturesOnLive, CursorLinked, CalledAsBound
<1>9. CASE CallbackReturn
  BY <1>1, <1>9 DEF CallbackReturn, ButtonUserReturn, UserReturn, Return, Dynamic, NoFreedAccess,
                    GesturesOnLive, CursorLinked, CalledAsBound
<1>10. ASSUME NEW e \in Event, WaitNext(e) PROVE ListKept /\ TreeKept /\ Dynamic'
  <2>1. SafeEvent(event)'
    BY <1>10 DEF WaitNext, SafeEvent
  <2> QED
    BY <1>1, <1>10, <2>1 DEF WaitNext, Bind!Follows, Dynamic, NoFreedAccess, GesturesOnLive,
                             CursorLinked, CalledAsBound, Linked
<1> QED BY <1>2, <1>3, <1>4, <1>5, <1>6, <1>7, <1>8, <1>9, <1>10 DEF Turn

(* No callback of the library finds a gesture on a freed widget, and the   *)
(* close button is not reached.                                            *)
LEMMA CarefulLibrary == TypeOK /\ CarefulInv /\ Careful /\ Library => CarefulInv'
<1> SUFFICES ASSUME ListOK, Tree!TypeOK, LoopOK, Static, Dynamic, Careful, Library
             PROVE  ListKept /\ TreeKept /\ Dynamic'
  BY CarefulSplits, TypeSplits, StaticKept
<1> USE DEF loopVars, gestureVars, ListKept, TreeKept, ListsAndTree
<1>1. (ListKept /\ TreeKept) => /\ Live' = Live /\ Linked' = Linked
                               /\ NoFreedAccess' = (fault' = "none")
  BY DEF Live, Tree!Live, Linked, Bind!Linked, NoFreedAccess
<1>2. fault = "none" /\ pc = "library"
  BY DEF Library, Runs, ButtonDown, ButtonUp, ButtonMove, ButtonMoveFreed, BegResize, Resize,
         ResizeFreed, EndResize, BegMove, Move, MoveFreed, EndMove, QuitToplevel
<1>3. /\ current \in Linked /\ Concerned(bindings[current])
      /\ bindings[current].callback \in LibraryCallback
      /\ bindings[current] \in LibraryBinding
      /\ bindings[current].widget \in Live \cup {NULL}
      /\ {button_pressed, resizing_toplevel, moving_toplevel} \subseteq Live \cup {NULL}
  BY <1>2 DEF Dynamic, CursorLinked, CalledAsBound, Static, LibraryBoundAsMade, BoundAreLive,
              GesturesOnLive
<1>4. CASE ButtonDown
  BY <1>1, <1>2, <1>3, <1>4 DEF ButtonDown, Return, Dynamic, NoFreedAccess, GesturesOnLive,
                                CursorLinked, CalledAsBound
<1>5. CASE ButtonUp
  BY <1>1, <1>2, <1>3, <1>5 DEF ButtonUp, Return, Dynamic, NoFreedAccess, GesturesOnLive, CursorLinked,
                                CalledAsBound
<1>6. CASE ButtonMove \/ Resize \/ Move
  BY <1>1, <1>2, <1>3, <1>6 DEF ButtonMove, Resize, Move, Gestureless, Return, Dynamic, NoFreedAccess,
                                GesturesOnLive, CursorLinked, CalledAsBound
<1>7. CASE ButtonMoveFreed \/ ResizeFreed \/ MoveFreed
  BY <1>3, <1>7 DEF ButtonMoveFreed, ResizeFreed, MoveFreed
<1>8. CASE BegResize
  <2>1. resizing_toplevel' \in Live \cup {NULL}
    <3>1. CASE UNCHANGED resizing_toplevel
      BY <1>3, <3>1
    <3>2. ASSUME NEW t \in Toplevel, ResizeButton[t] = bindings[current].widget,
                 resizing_toplevel' = t
          PROVE  resizing_toplevel' \in Live \cup {NULL}
      <4>1. ResizeButton[t] \in Live
        BY <1>3, <3>2, PartAssumption, ClassAssumption, NullAssumption
      <4>2. t \in above[ResizeButton[t]]
        BY <4>1 DEF Static, GripsOnToplevels
      <4>3. t \in Live
        BY <4>1, <4>2, ClassAssumption DEF Static, TreeRooted, Tree!Rooted, Live, Tree!Live
      <4> QED BY <3>2, <4>3
    <3> QED BY <1>8, <3>1, <3>2 DEF BegResize
  <2> QED
    BY <1>1, <1>2, <1>3, <1>8, <2>1 DEF BegResize, Return, Dynamic, NoFreedAccess, GesturesOnLive,
                                        CursorLinked, CalledAsBound
<1>9. CASE EndResize \/ EndMove
  BY <1>1, <1>2, <1>3, <1>9 DEF EndResize, EndMove, Return, Dynamic, NoFreedAccess, GesturesOnLive,
                                CursorLinked, CalledAsBound
<1>10. CASE BegMove
  BY <1>1, <1>2, <1>3, <1>10 DEF BegMove, Return, Dynamic, NoFreedAccess, GesturesOnLive, CursorLinked,
                                 CalledAsBound
<1>11. CASE QuitToplevel
  <2>1. bindings[current].callback = "quit_toplevel_event"
    BY <1>11 DEF QuitToplevel, Runs
  <2>2. PICK t \in Toplevel : /\ bindings[current].widget = QuitButton[t]
                              /\ bindings[current].eventtype = "ei_ev_mouse_buttondown"
    BY <1>3, <2>1, LibraryBindingForms
  <2>3. event.type = "ei_ev_mouse_buttondown" /\ QuitButton[t] # NULL
    BY <1>3, <2>2, PartAssumption, ClassAssumption, NullAssumption DEF Concerned
  <2>4. event.under = QuitButton[t]
    BY <1>3, <2>2, <2>3 DEF Concerned, MouseEvent, EventType
  <2> QED BY <2>3, <2>4 DEF Dynamic, SafeEvent
<1> QED BY <1>4, <1>5, <1>6, <1>7, <1>8, <1>9, <1>10, <1>11 DEF Library

LEMMA CarefulFree == TypeOK /\ CarefulInv /\ Careful /\ AppFree => CarefulInv'
<1> SUFFICES ASSUME ListOK, Tree!TypeOK, LoopOK, Static, Dynamic, Careful, AppFree
             PROVE  Static' /\ Dynamic'
  BY CarefulSplits, TypeSplits
<1> USE DEF loopVars, gestureVars
<1>1. /\ Tree!Destroy(Root) /\ Bind!Unlink(Linked) /\ pc' = "freed" /\ pc = "stopped"
      /\ UNCHANGED <<registered, fault, loopVars, gestureVars>>
  BY DEF AppFree
<1>2. Linked' = {}
  BY <1>1, UnlinkType
<1>3. /\ TreeRooted'
      /\ Live' = Live \ Family(Root)
      /\ \A c \in Live' : above'[c] = above[c]
  BY <1>1, DestroyTree, ClassAssumption DEF Static
<1>4. Static'
  BY <1>2, <1>3 DEF Static, BoundAreLive, LibraryBoundAsMade, GripsOnToplevels
<1>5. Dynamic'
  BY <1>1 DEF Dynamic, NoFreedAccess, GesturesOnLive, CursorLinked, CalledAsBound
<1> QED BY <1>4, <1>5

LEMMA CarefulInit == Init => CarefulInv
<1> SUFFICES ASSUME Init PROVE Static /\ Dynamic
  BY CarefulSplits
<1>1. /\ Linked = 1 .. 7 /\ bindings = DefaultBindings /\ current = NIL /\ pc = "setup"
      /\ button_pressed = NULL /\ resizing_toplevel = NULL /\ moving_toplevel = NULL
      /\ event = NoEvent /\ fault = "none"
  BY LibraryBindings DEF Init, Linked, Bind!Linked
<1>2. TreeRooted /\ GripsOnToplevels
  BY ClassAssumption, PartAssumption DEF Init, Tree!Init, TreeRooted, Tree!Rooted, GripsOnToplevels,
                                         Live, Tree!Live
<1>3. BoundAreLive
  BY <1>1 DEF BoundAreLive, DefaultBindings, OnTag
<1>4. LibraryBoundAsMade
  BY <1>1, LibraryBindings DEF LibraryBoundAsMade, LibraryBinding
<1>5. SafeEvent(event)
  BY <1>1, PartAssumption, ClassAssumption DEF SafeEvent, NoEvent
<1>6. Dynamic
  BY <1>1, <1>5 DEF Dynamic, NoFreedAccess, GesturesOnLive, CursorLinked, CalledAsBound
<1> QED BY <1>2, <1>3, <1>4, <1>6 DEF Static

(* Along every run of a careful program, each clause of CarefulInv: what   *)
(* the list, the loop and the gestures point to has not been freed.        *)
THEOREM CarefulInvariant == ASSUME Careful PROVE Spec => []CarefulInv
<1>1. Init => TypeOK /\ OnLinked /\ CarefulInv
  BY InitType, CarefulInit DEF Init, OnLinked
<1>2. TypeOK /\ OnLinked /\ CarefulInv /\ [Next]_vars => CarefulInv'
  <2>1. TypeOK /\ CarefulInv /\ UNCHANGED vars => CarefulInv'
    BY CarefulSplits, StaticKept
       DEF vars, ListKept, TreeKept, loopVars, gestureVars, Dynamic, NoFreedAccess, GesturesOnLive,
           CursorLinked, CalledAsBound, Concerned, TagConcerned, Live, Tree!Live, Linked, Bind!Linked
  <2> QED BY <2>1, CarefulProgram, CarefulTurn, CarefulLibrary, CarefulFree DEF Next, Stopped
<1> QED BY <1>1, <1>2, TypeStep, PTL DEF Spec

(* A program that keeps to SafeToUnbind, SafeToDestroy and SafeEvent never *)
(* makes the library read or write freed memory, however its callbacks,    *)
(* the events and the gestures interleave, for any number of widgets and   *)
(* bindings.                                                               *)
THEOREM CarefulIsSafe == ASSUME Careful PROVE Spec => []NoFreedAccess
<1>1. CarefulInv => NoFreedAccess
  BY DEF CarefulInv
<1> QED BY <1>1, CarefulInvariant, PTL

-----------------------------------------------------------------------------
(* Every release of the button ends the gestures.                          *)

(* The program unbinds none of the three bindings of ei_app_create that    *)
(* end a gesture.  Hypothesis of ReleaseEndsGesturesHolds.                 *)
KeepsReleases == \A b \in UserBinding : \A k \in {2, 4, 6} : b # DefaultBindings[k]

(* The bindings of ei_app_create keep the first ranks of the list.         *)
ListAsCreated ==
  /\ registered >= 7
  /\ \A n \in Linked : n <= 7 => bindings[n] = DefaultBindings[n]
  /\ pc # "freed" => {2, 4, 6} \subseteq Linked

TurnAsBound ==
  /\ pc = "library" => /\ bindings[current] \in LibraryBinding
                       /\ bindings[current].eventtype = event.type
  /\ pc = "user" => current > 7
  /\ processed => current > 7 \/ (pc = "dispatch" /\ current = NIL)

(* The turn has offered the event to binding k, or has done with the list. *)
Past(k) ==
  \/ pc \in {"dispatch", "library", "user", "button_user", "next"} /\ current > k
  \/ pc \in {"button_user", "next"} /\ current = k
  \/ pc = "dispatch" /\ current = NIL

Releasing == event.type = "ei_ev_mouse_buttonup" /\ event.left

Released ==
  /\ Releasing => status[event.under] # "unborn"
  /\ Releasing /\ event.under \in Live =>
       /\ Past(2) => button_pressed = NULL
       /\ Past(4) => resizing_toplevel = NULL
       /\ Past(6) => moving_toplevel = NULL

(* The bindings of the library that press, or that consume an event, are   *)
(* bound to the button going down.                                         *)
LEMMA PressBindings ==
  \A b \in LibraryBinding :
    b.callback \in {"ei_handle_button_down", "beg_resize", "beg_move", "quit_toplevel_event"}
      => b.eventtype = "ei_ev_mouse_buttondown"
<1> SUFFICES ASSUME NEW b \in LibraryBinding,
                    b.callback \in {"ei_handle_button_down", "beg_resize", "beg_move",
                                    "quit_toplevel_event"}
             PROVE  b.eventtype = "ei_ev_mouse_buttondown"
  OBVIOUS
<1>1. CASE \E i \in 1 .. 7 : b = DefaultBindings[i]
  BY <1>1 DEF DefaultBindings, OnTag
<1>2. CASE \E t \in Toplevel : \E i \in 1 .. 3 : b = ToplevelBindings(t)[i]
  BY <1>2 DEF ToplevelBindings, OnWidget
<1> QED BY <1>1, <1>2, LibraryBindings DEF LibraryBinding

(* What the bindings of ei_app_create are.                                 *)
LEMMA ReleaseBindings ==
  /\ \A n \in 1 .. 7 : /\ DefaultBindings[n].widget = NULL
                       /\ DefaultBindings[n].callback \in LibraryCallback
                       /\ DefaultBindings[n].callback \notin
                            {"beg_resize", "beg_move", "quit_toplevel_event"}
  /\ \A k \in {2, 4, 6} : /\ DefaultBindings[k].eventtype = "ei_ev_mouse_buttonup"
                          /\ DefaultBindings[k].tag = "all"
  /\ DefaultBindings[2].callback = "ei_handle_button_up"
  /\ DefaultBindings[4].callback = "end_resize"
  /\ DefaultBindings[6].callback = "end_move"
BY DEF DefaultBindings, OnTag, LibraryCallback

-----------------------------------------------------------------------------
(* The list.                                                               *)
LEMMA ListGrows ==
  ASSUME ListOK, ListAsCreated, LibraryBoundAsMade,
         NEW bs, NEW k \in Nat, Len(bs) = k, DOMAIN bs = 1 .. k, Bind!Register(bs),
         \A i \in 1 .. k : bs[i].callback \in LibraryCallback => bs[i] \in LibraryBinding,
         pc' = pc
  PROVE  /\ ListAsCreated' /\ LibraryBoundAsMade'
         /\ \A n \in Linked : n \in Linked' /\ bindings'[n] = bindings[n]
<1>1. registered' = registered + k /\ registered \in Nat
  BY MaxBindAssumption DEF ListOK, Bind!Register
<1>2. Linked' = Linked \cup {registered + i : i \in 1 .. k}
  BY DEF Bind!Register, Linked, Bind!Linked
<1>3. \A i \in 1 .. k : registered + i > 7
  BY <1>1 DEF ListAsCreated
<1>4. /\ Linked \subseteq Linked'
      /\ \A n \in Linked : bindings'[n] = bindings[n]
      /\ \A n \in Linked' \ Linked : \E i \in 1 .. k : bindings'[n] = bs[i]
  BY RegisterList
<1>5. \A n \in Linked' \ Linked : ~ (n <= 7)
  BY <1>1, <1>2, <1>3
<1>6. registered' >= 7
  BY <1>1 DEF ListAsCreated
<1>7. ListAsCreated'
  BY <1>4, <1>5, <1>6 DEF ListAsCreated
<1>8. LibraryBoundAsMade'
  BY <1>4 DEF LibraryBoundAsMade
<1> QED BY <1>4, <1>7, <1>8

LEMMA ListShrinks ==
  ASSUME ListOK, ListAsCreated, LibraryBoundAsMade, NEW S, Bind!Unlink(S), registered' = registered,
         pc' = "freed" \/ (pc' = pc /\ \A k \in {2, 4, 6} : k \notin S)
  PROVE  ListAsCreated' /\ LibraryBoundAsMade'
<1>1. Linked' = Linked \ S /\ \A n \in Linked' : bindings'[n] = bindings[n]
  BY UnlinkType
<1>2. ListAsCreated'
  BY <1>1 DEF ListAsCreated
<1> QED BY <1>1, <1>2 DEF LibraryBoundAsMade

LEMMA ListStays ==
  ASSUME ListAsCreated, LibraryBoundAsMade, ListKept, pc' = "freed" \/ pc # "freed" \/ pc' = pc
  PROVE  ListAsCreated' /\ LibraryBoundAsMade'
BY DEF ListAsCreated, LibraryBoundAsMade, ListKept, Linked, Bind!Linked

(* Destroying a widget removes no binding made on a tag.                   *)
LEMMA ReleasesOutlive ==
  ASSUME ListOK, ListAsCreated, LibraryBoundAsMade, NEW w \in Widget, DestroyWidget(w), 
         \/ pc' = pc
         \/ pc # "freed" /\ pc' # "freed"
  PROVE  ListAsCreated' /\ LibraryBoundAsMade'
<1>1. registered' = registered
  BY DEF DestroyWidget, Bind!destroy_event_binded_to_widget
<1>2. CASE UNCHANGED bindings
  BY <1>1, <1>2, ListStays DEF ListKept
<1>3. CASE Bind!Unlink(Bind!BoundTo(w))
  <2>1. Linked' = Linked \ Bind!BoundTo(w) /\ \A n \in Linked' : bindings'[n] = bindings[n]
    BY <1>1, <1>3, UnlinkType
  <2>2. \A k \in {2, 4, 6} : k \in Linked => bindings[k].widget = NULL
    BY ReleaseBindings DEF ListAsCreated
  <2>3. \A k \in {2, 4, 6} : k \notin Bind!BoundTo(w)
    BY <2>2, NullAssumption DEF Bind!BoundTo, Linked
  <2>4. ListAsCreated'
    BY <1>1, <2>1, <2>3 DEF ListAsCreated
  <2> QED BY <2>1, <2>4 DEF LibraryBoundAsMade
<1> QED BY <1>2, <1>3 DEF DestroyWidget, Bind!destroy_event_binded_to_widget

LEMMA FreedStays == pc = "freed" /\ [Next]_vars => pc' = pc
<1> SUFFICES ASSUME pc = "freed", Next PROVE pc' = pc
  BY DEF vars
<1>1. ~ (Turn \/ AppRun \/ CallbackReturn \/ AppFree \/ \E e \in Event : WaitNext(e))
  BY DEF Turn, Deliver, Skip, ExamineGone, Examining, NextBinding, NextFreed, EndTurn, AppRun,
         CallbackReturn, ButtonUserReturn, UserReturn, AppFree, WaitNext
<1>2. ~ Library
  BY DEF Library, Runs, ButtonDown, ButtonUp, ButtonMove, ButtonMoveFreed, BegResize, Resize,
         ResizeFreed, EndResize, BegMove, Move, MoveFreed, EndMove, QuitToplevel
<1>3. ~ Program
  BY DEF Program, ProgramRuns, UserBind, UserUnbind, UserCreate, CreateToplevel, UserDestroy,
         ei_app_quit_request
<1> QED BY <1>1, <1>2, <1>3 DEF Next, Stopped, vars

LEMMA ProgramKeeps ==
  Program => UNCHANGED <<pc, event, current, processed, button_pressed, resizing_toplevel,
                         moving_toplevel>>
BY DEF Program, ProgramRuns, UserBind, UserUnbind, UserCreate, CreateToplevel, UserDestroy,
       ei_app_quit_request, loopVars, gestureVars

(* The list keeps the bindings that end the gestures, in their places.     *)
LEMMA ReleaseListStep ==
  ASSUME KeepsReleases
  PROVE  TypeOK /\ ListAsCreated /\ LibraryBoundAsMade /\ [Next]_vars
         => ListAsCreated' /\ LibraryBoundAsMade'
<1> SUFFICES ASSUME TypeOK, ListAsCreated, LibraryBoundAsMade, [Next]_vars
             PROVE  ListAsCreated' /\ LibraryBoundAsMade'
  OBVIOUS
<1>0. ListOK
  BY TypeSplits
<1>1. CASE ListKept
  BY <1>1, FreedStays, ListStays
<1>2. CASE Program
  <2>0. pc' = pc
    BY <1>2, ProgramKeeps
  <2>1. ASSUME NEW b \in UserBinding, UserBind(b) PROVE ListAsCreated' /\ LibraryBoundAsMade'
    <3>1. Bind!Register(<<b>>)
      BY <2>1 DEF UserBind, Bind!ei_bind
    <3>2. 1 \in Nat /\ Len(<<b>>) = 1 /\ DOMAIN <<b>> = 1 .. 1 /\ \A i \in 1 .. 1 : <<b>>[i] = b
      OBVIOUS
    <3>3. \A i \in 1 .. 1 : <<b>>[i].callback \in LibraryCallback => <<b>>[i] \in LibraryBinding
      BY <3>2, UserBindingAssumption
    <3> QED BY <1>0, <2>0, <3>1, <3>2, <3>3, ListGrows
  <2>2. ASSUME NEW b \in UserBinding, UserUnbind(b) PROVE ListAsCreated' /\ LibraryBoundAsMade'
    <3>1. registered' = registered
      BY <2>2 DEF UserUnbind, Bind!ei_unbind
    <3>2. CASE UNCHANGED bindings
      BY <1>1, <3>1, <3>2 DEF ListKept
    <3>3. ASSUME NEW n \in Bind!Matching(b), Bind!Unlink({n})
          PROVE  ListAsCreated' /\ LibraryBoundAsMade'
      <4>1. n \in Linked /\ bindings[n] = b
        BY DEF Bind!Matching, Linked
      <4>2. \A k \in {2, 4, 6} : k # n
        BY <4>1, KeepsReleases DEF KeepsReleases, ListAsCreated
      <4> QED BY <1>0, <2>0, <3>1, <3>3, <4>2, ListShrinks
    <3> QED BY <2>2, <3>2, <3>3 DEF UserUnbind, Bind!ei_unbind
  <2>3. ASSUME NEW w \in Widget, NEW p \in Widget, UserCreate(w, p)
        PROVE  ListAsCreated' /\ LibraryBoundAsMade'
    BY <1>1, <2>3 DEF UserCreate, ListKept
  <2>4. ASSUME NEW t \in Toplevel, NEW p \in Widget, CreateToplevel(t, p)
        PROVE  ListAsCreated' /\ LibraryBoundAsMade'
    <3>1. Bind!Register(ToplevelBindings(t))
      BY <2>4 DEF CreateToplevel
    <3>2. 3 \in Nat /\ \A i \in 1 .. 3 : ToplevelBindings(t)[i] \in LibraryBinding
      BY DEF LibraryBinding
    <3> QED BY <1>0, <2>0, <3>1, <3>2, LibraryBindings, ListGrows
  <2>5. ASSUME NEW w \in Widget, UserDestroy(w) PROVE ListAsCreated' /\ LibraryBoundAsMade'
    BY <1>0, <2>0, <2>5, ReleasesOutlive DEF UserDestroy
  <2>6. CASE ei_app_quit_request
    BY <1>1, <2>6 DEF ei_app_quit_request, ListKept
  <2> QED BY <1>2, <2>1, <2>2, <2>3, <2>4, <2>5, <2>6 DEF Program
<1>3. CASE QuitToplevel
  <2>1. PICK t \in Toplevel : DestroyWidget(t)
    BY <1>3 DEF QuitToplevel
  <2>2. pc' = pc \/ (pc # "freed" /\ pc' # "freed")
    BY <1>3 DEF QuitToplevel, Runs, Return
  <2> QED BY <1>0, <2>1, <2>2, ReleasesOutlive, ClassAssumption
<1>4. CASE AppFree
  <2>1. CASE Fault("freed_predecessor")
    BY <1>1, <2>1 DEF Fault, ListKept
  <2>2. CASE Bind!Unlink(Linked) /\ pc' = "freed" /\ registered' = registered
    BY <1>0, <2>2, ListShrinks
  <2> QED BY <1>4, <2>1, <2>2 DEF AppFree
<1> QED BY <1>1, <1>2, <1>3, <1>4, OtherSteps

(* A widget that is or was there does not come back.                       *)
LEMMA StatusForward ==
  TypeOK /\ [Next]_vars =>
    \A c \in Widget : status[c] # "unborn" => status'[c] # "unborn" /\ (c \in Live' => c \in Live)
<1> SUFFICES ASSUME Tree!TypeOK, [Next]_vars, NEW c \in Widget, status[c] # "unborn"
             PROVE  status'[c] # "unborn" /\ (c \in Live' => c \in Live)
  BY TypeSplits
<1>1. CASE TreeKept
  BY <1>1 DEF TreeKept, Live, Tree!Live
<1>2. ASSUME NEW w \in Widget, Tree!Destroy(w)
      PROVE  status'[c] # "unborn" /\ (c \in Live' => c \in Live)
  BY <1>2 DEF Tree!Destroy, Tree!TypeOK, Live, Tree!Live
<1>3. ASSUME NEW w \in Widget, NEW p \in Widget, NEW parts, Tree!Create(w, p, parts)
      PROVE  status'[c] # "unborn" /\ (c \in Live' => c \in Live)
  BY <1>3 DEF Tree!Create, Tree!TypeOK, Live, Tree!Live
<1>4. \/ TreeKept
      \/ \E w \in Widget : Tree!Destroy(w)
      \/ \E w, p \in Widget : \E parts \in SUBSET Widget : Tree!Create(w, p, parts)
  <2>1. Program => \/ TreeKept
                   \/ \E w \in Widget : Tree!Destroy(w)
                   \/ \E w, p \in Widget : \E parts \in SUBSET Widget : Tree!Create(w, p, parts)
    <3>1. ASSUME NEW t \in Toplevel, NEW p \in Widget, CreateToplevel(t, p)
          PROVE  \E w, q \in Widget : \E parts \in SUBSET Widget : Tree!Create(w, q, parts)
      <4>1. t \in Widget /\ {ResizeButton[t], QuitButton[t]} \in SUBSET Widget
        BY ClassAssumption, PartAssumption
      <4> QED BY <3>1, <4>1 DEF CreateToplevel
    <3> QED
      BY <3>1 DEF Program, UserBind, UserUnbind, UserCreate, UserDestroy, DestroyWidget,
                  ei_app_quit_request, TreeKept
  <2>2. QuitToplevel => TreeKept \/ \E w \in Widget : Tree!Destroy(w)
    BY ClassAssumption DEF QuitToplevel, DestroyWidget, TreeKept
  <2>3. AppFree => TreeKept \/ \E w \in Widget : Tree!Destroy(w)
    BY ClassAssumption DEF AppFree, Fault, TreeKept
  <2> QED BY <2>1, <2>2, <2>3, OtherSteps
<1> QED BY <1>1, <1>2, <1>3, <1>4

(* The binding called is one the library made, for events of this type,    *)
(* and only a binding made after ei_app_create consumes an event.          *)
LEMMA TurnBoundStep ==
  TypeOK /\ OnLinked /\ ListAsCreated /\ LibraryBoundAsMade /\ TurnAsBound /\ [Next]_vars
  => TurnAsBound'
<1> SUFFICES ASSUME ListOK, LoopOK, OnLinked, ListAsCreated, LibraryBoundAsMade, TurnAsBound,
                    [Next]_vars
             PROVE  TurnAsBound'
  BY TypeSplits
<1> USE DEF loopVars, gestureVars, ListsAndTree
<1>0. \A n \in Linked : n <= 7 => /\ n \in 1 .. 7
                                  /\ bindings[n] = DefaultBindings[n]
                                  /\ bindings[n].callback \in LibraryCallback
                                  /\ bindings[n].callback \notin
                                       {"beg_resize", "beg_move", "quit_toplevel_event"}
  <2>1. \A n \in Linked : n \in Nat /\ n > 0
    BY CursorType
  <2> QED BY <2>1, ReleaseBindings DEF ListAsCreated
<1>1. CASE Program
  <2>1. pc # "library"
    BY <1>1 DEF Program, ProgramRuns, UserBind, UserUnbind, UserCreate, CreateToplevel, UserDestroy,
                ei_app_quit_request
  <2> QED BY <1>1, <2>1, ProgramKeeps DEF TurnAsBound
<1>2. CASE Deliver
  <2>1. /\ current \in Linked /\ Concerned(bindings[current]) /\ ~processed
        /\ pc' = IF bindings[current].callback \in UserCallback THEN "user" ELSE "library"
        /\ UNCHANGED <<bindings, event, current, processed>>
    BY <1>2 DEF Deliver, Examining, OnLinked
  <2>2. bindings[current].callback \in LibraryCallback \cup UserCallback
    BY <2>1 DEF ListOK, Bind!Binding, Callback
  <2>3. bindings[current].callback \in UserCallback => current > 7
    <3>1. current \in Nat
      BY <2>1, CursorType
    <3> QED BY <1>0, <2>1, <3>1, CallbackAssumption
  <2> QED BY <2>1, <2>2, <2>3 DEF TurnAsBound, LibraryBoundAsMade, Concerned
<1>3. CASE Skip \/ ExamineGone
  BY <1>3 DEF Skip, ExamineGone, Fault, Examining, TurnAsBound
<1>4. CASE NextBinding
  <2>1. /\ pc = "next" /\ pc' = "dispatch" /\ processed' = processed
        /\ \/ Bind!Follows(current, current')
           \/ current' = NIL
    BY <1>4 DEF NextBinding
  <2>2. processed => current > 7
    BY <2>1 DEF TurnAsBound
  <2>3. Bind!Follows(current, current') /\ current > 7 => current' > 7
    <3>1. current \in Nat
      BY MaxBindAssumption DEF LoopOK
    <3>2. Bind!Follows(current, current') => current' \in Nat /\ current' > current
      BY CursorType, MaxBindAssumption DEF Bind!Follows
    <3> QED BY <3>1, <3>2
  <2> QED BY <2>1, <2>2, <2>3 DEF TurnAsBound
<1>5. CASE NextFreed
  BY <1>5 DEF NextFreed, Fault, TurnAsBound
<1>6. CASE EndTurn \/ AppRun
  BY <1>6 DEF EndTurn, AppRun, TurnAsBound
<1>7. CASE CallbackReturn
  BY <1>7 DEF CallbackReturn, ButtonUserReturn, UserReturn, Return, TurnAsBound
<1>8. ASSUME NEW e \in Event, WaitNext(e) PROVE TurnAsBound'
  BY <1>8 DEF WaitNext, TurnAsBound
<1>9. CASE Library
  <2>1. pc = "library"
    BY <1>9 DEF Library, Runs, ButtonDown, ButtonUp, ButtonMove, ButtonMoveFreed, BegResize, Resize,
                ResizeFreed, EndResize, BegMove, Move, MoveFreed, EndMove, QuitToplevel
  <2>2. ~processed \/ current > 7
    BY <2>1 DEF TurnAsBound
  <2>3. CASE ButtonDown \/ ButtonUp \/ ButtonMove \/ Resize \/ EndResize \/ BegMove \/ Move \/ EndMove
    BY <2>2, <2>3 DEF ButtonDown, ButtonUp, ButtonMove, Resize, EndResize, BegMove, Move, EndMove,
                      Return, TurnAsBound
  <2>4. CASE ButtonMoveFreed \/ ResizeFreed \/ MoveFreed
    BY <2>4 DEF ButtonMoveFreed, ResizeFreed, MoveFreed, Fault, TurnAsBound
  <2>5. current > 7 \/ bindings[current].callback \notin
                          {"beg_resize", "beg_move", "quit_toplevel_event"}
    <3>1. current \in Linked /\ current \in Nat
      BY <2>1, CursorType DEF OnLinked
    <3> QED BY <1>0, <3>1
  <2>6. CASE BegResize
    BY <2>5, <2>6 DEF BegResize, Runs, Return, TurnAsBound
  <2>7. CASE QuitToplevel
    <3>1. CASE fault' = "none"
      BY <2>5, <2>7, <3>1 DEF QuitToplevel, Runs, Return, TurnAsBound
    <3>2. CASE fault' # "none"
      <4>1. PICK t \in Toplevel : DestroyWidget(t)
        BY <2>7 DEF QuitToplevel
      <4>2. fault = "none" /\ UNCHANGED <<pc, event, current, processed>>
        BY <2>7, <3>2 DEF QuitToplevel, Runs
      <4>3. UNCHANGED bindings
        BY <3>2, <4>1, <4>2 DEF DestroyWidget, Bind!destroy_event_binded_to_widget
      <4> QED BY <4>2, <4>3 DEF TurnAsBound
    <3> QED BY <3>1, <3>2
  <2> QED BY <1>9, <2>3, <2>4, <2>6, <2>7 DEF Library
<1>10. CASE AppFree
  BY <1>10 DEF AppFree, Fault, TurnAsBound
<1>11. CASE Stopped \/ UNCHANGED vars
  BY <1>11 DEF Stopped, vars, TurnAsBound
<1> QED BY <1>1, <1>2, <1>3, <1>4, <1>5, <1>6, <1>7, <1>8, <1>9, <1>10, <1>11 DEF Next, Turn

(* As long as the turn stands where it stood, the gestures that were over  *)
(* stay over.                                                              *)
LEMMA ReleasedStays ==
  ASSUME TypeOK, [Next]_vars, Released, UNCHANGED event,
         \/ ~Releasing
         \/ \A k \in {2, 4, 6} : Past(k)' => Past(k),
         ~Releasing \/ UNCHANGED <<button_pressed, resizing_toplevel, moving_toplevel>>
  PROVE  Released'
<1>1. event.under \in Widget
  BY TypeSplits DEF LoopOK, Event
<1>2. Releasing => status'[event'.under] # "unborn" /\ (event'.under \in Live' => event.under \in Live)
  BY <1>1, StatusForward DEF Released
<1>3. Releasing' = Releasing
  BY DEF Releasing
<1> QED BY <1>2, <1>3 DEF Released

(* What a callback of the library does to a release that is being offered. *)
LEMMA LibraryReleases ==
  ASSUME ListOK, LoopOK, OnLinked, ListAsCreated, TurnAsBound, Releasing, Library
  PROVE  /\ UNCHANGED event
         /\ button_pressed' \in {button_pressed, NULL}
         /\ resizing_toplevel' \in {resizing_toplevel, NULL}
         /\ moving_toplevel' \in {moving_toplevel, NULL}
         /\ UNCHANGED <<pc, current>> \/ (pc' \in {"next", "button_user"} /\ current' = current)
         /\ pc' # "library" /\ current = 2 => button_pressed' = NULL
         /\ pc' # "library" /\ current = 4 => resizing_toplevel' = NULL
         /\ pc' # "library" /\ current = 6 => moving_toplevel' = NULL
<1> USE DEF loopVars, gestureVars
<1>1. pc = "library"
  BY DEF Library, Runs, ButtonDown, ButtonUp, ButtonMove, ButtonMoveFreed, BegResize, Resize,
         ResizeFreed, EndResize, BegMove, Move, MoveFreed, EndMove, QuitToplevel
<1>2. bindings[current].callback \notin
        {"ei_handle_button_down", "beg_resize", "beg_move", "quit_toplevel_event"}
  BY <1>1, PressBindings DEF TurnAsBound, Releasing
<1>3. /\ current = 2 => bindings[current].callback = "ei_handle_button_up"
      /\ current = 4 => bindings[current].callback = "end_resize"
      /\ current = 6 => bindings[current].callback = "end_move"
  BY <1>1, ReleaseBindings DEF ListAsCreated, OnLinked
<1>4. CASE ButtonUp
  BY <1>1, <1>3, <1>4 DEF ButtonUp, Runs, Return, Releasing
<1>5. CASE EndResize
  BY <1>1, <1>3, <1>5 DEF EndResize, Runs, Return
<1>6. CASE EndMove
  BY <1>1, <1>3, <1>6 DEF EndMove, Runs, Return
<1>7. CASE ButtonMove \/ Resize \/ Move
  BY <1>1, <1>3, <1>7 DEF ButtonMove, Resize, Move, Gestureless, Runs, Return
<1>8. CASE ButtonMoveFreed \/ ResizeFreed \/ MoveFreed
  BY <1>1, <1>3, <1>8 DEF ButtonMoveFreed, ResizeFreed, MoveFreed, Fault, Runs
<1>9. ~ (ButtonDown \/ BegResize \/ BegMove \/ QuitToplevel)
  BY <1>2 DEF ButtonDown, BegResize, BegMove, QuitToplevel, Runs
<1> QED BY <1>4, <1>5, <1>6, <1>7, <1>8, <1>9 DEF Library

LEMMA ReleasedStep ==
  TypeOK /\ OnLinked /\ ListAsCreated /\ TurnAsBound /\ Released /\ [Next]_vars => Released'
<1> SUFFICES ASSUME TypeOK, OnLinked, ListAsCreated, TurnAsBound, Released, [Next]_vars
             PROVE  Released'
  OBVIOUS
<1>0. ListOK /\ LoopOK /\ current \in Nat /\ \A n \in Linked : n \in Nat
  <2>1. ListOK /\ LoopOK
    BY TypeSplits
  <2> QED BY <2>1, CursorType, MaxBindAssumption DEF LoopOK
<1> USE DEF loopVars, gestureVars
<1>1. CASE Program
  BY <1>1, ProgramKeeps, ReleasedStays DEF Past
<1>2. CASE Deliver
  <2>1. \A k \in {2, 4, 6} : Past(k)' => Past(k)
    BY <1>0, <1>2 DEF Deliver, Examining, Past
  <2> QED BY <1>2, <2>1, ReleasedStays DEF Deliver
<1>3. CASE Skip
  <2>1. CASE Releasing /\ event.under \in Live
    <3>1. \A k \in {2, 4, 6} : current # k
      <4> SUFFICES ASSUME NEW k \in {2, 4, 6}, current = k PROVE FALSE
        OBVIOUS
      <4>1. bindings[current] = DefaultBindings[k]
        BY <1>3 DEF Skip, Examining, OnLinked, ListAsCreated
      <4>2. Concerned(bindings[current])
        BY <2>1, <4>1, ReleaseBindings DEF Concerned, TagConcerned, HasTag, Releasing, MouseEvent,
                                           EventType
      <4> QED BY <1>3, <4>2 DEF Skip
    <3>2. \A k \in {2, 4, 6} : Past(k)' => Past(k)
      BY <1>0, <1>3, <3>1 DEF Skip, Examining, Past
    <3> QED BY <1>3, <3>2, ReleasedStays DEF Skip
  <2>2. CASE ~ (Releasing /\ event.under \in Live)
    BY <1>3, <2>2 DEF Skip, Released, Releasing, Live, Tree!Live
  <2> QED BY <2>1, <2>2
<1>4. CASE ExamineGone \/ NextFreed
  BY <1>4, ReleasedStays DEF ExamineGone, NextFreed, Fault, Past
<1>5. CASE NextBinding
  <2>1. {2, 4, 6} \subseteq Linked
    BY <1>5 DEF NextBinding, ListAsCreated
  <2>2. \A k \in {2, 4, 6} : Past(k)' => Past(k)
    <3> SUFFICES ASSUME NEW k \in {2, 4, 6}, Past(k)' PROVE Past(k)
      OBVIOUS
    <3>1. k \in Linked /\ k # NIL
      BY <2>1 DEF NIL, Bind!NIL
    <3>2. CASE Bind!Follows(current, current')
      <4>1. ~ (k > current)
        <5>1. current' \in Nat /\ current' # NIL
          BY <3>2, CursorType, <1>0, MaxBindAssumption DEF Bind!Follows, NIL, Bind!NIL
        <5>2. current' > k
          BY <1>5, <3>1, <5>1 DEF NextBinding, Past
        <5> QED BY <3>1, <3>2, <5>1, <5>2, <1>0 DEF Bind!Follows, Linked
      <4> QED BY <1>0, <1>5, <4>1 DEF NextBinding, Past
    <3>3. CASE Bind!LastLinked(current)
      BY <1>0, <1>5, <3>1, <3>3 DEF Bind!LastLinked, Linked, NextBinding, Past
    <3> QED BY <1>5, <3>2, <3>3 DEF NextBinding
  <2> QED BY <1>5, <2>2, ReleasedStays DEF NextBinding
<1>6. CASE EndTurn
  BY <1>6 DEF EndTurn, NoEvent, Released, Releasing
<1>7. CASE AppRun
  BY <1>7, ReleasedStays DEF AppRun, Past
<1>8. CASE CallbackReturn
  <2>1. \A k \in {2, 4, 6} : Past(k)' => Past(k)
    BY <1>0, <1>8 DEF CallbackReturn, ButtonUserReturn, UserReturn, Return, Past, TurnAsBound
  <2> QED BY <1>8, <2>1, ReleasedStays DEF CallbackReturn, ButtonUserReturn, UserReturn, Return
<1>9. ASSUME NEW e \in Event, WaitNext(e) PROVE Released'
  <2>1. status'[event'.under] # "unborn"
    BY <1>9 DEF WaitNext, OnScreen, Gone, Live, Tree!Live
  <2>2. {2, 4, 6} \subseteq Linked
    BY <1>9 DEF WaitNext, ListAsCreated
  <2>3. \A k \in {2, 4, 6} : ~Past(k)'
    <3> SUFFICES ASSUME NEW k \in {2, 4, 6} PROVE ~Past(k)'
      OBVIOUS
    <3>1. k \in Linked /\ k > NIL /\ NIL = 0
      BY <2>2 DEF NIL, Bind!NIL
    <3>2. Bind!Follows(NIL, current')
      BY <1>9, <3>1 DEF WaitNext, Bind!LastLinked, Linked
    <3>3. current' \in Nat /\ current' > 0 /\ current' <= k
      BY <3>1, <3>2, <1>0 DEF Bind!Follows, Linked
    <3> QED BY <1>9, <3>1, <3>3 DEF WaitNext, Past
  <2> QED BY <2>1, <2>3 DEF Released
<1>10. CASE Library
  <2>1. CASE Releasing
    <3>1. pc = "library" /\ pc \notin {"next", "button_user", "dispatch"}
      BY <1>10 DEF Library, Runs, ButtonDown, ButtonUp, ButtonMove, ButtonMoveFreed, BegResize, Resize,
                ResizeFreed, EndResize, BegMove, Move, MoveFreed, EndMove, QuitToplevel
    <3>2. /\ UNCHANGED event
          /\ button_pressed' \in {button_pressed, NULL}
          /\ resizing_toplevel' \in {resizing_toplevel, NULL}
          /\ moving_toplevel' \in {moving_toplevel, NULL}
          /\ UNCHANGED <<pc, current>> \/ (pc' \in {"next", "button_user"} /\ current' = current)
          /\ pc' # "library" /\ current = 2 => button_pressed' = NULL
          /\ pc' # "library" /\ current = 4 => resizing_toplevel' = NULL
          /\ pc' # "library" /\ current = 6 => moving_toplevel' = NULL
      BY <1>0, <1>10, <2>1, LibraryReleases
    <3>3. \A k \in {2, 4, 6} : Past(k)' => Past(k) \/ (current = k /\ pc' # "library")
      BY <1>0, <3>1, <3>2 DEF Past
    <3>4. event.under \in Widget
      BY <1>0 DEF LoopOK, Event
    <3>5. status'[event'.under] # "unborn" /\ (event'.under \in Live' => event.under \in Live)
      BY <2>1, <3>2, <3>4, StatusForward DEF Released
    <3> QED BY <2>1, <3>2, <3>3, <3>5 DEF Released
  <2>2. CASE ~Releasing
    <3>1. UNCHANGED event
      <4>1. CASE QuitToplevel
        BY <4>1 DEF QuitToplevel, Return
      <4> QED
        BY <1>10, <4>1 DEF Library, ButtonDown, ButtonUp, ButtonMove, ButtonMoveFreed, BegResize,
              Resize, ResizeFreed, EndResize, BegMove, Move, MoveFreed, EndMove, Fault, Return
    <3> QED BY <2>2, <3>1, ReleasedStays
  <2> QED BY <2>1, <2>2
<1>11. CASE AppFree
  BY <1>11, ReleasedStays DEF AppFree, Fault, Past
<1>12. CASE Stopped \/ UNCHANGED vars
  BY <1>12, ReleasedStays DEF Stopped, vars, Past
<1> QED BY <1>1, <1>2, <1>3, <1>4, <1>5, <1>6, <1>7, <1>8, <1>9, <1>10, <1>11, <1>12 DEF Next, Turn

LEMMA ReleaseInit == Init => LibraryBoundAsMade /\ ListAsCreated /\ TurnAsBound /\ Released
<1> SUFFICES ASSUME Init PROVE LibraryBoundAsMade /\ ListAsCreated /\ TurnAsBound /\ Released
  OBVIOUS
<1>1. /\ Linked = 1 .. 7 /\ registered = 7 /\ bindings = DefaultBindings /\ pc = "setup"
      /\ event = NoEvent /\ processed = FALSE
  BY LibraryBindings DEF Init, Linked, Bind!Linked
<1>2. LibraryBoundAsMade
  BY <1>1, LibraryBindings DEF LibraryBoundAsMade, LibraryBinding
<1> QED BY <1>1, <1>2 DEF ListAsCreated, TurnAsBound, Released, Releasing, NoEvent

(* Unless the program unbinds them, the three bindings of ei_app_create    *)
(* that end a gesture are reached by every release of the left button over *)
(* a widget that is still there, whatever is bound, unbound, created and   *)
(* destroyed on the way, and no gesture outlives the turn.                 *)
THEOREM ReleaseEndsGesturesHolds == ASSUME KeepsReleases PROVE Spec => ReleaseEndsGestures
<1> DEFINE Inv == TypeOK /\ OnLinked /\ LibraryBoundAsMade /\ ListAsCreated /\ TurnAsBound /\ Released
<1>1. Init => Inv
  BY InitType, ReleaseInit DEF Init, OnLinked
<1>2. Inv /\ [Next]_vars => Inv'
  BY TypeStep, ReleaseListStep, TurnBoundStep, ReleasedStep
<1>3. Inv /\ [Next]_vars
      => [(/\ EndTurn
           /\ event.type = "ei_ev_mouse_buttonup" /\ event.left
           /\ event.under \in Live)
          => button_pressed = NULL /\ resizing_toplevel = NULL /\ moving_toplevel = NULL]_vars
  <2> SUFFICES ASSUME Inv, EndTurn, Releasing, event.under \in Live
               PROVE  button_pressed = NULL /\ resizing_toplevel = NULL /\ moving_toplevel = NULL
    BY DEF Releasing
  <2>1. current \in Nat
    BY TypeSplits, MaxBindAssumption DEF LoopOK
  <2>2. \A k \in {2, 4, 6} : Past(k)
    BY <2>1 DEF EndTurn, TurnAsBound, Past
  <2> QED BY <2>2 DEF Released
<1>4. Inv /\ Inv' /\ [Next]_vars
      => [(/\ EndTurn
           /\ event.type = "ei_ev_mouse_buttonup" /\ event.left
           /\ event.under \in Live)
          => button_pressed = NULL /\ resizing_toplevel = NULL /\ moving_toplevel = NULL]_vars
  BY <1>3
<1> QED BY <1>1, <1>2, <1>4, PTL DEF Spec, ReleaseEndsGestures

=============================================================================
