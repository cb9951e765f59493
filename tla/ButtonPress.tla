---------------------------- MODULE ButtonPress ----------------------------
(***************************************************************************)
(* Which widget is under the mouse, and the animation of the button that   *)
(* is pressed: picking identifiers and colours (ei_widget_create,          *)
(* ei_widget_pick), the three callbacks ei_app_create binds for buttons,   *)
(* and the registered classes by whose names they are dispatched.          *)
(*                                                                         *)
(* A step is one mouse event with what it calls, or one call of the        *)
(* program with the drawing that follows.  The widgets lie side by side    *)
(* under the root; the pick surface is what each of a few spots shows.     *)
(***************************************************************************)
EXTENDS Registry

CONSTANTS
  LibraryClass,  \* the structures ei_app_create registers, in that order
  RootClass,     \* that of the root among them
  ButtonClass,   \* that of the buttons
  ChannelValues, \* how many values a channel of a colour has: 256
  ChannelAt,     \* channel -> its index in a pixel; of alpha, -1 if there is none
  Created,       \* the names of classes the program creates widgets of
  Spot,          \* places of the window the mouse may be at
  MaxId,         \* bound: identifiers given
  MaxChildren    \* bound: widgets at a time, besides the root

Channels == {"red", "green", "blue"}

ASSUME IdAssumption == MaxId \in Nat /\ NULL \notin Nat
ASSUME ClassAssumption ==
  /\ LibraryClass \in Seq(Structure)
  /\ {RootClass, ButtonClass} \subseteq {LibraryClass[i] : i \in DOMAIN LibraryClass}
  /\ \A i, j \in DOMAIN LibraryClass : Name[LibraryClass[i]] = Name[LibraryClass[j]] => i = j
ASSUME ChannelAssumption ==
  /\ ChannelValues \in Nat \ {0, 1}
  /\ \A c \in Channels : ChannelAt[c] \in 0 .. 3
  /\ \A c, d \in Channels \cup {"alpha"} : c # d => ChannelAt[c] # ChannelAt[d]

VARIABLES
  wid_id,          \* the identifier of the next widget
  widget,          \* identifier -> structure of its class and relief, for those alive
  children,        \* of the root, in order
  surface,         \* spot -> pixel of the pick surface
  mouse,           \* the spot the mouse is at
  button_pressed, pressing_over,
  called,          \* the button whose callback the last event called
  pressed,         \* history: the widget shown where the left button went down, until it goes up
  shifted,         \* history: what is under the mouse changed since it last moved
  blind,           \* history: a mouse button went down or up while so
  twice            \* history: a structure was registered that already was

animation == <<button_pressed, pressing_over>>
vars == <<registered, freed, wid_id, widget, children, surface, mouse, animation, called,
          pressed, shifted, blind, twice>>

Root == 0
Relief == {"none", "raised", "sunken"}
Id == 0 .. MaxId
Live == DOMAIN widget
Dispatched(w) == Name[widget[w].class]
Buttons == {w \in Live : widget[w].class = ButtonClass}

-----------------------------------------------------------------------------
(* Picking.                                                                *)

(* Mutant: the last shift is forgotten.                                    *)
pick_color_shift(id) ==
  [red   |-> id % ChannelValues,
   green |-> (id \div ChannelValues) % ChannelValues,
   blue  |-> (id \div ChannelValues) % ChannelValues]

(* The tests of the code only spare shifts of zero.                        *)
pick_color(id) ==
  [red   |-> id % ChannelValues,
   green |-> (id \div ChannelValues) % ChannelValues,
   blue  |-> (id \div (ChannelValues * ChannelValues)) % ChannelValues]

(* ei_map_rgba: the bytes of a pixel; alpha is 255 for all the colours.    *)
Pixel(id) ==
  LET color == pick_color(id)
  IN  [i \in 0 .. 3 |->
         IF \E c \in Channels : ChannelAt[c] = i
         THEN color[CHOOSE c \in Channels : ChannelAt[c] = i]
         ELSE IF ChannelAt["alpha"] = i THEN ChannelValues - 1 ELSE 0]

(* The root, then its children in order: the first whose colour it is.     *)
Pick(pixel) ==
  LET all == <<Root>> \o children
      match == {i \in DOMAIN all : Pixel(all[i]) = pixel}
  IN  IF match = {} THEN NULL ELSE all[CHOOSE i \in match : \A j \in match : i <= j]

ei_widget_pick == Pick(surface[mouse])

(* The widget drawn at a spot: of two of a colour, either.                 *)
ShownAt(s) == {w \in Live : Pixel(w) = surface[s]}

-----------------------------------------------------------------------------
Relieved(w, relief) == [widget EXCEPT ![w].relief = relief]

(* ei_handle_button_down, bound to the tag "button".                       *)
button_down(side) ==
  LET w == ei_widget_pick
  IN  /\ called' = NULL
      /\ IF w # NULL /\ side = "left" /\ Dispatched(w) = Name[ButtonClass]
         THEN /\ pressing_over' = TRUE
              /\ button_pressed' = w
              /\ widget' = Relieved(w, "sunken")
         ELSE UNCHANGED <<pressing_over, button_pressed, widget>>

(* Mutant: a release elsewhere is left for later.                          *)
button_up_elsewhere(side) ==
  LET w == ei_widget_pick
  IN  IF w # NULL /\ side = "left" /\ button_pressed = w
      THEN /\ button_pressed' = NULL
           /\ pressing_over' = FALSE
           /\ widget' = Relieved(w, "raised")
           /\ called' = w
      ELSE called' = NULL /\ UNCHANGED <<button_pressed, pressing_over, widget>>

(* ei_handle_button_up, bound to the tag "all".                            *)
button_up(side) ==
  LET w == ei_widget_pick
      over == w # NULL /\ side = "left"
      click == over /\ button_pressed = w
  IN  /\ button_pressed' = IF over THEN NULL ELSE button_pressed
      /\ pressing_over' = IF click THEN FALSE ELSE pressing_over
      /\ widget' = IF click THEN Relieved(w, "raised") ELSE widget
      /\ called' = IF click THEN w ELSE NULL

(* Mutant: bound to the tag "button".                                      *)
button_move_button(w) ==
  IF w # NULL /\ Dispatched(w) = Name[ButtonClass] /\ button_pressed # NULL
  THEN /\ called' = NULL
       /\ UNCHANGED button_pressed
       /\ widget' = Relieved(button_pressed, IF w = button_pressed THEN "sunken" ELSE "raised")
       /\ pressing_over' = (w = button_pressed)
  ELSE called' = NULL /\ UNCHANGED <<button_pressed, widget, pressing_over>>

(* ei_handle_button_move, bound to the tag "all", with w under the mouse.  *)
button_move(w) ==
  LET relief == widget[button_pressed].relief
      set(r, over) == widget' = Relieved(button_pressed, r) /\ pressing_over' = over
  IN  /\ called' = NULL
      /\ UNCHANGED button_pressed
      /\ CASE w # NULL /\ button_pressed # NULL /\ w # button_pressed /\ relief = "sunken" ->
                set("raised", FALSE)
           [] w # NULL /\ button_pressed # NULL /\ w = button_pressed /\ relief = "raised" ->
                set("sunken", TRUE)
           [] OTHER -> UNCHANGED <<widget, pressing_over>>

(* The left button of the mouse goes down and up in turn.                  *)
Down(side) ==
  /\ side = "left" => pressed = NULL
  /\ button_down(side)
  /\ pressed' \in IF side = "left" THEN ShownAt(mouse) ELSE {pressed}
  /\ blind' = (blind \/ shifted)
  /\ UNCHANGED <<registryVars, wid_id, children, surface, mouse, shifted, twice>>

Up(side) ==
  /\ side = "left" => pressed # NULL
  /\ button_up(side)
  /\ pressed' = IF side = "left" THEN NULL ELSE pressed
  /\ blind' = (blind \/ shifted)
  /\ UNCHANGED <<registryVars, wid_id, children, surface, mouse, shifted, twice>>

Move(s) ==
  /\ mouse' = s
  /\ button_move(Pick(surface[s]))
  /\ shifted' = FALSE
  /\ UNCHANGED <<registryVars, wid_id, children, surface, pressed, blind, twice>>

-----------------------------------------------------------------------------
(* The program.                                                            *)

(* Of a structure the program allocated, and that was not freed yet.       *)
ei_widgetclass_register(s) ==
  /\ s \notin freed /\ \A i \in DOMAIN LibraryClass : s # LibraryClass[i]
  /\ register(s)
  /\ twice' = (twice \/ \E i \in DOMAIN registered : registered[i] = s)
  /\ called' = NULL
  /\ UNCHANGED <<wid_id, widget, children, surface, mouse, animation, pressed, shifted, blind>>

(* A name nobody registered is followed as a null class: not modelled.     *)
(* The relief of a widget that is no button is left out.                   *)
ei_widget_create(name, relief) ==
  /\ wid_id <= MaxId /\ Len(children) < MaxChildren
  /\ from_name(name) # NULL
  /\ relief = "none" \/ name = Name[ButtonClass]
  /\ wid_id' = wid_id + 1
  /\ widget' = [w \in Live \cup {wid_id} |->
                  IF w = wid_id THEN [class |-> from_name(name), relief |-> relief] ELSE widget[w]]
  /\ children' = Append(children, wid_id)
  /\ called' = NULL
  /\ UNCHANGED <<registryVars, surface, mouse, animation, pressed, shifted, blind, twice>>

Shows(s, w) ==
  /\ surface' = [surface EXCEPT ![s] = Pixel(w)]
  /\ shifted' = (shifted \/ (s = mouse /\ surface[s] # Pixel(w)))

(* A widget is placed, or goes from, where another was.                    *)
Redraw(s, w) ==
  /\ Shows(s, w)
  /\ called' = NULL
  /\ UNCHANGED <<registryVars, wid_id, widget, children, mouse, animation, pressed, blind, twice>>

(* Mutant: its parent keeps it.                                            *)
ei_widget_destroy_linked(w) ==
  /\ w \notin {button_pressed, pressed}
  /\ \A s \in Spot : surface[s] # Pixel(w)
  /\ widget' = [v \in Live \ {w} |-> widget[v]]
  /\ called' = NULL
  /\ UNCHANGED <<registryVars, wid_id, children, surface, mouse, animation, pressed, shifted,
                 blind, twice>>

(* Of a widget that is on no spot and is not being pressed (the run        *)
(* gone_button of EventLoop is about one that is).                         *)
ei_widget_destroy(w) ==
  /\ w \notin {button_pressed, pressed}
  /\ \A s \in Spot : surface[s] # Pixel(w)
  /\ widget' = [v \in Live \ {w} |-> widget[v]]
  /\ \E i \in DOMAIN children : children[i] = w /\ children' = RemoveAt(children, i)
  /\ called' = NULL
  /\ UNCHANGED <<registryVars, wid_id, surface, mouse, animation, pressed, shifted, blind, twice>>

-----------------------------------------------------------------------------
(* What ei_frame_register_class and the two others leave: each puts its    *)
(* structure at the top.                                                   *)
LibraryRegistered == Reverse(LibraryClass)

(* ei_app_create: the root is the first widget.                            *)
Init ==
  /\ registered = LibraryRegistered /\ freed = {} /\ twice = FALSE
  /\ wid_id = 1
  /\ widget = [w \in {Root} |-> [class |-> RootClass, relief |-> "none"]]
  /\ children = <<>>
  /\ surface = [s \in Spot |-> Pixel(Root)]
  /\ mouse \in Spot
  /\ button_pressed = NULL /\ pressing_over = FALSE /\ called = NULL
  /\ pressed = NULL /\ shifted = FALSE /\ blind = FALSE

Next ==
  \/ \E side \in {"left", "right"} : Down(side) \/ Up(side)
  \/ \E s \in Spot : Move(s) \/ \E w \in Live : Redraw(s, w)
  \/ \E s \in Structure : ei_widgetclass_register(s)
  \/ \E name \in Created, relief \in {"none", "raised"} : ei_widget_create(name, relief)
  \/ \E w \in Live \ {Root} : ei_widget_destroy(w)

Spec == Init /\ [][Next]_vars

-----------------------------------------------------------------------------
TypeOK ==
  /\ registered \in Seq(Structure) /\ freed \subseteq Structure
  /\ wid_id \in 1 .. MaxId + 1 /\ Live \subseteq Id
  /\ \A w \in Live : widget[w].class \in Structure /\ widget[w].relief \in Relief
  /\ {children[i] : i \in DOMAIN children} = Live \ {Root}
  /\ {button_pressed, called} \subseteq Buttons \cup {NULL}
  /\ pressed \in Live \cup {NULL}

(* Identifiers that have not come round to a colour again.                 *)
Fresh == wid_id <= ChannelValues * ChannelValues * ChannelValues

(* The colour of a widget leads back to that widget, and no other's does,  *)
(* however many were created and destroyed before it, as long as fewer     *)
(* were created than there are colours.                                    *)
PickExact == Fresh => \A w \in Live : Pick(Pixel(w)) = w

(* A structure freed by a second registration of its name is no longer     *)
(* reached, from the list or from a widget, and the class of each widget   *)
(* is the one its name leads to, so that a callback bound to the tag of a  *)
(* class is given widgets of that class only; unless a structure was       *)
(* itself registered twice.                                                *)
ClassesLast ==
  ~twice =>
    /\ \A i \in DOMAIN registered : registered[i] \notin freed
    /\ \A w \in Live : widget[w].class \notin freed /\ from_name(Dispatched(w)) = widget[w].class

(* A button is drawn sunken only while it is pressed with the mouse over   *)
(* it, whatever buttons of the mouse went down and up, over which widgets, *)
(* provided none did after what the mouse shows changed under it.          *)
SunkenIsPressed ==
  Fresh /\ ~blind =>
    \A w \in Live : widget[w].relief = "sunken" =>
      button_pressed = w /\ pressing_over /\ (shifted \/ Pixel(w) = surface[mouse])

(* A callback is called by a release over the widget the press was made    *)
(* over, and each such release over a button calls it, whatever the mouse  *)
(* moved over in between.                                                  *)
Click ==
  [][Fresh =>
       \A w \in Buttons : \A side \in {"left", "right"} :
         /\ (called' = w /\ called' # called) => pressed = w /\ Pixel(w) = surface[mouse]
         /\ (pressed = w /\ pressed' = NULL /\ Pixel(w) = surface[mouse]) => called' = w]_vars

=============================================================================
