----------------------------- MODULE Attributes -----------------------------
(***************************************************************************)
(* The attributes of one widget, of any class, from its allocation to its  *)
(* release: pointers to cells that the defaults, the configure functions   *)
(* and geomnotifyfunc allocate, replace, share and drop, and that the      *)
(* release function frees.  What the pointers lead to is followed for each *)
(* of them, the values of the attributes only as given by the program or   *)
(* not, for those in Watched.                                              *)
(*                                                                         *)
(* A step is a call.  The arguments of a configure function are a function *)
(* on those that are not NULL; "null" is an argument that leads to a null  *)
(* pointer.  W is the widget as a call changes it, statement by statement. *)
(***************************************************************************)
EXTENDS Naturals, FiniteSetsExt

CONSTANTS
  Watched,  \* attributes whose values are followed
  MaxArgs   \* bound: arguments given in one call of a configure function

ASSUME ArgsAssumption == MaxArgs \in Nat

Class == {"frame", "button", "toplevel"}

(* The attributes that have a cell as soon as they have a default value.   *)
Common == {"border_width", "color", "relief", "text_font", "text_color", "text_anchor",
           "img_anchor"}
Plain(c) ==
  CASE c = "frame"    -> Common
    [] c = "button"   -> Common \cup {"corner_radius"}
    [] c = "toplevel" -> {"border_width", "color", "closable", "resizable", "min_size",
                          "title", "title_font", "draw_rect"}

(* Those that stay null until they are given, and the content_rect.        *)
Optional(c) ==
  CASE c = "frame"    -> {"text", "img", "img_rect"}
    [] c = "button"   -> {"text", "img", "img_rect", "callback", "user_param"}
    [] c = "toplevel" -> {}

Attribute == {"content_rect"} \cup UNION {Plain(c) \cup Optional(c) : c \in Class}

VARIABLES
  life,      \* unborn, live, released; exited: the program ended in a call
  w,         \* class, cells, ... of the widget; see Blank
  managed,   \* whether geom_params is set
  discarded, \* what the program has freed of its own: "string", "surface"
  tidy       \* history: the program has kept its obligations (Tidy)

vars == <<life, w, managed, discarded, tidy>>

-----------------------------------------------------------------------------
(* Statements.  A cell is null, the widget's own, or freed with the pointer*)
(* left on it; content_rect may lead to the screen_location.               *)
Cell == {"null", "own", "freed", "screen"}

Alloc(W, a) == [W EXCEPT !.cell[a] = "own", !.leaked = @ \/ W.cell[a] = "own"]
Ensure(W, a) == IF W.cell[a] = "null" THEN Alloc(W, a) ELSE W
Free(W, a) == [W EXCEPT !.cell[a] = "freed"]
(* Mutant: what is dropped still leads to the program's memory.            *)
Drop_lends(W, a) ==
  [W EXCEPT !.cell[a] = "null", !.leaked = @ \/ W.cell[a] = "own", !.given = @ \ {a}]

Drop(W, a) == [W EXCEPT !.cell[a] = "null", !.leaked = @ \/ W.cell[a] = "own",
                        !.given = @ \ {a}, !.shared = @ \ {a}]

(* Writing a value of the program through the pointer.                     *)
Store(W, a) == [W EXCEPT !.given = @ \cup ({a} \cap Watched),
                         !.fault = IF W.cell[a] = "own" THEN @ ELSE "bad_write"]

(* calloc: every field is null.                                            *)
Blank(c) ==
  [class |-> c, cell |-> [a \in Attribute |-> "null"], border |-> "zero",
   requested |-> "zero",  \* zero, default, natural (of the text or image), given
   given |-> {},          \* watched attributes whose value is the program's
   shared |-> {},         \* attributes that lead to memory of the program
   leaked |-> FALSE, fault |-> "none"]

(* setdefaultsfunc: text and img, null already, are set to null.           *)
Defaults(W, border) ==
  [W EXCEPT !.cell = [a \in Attribute |-> CASE a \in Plain(W.class)  -> "own"
                                            [] a = "content_rect"    -> "screen"
                                            [] OTHER                 -> "null"],
            !.border = border]

(* Mutant: the colour of a text waits for a text.                          *)
setdefaultsframe_late(W) == [Defaults(W, "zero") EXCEPT !.cell["text_color"] = "null"]

setdefaultsframe(W) == Defaults(W, "zero")

setdefaultsbutton(W) == Defaults(W, "some")
setdefaultstoplevel(W) == Defaults(W, "some")

(* geomnotifyfunc, as far as content_rect is concerned.                    *)
InsideBorder(W) ==
  IF W.border = "some" /\ W.cell["content_rect"] = "screen" THEN Alloc(W, "content_rect") ELSE W

geomnotifyframe(W) == InsideBorder(W)
geomnotifybutton(W) ==
  IF W.border = "some" THEN InsideBorder(W)
  ELSE [Drop(W, "content_rect") EXCEPT !.cell["content_rect"] = "screen"]
geomnotifytoplevel(W) ==
  IF W.cell["content_rect"] # "own" THEN Alloc(W, "content_rect") ELSE W

geomnotify(W) ==
  CASE W.class = "frame"    -> geomnotifyframe(W)
    [] W.class = "button"   -> geomnotifybutton(W)
    [] W.class = "toplevel" -> geomnotifytoplevel(W)

(* The pointers a release function frees.                                  *)
Held(W) == {a \in Attribute : W.cell[a] \in {"own", "freed"}}
Freed(W, S) ==
  [W EXCEPT !.cell = [a \in Attribute |-> IF a \in S THEN "freed" ELSE W.cell[a]],
            !.fault = IF \E a \in S : W.cell[a] = "freed" THEN "double_free" ELSE @]

(* Mutant: a content_rect is taken for the screen_location.                *)
releaseframe_keepsContent(W) == Freed(W, Held(W) \ {"content_rect"})

(* The color is freed if there is a relief.                                *)
releaseframe(W) == Freed(W, {a \in Held(W) : a = "color" => W.cell["relief"] # "null"})

releasebutton(W) == Freed(W, Held(W))
releasetoplevel(W) == Freed(W, Held(W))

release(W) ==
  CASE W.class = "frame"    -> releaseframe(W)
    [] W.class = "button"   -> releasebutton(W)
    [] W.class = "toplevel" -> releasetoplevel(W)

-----------------------------------------------------------------------------
(* The configure functions.                                                *)
Values(a) ==
  CASE a = "border_width"                -> {"zero", "some"}
    [] a \in {"text", "img", "min_size"} -> {"null", "some"}
    [] OTHER                             -> {"some"}

Arguments(c) ==
  (((Plain(c) \cap Watched) \cup Optional(c)) \ {"title_font", "draw_rect"})
    \cup {"requested_size", "border_width"}

Args(c) ==
  {args \in UNION {[D -> {"null", "zero", "some"}] :
                     D \in UNION {kSubset(k, Arguments(c)) : k \in 0 .. MaxArgs}} :
     \A a \in DOMAIN args : args[a] \in Values(a)}

Gives(args, a, v) == a \in DOMAIN args /\ args[a] = v

(* Mutant: what is not given goes back to its default value.               *)
ConfigurePlain_resets(W, args) ==
  LET written == Plain(W.class) \cap DOMAIN args
  IN  [W EXCEPT !.given = (@ \ Plain(W.class)) \cup (written \cap Watched),
                !.border = IF "border_width" \in DOMAIN args THEN args["border_width"] ELSE @]

(* Attributes with a default value: written if given, else allocated with  *)
(* the default if there is no cell yet.                                    *)
ConfigurePlain(W, args) ==
  LET written == Plain(W.class) \cap DOMAIN args
  IN  [W EXCEPT !.cell = [a \in Attribute |->
                            IF a \in Plain(W.class) \ written /\ W.cell[a] = "null"
                            THEN "own" ELSE W.cell[a]],
                !.given = @ \cup (written \cap Watched),
                !.border = IF "border_width" \in DOMAIN args THEN args["border_width"] ELSE @,
                !.fault = IF \A a \in written : W.cell[a] = "own" THEN @ ELSE "bad_write"]

(* The size of frames and buttons does not outlive the call.               *)
ConfigureSize(W, args) ==
  [W EXCEPT !.requested =
     CASE "requested_size" \in DOMAIN args -> "given"
       [] "requested_size" \notin DOMAIN args
            /\ (Gives(args, "text", "some") \/ Gives(args, "img", "some")) -> "natural"
       [] OTHER -> "zero"]

(* A border width given when content_rect has a cell: it gets another one. *)
ConfigureContent(W, args) ==
  IF "border_width" \in DOMAIN args /\ W.cell["content_rect"] # "screen"
  THEN Alloc(W, "content_rect") ELSE W

(* Mutant: the cell of the text that is replaced is not freed.             *)
ConfigureText_keeps(W, args) ==
  CASE "text" \notin DOMAIN args -> W
    [] Gives(args, "text", "null") -> Drop(Drop(W, "text"), "img")
    [] Gives(args, "text", "some") -> Drop(Store(Alloc(W, "text"), "text"), "img")

(* The text is copied.                                                     *)
ConfigureText(W, args) ==
  CASE "text" \notin DOMAIN args -> W
    [] Gives(args, "text", "null") -> Drop(Drop(W, "text"), "img")
    [] Gives(args, "text", "some") ->
         LET emptied == IF W.cell["text"] = "null" THEN W ELSE Free(W, "text")
         IN  Drop(Store(Alloc(emptied, "text"), "text"), "img")

(* The image, and the part of it shown, of which the cell is kept for the  *)
(* next image.                                                             *)
ConfigureRect(W, args) ==
  IF "img_rect" \in DOMAIN args THEN Store(Ensure(W, "img_rect"), "img_rect") ELSE W

ConfigureImage(W, args, stored) ==
  CASE "img" \notin DOMAIN args -> W
    [] Gives(args, "img", "null") -> Drop(Drop(W, "img"), "text")
    [] Gives(args, "img", "some") -> Drop(ConfigureRect(stored, args), "text")

(* A frame shows the surface of the program, a button a copy of its own.   *)
FrameImage(W) == [Store(Ensure(W, "img"), "img") EXCEPT !.shared = @ \cup {"img"}]

(* Mutant: a button shows the surface it is given.                         *)
ButtonImage_shared(W) == FrameImage(W)

(* The cell of an image already there is freed and written to.             *)
ButtonImage(W) ==
  LET placed == IF W.cell["img"] # "null" THEN Free(W, "img") ELSE Alloc(W, "img")
  IN  Store(placed, "img")

ei_frame_configure(W, args) ==
  LET plain == ConfigureContent(ConfigurePlain(ConfigureSize(W, args), args), args)
  IN  ConfigureImage(ConfigureText(plain, args), args, FrameImage(plain))

(* Each callback and parameter given gets a new cell.                      *)
ConfigureCallback(W, args) ==
  LET stored(V, a) == IF a \in DOMAIN args THEN Store(Alloc(V, a), a) ELSE V
  IN  stored(stored(W, "callback"), "user_param")

ei_button_configure(W, args) ==
  LET plain == ConfigureContent(ConfigurePlain(ConfigureSize(W, args), args), args)
      image == ConfigureImage(ConfigureText(plain, args), args, ButtonImage(plain))
  IN  ConfigureCallback(image, args)

(* The title is the program's string, not a copy; the size goes back to    *)
(* its default when not given, and a min_size that is null is followed.    *)
ei_toplevel_configure(W, args) ==
  LET sized == [W EXCEPT !.requested = IF "requested_size" \in DOMAIN args THEN "given"
                                       ELSE "default"]
      plain == ConfigurePlain(sized, args)
      titled == IF "title" \notin DOMAIN args THEN plain
                ELSE [Store(Alloc(Free(plain, "title"), "title"), "title")
                        EXCEPT !.shared = @ \cup {"title"}]
  IN  IF Gives(args, "min_size", "null") THEN [titled EXCEPT !.fault = "null_read"] ELSE titled

configured(W, args) ==
  CASE W.class = "frame"    -> ei_frame_configure(W, args)
    [] W.class = "button"   -> ei_button_configure(W, args)
    [] W.class = "toplevel" -> ei_toplevel_configure(W, args)

-----------------------------------------------------------------------------
(* What the program has to see to: a text or an image is not taken away or *)
(* replaced by the other, nor that of a button by another image; a border  *)
(* is not set once the widget has been laid out inside one; a callback is  *)
(* given once; there is a minimum size in min_size; what a widget shares   *)
(* with the program is not freed.                                          *)
Tidy(W, args) ==
  /\ ~Gives(args, "min_size", "null")
  /\ \A a \in {"callback", "user_param"} \cap DOMAIN args : W.cell[a] = "null"
  /\ W.class # "toplevel" /\ "border_width" \in DOMAIN args => W.cell["content_rect"] = "screen"
  /\ "text" \in DOMAIN args => /\ W.cell["img"] = "null" /\ "img" \notin DOMAIN args
                               /\ args["text"] = "null" => W.cell["text"] = "null"
  /\ "img" \in DOMAIN args => /\ W.cell["text"] = "null"
                              /\ W.class = "button" \/ args["img"] = "null" => W.cell["img"] = "null"

(* A toplevel keeps the title it is given, a frame the surface; the text of*)
(* a frame or button and the surface of a button are the program's to free.*)
Lent(W, m) ==
  \/ m = "string" /\ W.class = "toplevel" /\ "title" \in W.shared
  \/ m = "surface" /\ W.class = "frame" /\ W.cell["img"] = "own"

Memory(a) == IF a = "title" THEN "string" ELSE "surface"

Init ==
  /\ life = "unborn"
  /\ w \in {Blank(c) : c \in Class}
  /\ managed = FALSE /\ discarded = {} /\ tidy = TRUE

Runs == life = "live" /\ w.fault = "none"

(* allocfunc and setdefaultsfunc.                                          *)
ei_widget_create ==
  /\ life = "unborn"
  /\ life' = "live"
  /\ w' = CASE w.class = "frame"    -> setdefaultsframe(w)
            [] w.class = "button"   -> setdefaultsbutton(w)
            [] w.class = "toplevel" -> setdefaultstoplevel(w)
  /\ UNCHANGED <<managed, discarded, tidy>>

(* A managed widget is placed again and, if that moves it, notified.       *)
configure(args) ==
  /\ Runs /\ ~{"text", "img"} \subseteq DOMAIN args
  /\ \A a \in {"title", "img"} : Gives(args, a, "some") => Memory(a) \notin discarded
  /\ \/ w' = configured(w, args)
     \/ managed /\ w' = geomnotify(configured(w, args))
  /\ tidy' = (tidy /\ Tidy(w, args))
  /\ UNCHANGED <<life, managed, discarded>>

(* A text and an image: the program ends.                                  *)
configure_both(args) ==
  /\ Runs /\ {"text", "img"} \subseteq DOMAIN args
  /\ life' = "exited" /\ tidy' = FALSE
  /\ UNCHANGED <<w, managed, discarded>>

(* ei_place, or the placing again of a parent, with or without a move.     *)
ei_place ==
  /\ Runs
  /\ managed' = TRUE
  /\ w' \in {w, geomnotify(w)}
  /\ UNCHANGED <<life, discarded, tidy>>

ei_geometrymanager_unmap ==
  /\ Runs /\ managed
  /\ managed' = FALSE
  /\ UNCHANGED <<life, w, discarded, tidy>>

ei_widget_destroy ==
  /\ Runs
  /\ life' = "released" /\ managed' = FALSE
  /\ w' = release(w)
  /\ UNCHANGED <<discarded, tidy>>

(* The program frees a string or a surface of its own.                     *)
Discard(m) ==
  /\ Runs /\ m \notin discarded
  /\ discarded' = discarded \cup {m}
  /\ tidy' = (tidy /\ ~Lent(w, m))
  /\ UNCHANGED <<life, w, managed>>

Next ==
  \/ ei_widget_create
  \/ \E args \in Args(w.class) : configure(args) \/ configure_both(args)
  \/ ei_place
  \/ ei_geometrymanager_unmap
  \/ ei_widget_destroy
  \/ \E m \in {"string", "surface"} : Discard(m)
  \/ ~Runs /\ life # "unborn" /\ UNCHANGED vars

Spec == Init /\ [][Next]_vars

-----------------------------------------------------------------------------

TypeOK ==
  /\ life \in {"unborn", "live", "released", "exited"}
  /\ w.class \in Class /\ w.cell \in [Attribute -> Cell]
  /\ w.border \in {"zero", "some"}
  /\ w.requested \in {"zero", "default", "natural", "given"}
  /\ w.given \subseteq Watched \cap (Plain(w.class) \cup Optional(w.class))
  /\ w.shared \subseteq {a \in {"title", "img"} : w.cell[a] # "null"}
  /\ w.leaked \in BOOLEAN
  /\ w.fault \in {"none", "bad_write", "null_read", "double_free"}
  /\ {managed, tidy} \subseteq BOOLEAN /\ discarded \subseteq {"string", "surface"}

(* A program that keeps its obligations loses no cell, never has the       *)
(* library use one that is freed or null, and is not ended by it, however  *)
(* often it configures, places and removes the widget.                     *)
TidyIsSafe == tidy => ~w.leaked /\ w.fault = "none" /\ life # "exited"

(* What the draw functions read without a test is there: each attribute    *)
(* with a default value, and content_rect; and at most one of text and     *)
(* image, which none of them asks about together.                          *)
Drawable ==
  life = "live" /\ w.fault = "none" =>
    /\ \A a \in Plain(w.class) : w.cell[a] = "own"
    /\ \A a \in Optional(w.class) : w.cell[a] \in {"null", "own"}
    /\ w.cell["content_rect"] \in {"own", "screen"}
    /\ "null" \in {w.cell["text"], w.cell["img"]}

(* A release frees every cell the widget still has, each once, whatever    *)
(* calls came before it.                                                   *)
ReleasedWhole ==
  life = "released" => w.fault = "none" /\ \A a \in Attribute : w.cell[a] # "own"

(* An attribute given by the program keeps its value: "if the parameter is *)
(* NULL but was defined on a previous call, then its value must not be     *)
(* changed" (ei_widget.h); but a text or an image makes way for the other. *)
GivenStays ==
  [][\A a \in w.given \ w'.given : a \in {"text", "img"} /\ w'.cell[a] = "null"]_vars

(* A widget never shows memory its program has freed, although programs    *)
(* free the surface of a button and the text of a frame as soon as they    *)
(* have been configured (puzzle.c).                                        *)
ShownIsLive ==
  tidy /\ life = "live" => \A a \in w.shared : Memory(a) \notin discarded

=============================================================================
