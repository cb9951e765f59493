-------------------------- MODULE Attributes_proofs --------------------------
(***************************************************************************)
(* Proofs about Attributes, for any choice of the attributes whose values  *)
(* are followed and any number of arguments in a call.                     *)
(***************************************************************************)
EXTENDS Attributes, TLAPS

Widgets ==
  [class : Class, cell : [Attribute -> Cell], border : {"zero", "some"},
   requested : {"zero", "default", "natural", "given"},
   given : SUBSET Watched, shared : SUBSET {"title", "img"},
   leaked : BOOLEAN, fault : {"none", "bad_write", "null_read", "double_free"}]

(* The names there are.                                                    *)
LEMMA AttributeIs ==
  Attribute = Common \cup {"corner_radius", "closable", "resizable", "min_size", "title",
                           "title_font", "draw_rect", "text", "img", "img_rect", "callback",
                           "user_param", "content_rect"}
<1>1. \A a : a \in Attribute <=> \/ a = "content_rect"
                               \/ \E c \in Class : a \in Plain(c) \/ a \in Optional(c)
  BY DEF Attribute
<1>2. /\ Plain("frame") = Common /\ Plain("button") = Common \cup {"corner_radius"}
      /\ Plain("toplevel") = {"border_width", "color", "closable", "resizable", "min_size",
                              "title", "title_font", "draw_rect"}
  BY DEF Plain
<1>3. /\ Optional("frame") = {"text", "img", "img_rect"}
      /\ Optional("button") = {"text", "img", "img_rect", "callback", "user_param"}
      /\ Optional("toplevel") = {}
  BY DEF Optional
<1>4. {"border_width", "color"} \subseteq Common
  BY DEF Common
<1> DEFINE Rest == {"corner_radius", "closable", "resizable", "min_size", "title",
                    "title_font", "draw_rect", "text", "img", "img_rect", "callback",
                    "user_param", "content_rect"}
<1>5. Attribute \subseteq Common \cup Rest
  <2>1. /\ Plain("frame") \subseteq Common \cup Rest /\ Plain("button") \subseteq Common \cup Rest
        /\ Optional("frame") \subseteq Rest /\ Optional("button") \subseteq Rest
        /\ Optional("toplevel") \subseteq Rest
    BY <1>2, <1>3
  <2>2. Plain("toplevel") \subseteq Common \cup Rest
    BY <1>2, <1>4
  <2>3. "content_rect" \in Rest
    OBVIOUS
  <2> HIDE DEF Rest
  <2> QED BY <1>1, <2>1, <2>2, <2>3 DEF Class
<1>6. Common \cup Rest \subseteq Attribute
  <2>1. Rest \subseteq Plain("button") \cup Plain("toplevel") \cup Optional("button")
                        \cup {"content_rect"}
    BY <1>2, <1>3
  <2>2. Common = Plain("frame")
    BY <1>2
  <2> HIDE DEF Rest
  <2> QED BY <1>1, <2>1, <2>2 DEF Class
<1> QED BY <1>5, <1>6

LEMMA Names ==
  ASSUME NEW c \in Class
  PROVE  /\ Plain(c) \subseteq Attribute /\ Optional(c) \subseteq Attribute
         /\ Plain(c) \cap Optional(c) = {}
         /\ "content_rect" \in Attribute \ (Plain(c) \cup Optional(c))
         /\ {"text", "img", "img_rect", "callback", "user_param", "title"} \subseteq Attribute
         /\ {"text", "img", "img_rect", "callback", "user_param"} \cap Plain(c) = {}
         /\ c # "toplevel" => {"text", "img", "img_rect"} \subseteq Optional(c)
         /\ c = "toplevel" => Optional(c) = {}
         /\ "title" \in Plain(c) <=> c = "toplevel"
         /\ "title" \notin Optional(c)
         /\ c = "button" => {"callback", "user_param"} \subseteq Optional(c)
         /\ c = "frame" => {"color", "relief"} \subseteq Plain(c)
<1>1. Plain(c) \subseteq Attribute /\ Optional(c) \subseteq Attribute
  BY DEF Attribute
<1>2. {"text", "img", "img_rect", "callback", "user_param", "title", "content_rect"}
        \subseteq Attribute
  BY AttributeIs
<1>3. c \in {"frame", "button", "toplevel"}
  BY DEF Class
<1>4. Optional(c) = CASE c = "frame"    -> {"text", "img", "img_rect"}
                     [] c = "button"   -> {"text", "img", "img_rect", "callback", "user_param"}
                     [] c = "toplevel" -> {}
  BY DEF Optional
<1>5. /\ {"text", "img", "img_rect", "callback", "user_param", "content_rect"} \cap Plain(c) = {}
      /\ "title" \in Plain(c) <=> c = "toplevel"
      /\ c = "frame" => {"color", "relief"} \subseteq Plain(c)
  BY <1>3 DEF Plain, Common
<1>6. /\ c # "toplevel" => {"text", "img", "img_rect"} \subseteq Optional(c)
      /\ c = "toplevel" => Optional(c) = {}
      /\ "title" \notin Optional(c) /\ "content_rect" \notin Optional(c)
      /\ c = "button" => {"callback", "user_param"} \subseteq Optional(c)
      /\ Optional(c) \subseteq {"text", "img", "img_rect", "callback", "user_param"}
  BY <1>3, <1>4
<1>7. Plain(c) \cap Optional(c) = {}
  BY <1>5, <1>6
<1> QED BY <1>1, <1>2, <1>5, <1>6, <1>7

LEMMA ArgsAre ==
  ASSUME NEW c \in Class, NEW args \in Args(c)
  PROVE  /\ DOMAIN args \subseteq Arguments(c)
         /\ \A a \in DOMAIN args : args[a] \in Values(a)
         /\ "border_width" \in DOMAIN args => args["border_width"] \in {"zero", "some"}
         /\ \A a \in {"text", "img"} \cap DOMAIN args : args[a] \in {"null", "some"}
         /\ \A a \in {"text", "img"} : a \in DOMAIN args => c # "toplevel"
<1>1. PICK D \in UNION {kSubset(k, Arguments(c)) : k \in 0 .. MaxArgs} :
          args \in [D -> {"null", "zero", "some"}]
  BY DEF Args
<1>2. D \subseteq Arguments(c)
  BY DEF kSubset
<1>3. \A a \in DOMAIN args : args[a] \in Values(a)
  BY DEF Args
<1>4. \A a \in {"text", "img"} : a \in Arguments(c) => c # "toplevel"
  BY DEF Arguments, Plain, Optional, Class
<1> QED BY <1>1, <1>2, <1>3, <1>4 DEF Values

-----------------------------------------------------------------------------
(* The statements.                                                         *)
LEMMA AllocIs ==
  ASSUME NEW W \in Widgets, NEW a \in Attribute
  PROVE  LET V == Alloc(W, a)
         IN  /\ V \in Widgets /\ V.class = W.class
             /\ V.cell[a] = "own" /\ \A b \in Attribute \ {a} : V.cell[b] = W.cell[b]
             /\ V.border = W.border /\ V.requested = W.requested
             /\ V.given = W.given /\ V.shared = W.shared /\ V.fault = W.fault
             /\ V.leaked = (W.leaked \/ W.cell[a] = "own")
BY DEF Alloc, Widgets, Cell

LEMMA FreeIs ==
  ASSUME NEW W \in Widgets, NEW a \in Attribute
  PROVE  LET V == Free(W, a)
         IN  /\ V \in Widgets /\ V.class = W.class
             /\ V.cell[a] = "freed" /\ \A b \in Attribute \ {a} : V.cell[b] = W.cell[b]
             /\ V.border = W.border /\ V.requested = W.requested
             /\ V.given = W.given /\ V.shared = W.shared /\ V.fault = W.fault
             /\ V.leaked = W.leaked
BY DEF Free, Widgets, Cell

LEMMA DropIs ==
  ASSUME NEW W \in Widgets, NEW a \in Attribute
  PROVE  LET V == Drop(W, a)
         IN  /\ V \in Widgets /\ V.class = W.class
             /\ V.cell[a] = "null" /\ \A b \in Attribute \ {a} : V.cell[b] = W.cell[b]
             /\ V.border = W.border /\ V.requested = W.requested
             /\ V.given \subseteq W.given /\ W.given \ {a} \subseteq V.given
             /\ V.shared \subseteq W.shared /\ a \notin V.shared /\ V.fault = W.fault
             /\ V.leaked = (W.leaked \/ W.cell[a] = "own")
BY DEF Drop, Widgets, Cell

LEMMA StoreIs ==
  ASSUME NEW W \in Widgets, NEW a \in Attribute
  PROVE  LET V == Store(W, a)
         IN  /\ V \in Widgets /\ V.class = W.class /\ V.cell = W.cell
             /\ V.border = W.border /\ V.requested = W.requested
             /\ W.given \subseteq V.given /\ V.given \subseteq W.given \cup {a}
             /\ V.shared = W.shared
             /\ V.fault = (IF W.cell[a] = "own" THEN W.fault ELSE "bad_write")
             /\ V.leaked = W.leaked
BY DEF Store, Widgets

LEMMA EnsureIs ==
  ASSUME NEW W \in Widgets, NEW a \in Attribute
  PROVE  LET V == Ensure(W, a)
         IN  /\ V \in Widgets /\ V.class = W.class
             /\ V.cell[a] = (IF W.cell[a] = "null" THEN "own" ELSE W.cell[a])
             /\ \A b \in Attribute \ {a} : V.cell[b] = W.cell[b]
             /\ V.border = W.border /\ V.requested = W.requested
             /\ V.given = W.given /\ V.shared = W.shared /\ V.fault = W.fault
             /\ V.leaked = W.leaked
<1>1. CASE W.cell[a] = "null"
  BY <1>1, AllocIs DEF Ensure, Widgets
<1>2. CASE W.cell[a] # "null"
  BY <1>2 DEF Ensure
<1> QED BY <1>1, <1>2


-----------------------------------------------------------------------------
(* What a configure function, a notification and a release can rely on.    *)

(* The pointers of a widget that nothing has gone wrong with.              *)
Whole(W) ==
  /\ \A a \in Plain(W.class) : W.cell[a] = "own"
  /\ \A a \in Optional(W.class) : W.cell[a] \in {"null", "own"}
  /\ W.cell["content_rect"] \in {"own", "screen"}
  /\ \A a \in Attribute \ (Plain(W.class) \cup Optional(W.class) \cup {"content_rect"}) :
       W.cell[a] = "null"
  /\ "null" \in {W.cell["text"], W.cell["img"]}

(* What is given or shared is an attribute of the class, and has a cell if *)
(* it leads to the program's memory.                                       *)
Sound(W) ==
  /\ W \in Widgets
  /\ W.given \subseteq Plain(W.class) \cup Optional(W.class)
  /\ \A a \in W.shared : W.cell[a] # "null"
  /\ "title" \in W.shared => W.class = "toplevel"
  /\ "img" \in W.shared => W.class = "frame"

(* Nothing lost, nothing misused; and no border, no cell for content_rect, *)
(* which is what keeps a later notification from losing one.               *)
Clean(W) ==
  /\ ~W.leaked /\ W.fault = "none"
  /\ W.class # "toplevel" /\ W.border = "zero" => W.cell["content_rect"] = "screen"

Inv ==
  /\ Sound(w)
  /\ life \in {"unborn", "live", "released", "exited"}
  /\ managed \in BOOLEAN /\ tidy \in BOOLEAN /\ discarded \subseteq {"string", "surface"}
  /\ life = "unborn" => w = Blank(w.class)
  /\ life = "live" /\ w.fault = "none" => Whole(w)
  /\ life = "live" /\ tidy => Clean(w)
  /\ life = "released" => w.fault = "none" /\ \A a \in Attribute : w.cell[a] # "own"
  /\ tidy => ~w.leaked /\ w.fault = "none" /\ life # "exited"
  /\ tidy /\ life = "live" => \A a \in w.shared : Memory(a) \notin discarded


(* A widget stays sound when only attributes of its class are given, and   *)
(* nothing more is shared; and whole when only its optional cells change.  *)
LEMMA StaysSound ==
  ASSUME NEW W, NEW V \in Widgets, Sound(W), V.class = W.class,
         V.given \subseteq W.given \cup Plain(W.class) \cup Optional(W.class),
         V.shared \subseteq W.shared,
         \A a \in V.shared : V.cell[a] = W.cell[a] \/ V.cell[a] # "null"
  PROVE  Sound(V)
<1>1. \A a \in V.shared : V.cell[a] # "null"
  BY DEF Sound
<1>2. V.given \subseteq Plain(V.class) \cup Optional(V.class)
  BY DEF Sound
<1> QED BY <1>1, <1>2 DEF Sound

LEMMA StaysWhole ==
  ASSUME NEW W \in Widgets, NEW V, Whole(W), V.class = W.class,
         \A a \in Attribute \ Optional(W.class) : V.cell[a] = W.cell[a],
         \A a \in Optional(W.class) : V.cell[a] \in {"null", "own"},
         V.cell["text"] = "null" \/ V.cell["img"] = "null"
  PROVE  Whole(V)
<1>1. W.class \in Class
  BY DEF Widgets
<1>2. \A a \in Plain(W.class) : V.cell[a] = "own"
  BY <1>1, Names DEF Whole
<1>3. V.cell["content_rect"] \in {"own", "screen"}
  BY <1>1, Names DEF Whole
<1>4. \A a \in Attribute \ (Plain(V.class) \cup Optional(V.class) \cup {"content_rect"}) :
        V.cell[a] = "null"
  BY DEF Whole
<1>5. "null" \in {V.cell["text"], V.cell["img"]}
  OBVIOUS
<1> QED BY <1>2, <1>3, <1>4, <1>5 DEF Whole

-----------------------------------------------------------------------------
(* The configure functions, a part at a time.                              *)

LEMMA SizeIs ==
  ASSUME NEW W \in Widgets, NEW args
  PROVE  LET V == ConfigureSize(W, args)
         IN  /\ V \in Widgets /\ V.class = W.class /\ V.cell = W.cell
             /\ V.border = W.border /\ V.given = W.given /\ V.shared = W.shared
             /\ V.leaked = W.leaked /\ V.fault = W.fault
<1> DEFINE r == CASE "requested_size" \in DOMAIN args -> "given"
                  [] "requested_size" \notin DOMAIN args
                       /\ (Gives(args, "text", "some") \/ Gives(args, "img", "some")) -> "natural"
                  [] OTHER -> "zero"
<1>1. r \in {"zero", "default", "natural", "given"}
  OBVIOUS
<1>2. ConfigureSize(W, args) = [W EXCEPT !.requested = r]
  BY DEF ConfigureSize
<1> HIDE DEF r
<1> QED BY <1>1, <1>2 DEF Widgets

(* No cell changes, as those of the attributes with a default are there.   *)
LEMMA PlainIs ==
  ASSUME NEW W \in Widgets, Sound(W), Whole(W), W.fault = "none",
         NEW args \in Args(W.class)
  PROVE  LET V == ConfigurePlain(W, args)
         IN  /\ V \in Widgets /\ V.class = W.class /\ V.cell = W.cell
             /\ V.border = IF "border_width" \in DOMAIN args THEN args["border_width"]
                           ELSE W.border
             /\ W.given \subseteq V.given
             /\ V.given \subseteq W.given \cup Plain(W.class)
             /\ V.shared = W.shared /\ V.leaked = W.leaked /\ V.fault = "none"
<1> DEFINE written == Plain(W.class) \cap DOMAIN args
           cells == [a \in Attribute |-> IF a \in Plain(W.class) \ written /\ W.cell[a] = "null"
                                         THEN "own" ELSE W.cell[a]]
           border == IF "border_width" \in DOMAIN args THEN args["border_width"] ELSE W.border
           given == W.given \cup (written \cap Watched)
           fault == IF \A a \in written : W.cell[a] = "own" THEN W.fault ELSE "bad_write"
<1>1. W.class \in Class /\ W.cell \in [Attribute -> Cell] /\ W.given \in SUBSET Watched
  BY DEF Widgets
<1>2. ConfigurePlain(W, args) = [W EXCEPT !.cell = cells, !.given = given, !.border = border,
                                          !.fault = fault]
  BY DEF ConfigurePlain, Widgets
<1>3. cells = W.cell
  BY <1>1 DEF Whole
<1>4. fault = "none"
  BY DEF Whole
<1>5. border \in {"zero", "some"}
  BY <1>1, ArgsAre DEF Widgets
<1>6. given \in SUBSET Watched
  BY <1>1
<1>7. W.given \subseteq given /\ given \subseteq W.given \cup Plain(W.class)
  OBVIOUS
<1> HIDE DEF cells, border, given, fault
<1>8. LET V == ConfigurePlain(W, args)
      IN  /\ V \in Widgets /\ V.class = W.class /\ V.cell = W.cell
          /\ V.border = border /\ V.given = given
          /\ V.shared = W.shared /\ V.leaked = W.leaked /\ V.fault = "none"
  BY <1>2, <1>3, <1>4, <1>5, <1>6 DEF Widgets
<1> QED BY <1>7, <1>8 DEF border

(* What is left to configure after the plain attributes of a frame or      *)
(* button: V is W with other values, and perhaps a cell for content_rect.  *)
Plained(W, V, args) ==
  /\ V.class = W.class /\ Sound(V) /\ Whole(V) /\ V.fault = "none"
  /\ \A a \in Attribute \ {"content_rect"} : V.cell[a] = W.cell[a]
  /\ W.given \subseteq V.given /\ V.shared = W.shared
  /\ Clean(W) /\ Tidy(W, args) => Clean(V)

LEMMA PlainedIs ==
  ASSUME NEW W \in Widgets, Sound(W), Whole(W), W.fault = "none", W.class # "toplevel",
         NEW args \in Args(W.class)
  PROVE  Plained(W, ConfigureContent(ConfigurePlain(ConfigureSize(W, args), args), args), args)
<1> DEFINE S == ConfigureSize(W, args)
           P == ConfigurePlain(S, args)
           V == ConfigureContent(P, args)
<1>1. /\ S \in Widgets /\ S.class = W.class /\ S.cell = W.cell
      /\ S.border = W.border /\ S.given = W.given /\ S.shared = W.shared
      /\ S.leaked = W.leaked /\ S.fault = W.fault
  BY SizeIs
<1>2. Sound(S) /\ Whole(S)
  BY <1>1 DEF Sound, Whole
<1> HIDE DEF S
<1>3. /\ P \in Widgets /\ P.class = W.class /\ P.cell = W.cell
      /\ P.border = IF "border_width" \in DOMAIN args THEN args["border_width"] ELSE W.border
      /\ W.given \subseteq P.given
      /\ P.given \subseteq W.given \cup Plain(W.class)
      /\ P.shared = W.shared /\ P.leaked = W.leaked /\ P.fault = "none"
  BY <1>1, <1>2, PlainIs
<1> HIDE DEF P
<1>4. /\ W.class \in Class /\ "content_rect" \in Attribute
      /\ "content_rect" \notin Plain(W.class) \cup Optional(W.class)
      /\ W.cell \in [Attribute -> Cell]
  BY Names DEF Widgets
<1>5. CASE "border_width" \in DOMAIN args /\ P.cell["content_rect"] # "screen"
  <2>1. V = Alloc(P, "content_rect")
    BY <1>5 DEF ConfigureContent
  <2>2. /\ V \in Widgets /\ V.class = W.class
        /\ V.cell["content_rect"] = "own"
        /\ \A b \in Attribute \ {"content_rect"} : V.cell[b] = W.cell[b]
        /\ V.given = P.given /\ V.shared = W.shared /\ V.fault = "none"
    BY <2>1, <1>3, <1>4, AllocIs
  <2> HIDE DEF V
  <2>3. Sound(V)
    <3>1. V.shared \subseteq Attribute
      BY <1>4, <2>2, Names DEF Widgets
    <3>2. \A a \in V.shared : V.cell[a] = W.cell[a] \/ V.cell[a] # "null"
      BY <2>2, <3>1
    <3> QED BY <1>3, <2>2, <3>2, StaysSound
  <2>4. Whole(V)
    BY <1>4, <2>2, Names DEF Whole
  <2>5. ~Tidy(W, args)
    BY <1>3, <1>5 DEF Tidy
  <2> QED BY <1>3, <1>4, <2>2, <2>3, <2>4, <2>5 DEF Plained, V, P, S
<1>6. CASE ~("border_width" \in DOMAIN args /\ P.cell["content_rect"] # "screen")
  <2>1. V = P
    BY <1>6 DEF ConfigureContent
  <2>2. Sound(P) /\ Whole(P)
    BY <1>3 DEF Sound, Whole
  <2>3. Clean(W) => Clean(P)
    BY <1>3, <1>6 DEF Clean
  <2> QED BY <1>3, <2>1, <2>2, <2>3 DEF Plained, P, S
<1> QED BY <1>5, <1>6


(* What Tidy says of the text and of the image.                            *)
TextTidy(W, args) ==
  "text" \in DOMAIN args => /\ W.cell["img"] = "null"
                            /\ args["text"] = "null" => W.cell["text"] = "null"
ImageTidy(W, args) ==
  "img" \in DOMAIN args =>
    /\ W.cell["text"] = "null"
    /\ W.class = "button" \/ args["img"] = "null" => W.cell["img"] = "null"

(* The text: it is there and the image is not, or neither is.              *)
LEMMA TextIs ==
  ASSUME NEW W, Sound(W), Whole(W), W.fault = "none", W.class # "toplevel",
         NEW args \in Args(W.class)
  PROVE  LET V == ConfigureText(W, args)
         IN  /\ V.class = W.class /\ Sound(V) /\ Whole(V) /\ V.fault = "none"
             /\ V.border = W.border
             /\ \A a \in Attribute \ {"text", "img"} : V.cell[a] = W.cell[a]
             /\ \A a \in W.given \ V.given : a \in {"text", "img"} /\ V.cell[a] = "null"
             /\ V.shared \subseteq W.shared
             /\ ~W.leaked /\ TextTidy(W, args) => ~V.leaked
             /\ "text" \notin DOMAIN args => V = W
<1>1. /\ W \in Widgets /\ W.class \in Class /\ W.cell \in [Attribute -> Cell]
      /\ "text" \in Attribute /\ "img" \in Attribute
      /\ "text" \in Optional(W.class) /\ "img" \in Optional(W.class)
  BY Names DEF Sound, Widgets
<1>2. \A a \in Optional(W.class) : W.cell[a] \in {"null", "own"}
  BY DEF Whole
<1>3. CASE "text" \notin DOMAIN args
  <2>1. ConfigureText(W, args) = W
    BY <1>3 DEF ConfigureText, Gives
  <2> QED BY <1>3, <2>1, Zenon
<1>4. CASE Gives(args, "text", "null")
  <2> DEFINE X == Drop(W, "text")
             V == Drop(X, "img")
  <2>1. ConfigureText(W, args) = V
    BY <1>4 DEF ConfigureText, Gives
  <2>2. /\ X \in Widgets /\ X.class = W.class
        /\ X.cell["text"] = "null" /\ \A b \in Attribute \ {"text"} : X.cell[b] = W.cell[b]
        /\ X.border = W.border /\ X.fault = W.fault
        /\ X.given \subseteq W.given /\ W.given \ {"text"} \subseteq X.given
        /\ X.shared \subseteq W.shared /\ "text" \notin X.shared
        /\ X.leaked = (W.leaked \/ W.cell["text"] = "own")
    BY <1>1, DropIs
  <2> HIDE DEF X
  <2>3. /\ V \in Widgets /\ V.class = X.class
        /\ V.cell["img"] = "null" /\ \A b \in Attribute \ {"img"} : V.cell[b] = X.cell[b]
        /\ V.border = X.border /\ V.fault = X.fault
        /\ V.given \subseteq X.given /\ X.given \ {"img"} \subseteq V.given
        /\ V.shared \subseteq X.shared /\ "img" \notin V.shared
        /\ V.leaked = (X.leaked \/ X.cell["img"] = "own")
    BY <1>1, <2>2, DropIs
  <2> HIDE DEF V
  <2>4. /\ V.cell["text"] = "null"
        /\ \A a \in Attribute \ {"text", "img"} : V.cell[a] = W.cell[a]
    BY <1>1, <2>2, <2>3
  <2>5. V.given \subseteq W.given /\ W.given \ {"text", "img"} \subseteq V.given
    BY <2>2, <2>3
  <2>6. V.shared \subseteq W.shared /\ "text" \notin V.shared /\ "img" \notin V.shared
    BY <2>2, <2>3
  <2>7. Sound(V)
    <3>1. \A a \in V.shared : V.cell[a] = W.cell[a]
      BY <1>1, <2>3, <2>4, <2>6, Names DEF Widgets
    <3> QED BY <1>1, <2>2, <2>3, <2>5, <2>6, <3>1, StaysSound
  <2>8. Whole(V)
    <3>1. \A a \in Attribute \ Optional(W.class) : V.cell[a] = W.cell[a]
      BY <1>1, <2>4
    <3>2. \A a \in Optional(W.class) : V.cell[a] \in {"null", "own"}
      BY <1>1, <1>2, <2>3, <2>4, Names
    <3> QED BY <1>1, <2>2, <2>3, <2>4, <3>1, <3>2, StaysWhole
  <2>9. ~W.leaked /\ TextTidy(W, args) => ~V.leaked
    <3>1. TextTidy(W, args) => W.cell["text"] = "null" /\ W.cell["img"] = "null"
      BY <1>4 DEF TextTidy, Gives
    <3> QED BY <1>1, <2>2, <2>3, <3>1
  <2>10. \A a \in W.given \ V.given : a \in {"text", "img"} /\ V.cell[a] = "null"
    BY <2>3, <2>4, <2>5
  <2> QED BY <1>4, <2>1, <2>2, <2>3, <2>4, <2>6, <2>7, <2>8, <2>9, <2>10 DEF Gives
<1>5. CASE Gives(args, "text", "some")
  <2> DEFINE E == IF W.cell["text"] = "null" THEN W ELSE Free(W, "text")
             A == Alloc(E, "text")
             X == Store(A, "text")
             V == Drop(X, "img")
  <2>1. ConfigureText(W, args) = V
    BY <1>5 DEF ConfigureText, Gives
  <2>2. /\ E \in Widgets /\ E.class = W.class
        /\ E.cell["text"] # "own" /\ \A b \in Attribute \ {"text"} : E.cell[b] = W.cell[b]
        /\ E.border = W.border /\ E.given = W.given /\ E.shared = W.shared
        /\ E.fault = W.fault /\ E.leaked = W.leaked
    <3>1. CASE W.cell["text"] = "null"
      BY <1>1, <3>1
    <3>2. CASE W.cell["text"] # "null"
      BY <1>1, <3>2, FreeIs
    <3> QED BY <3>1, <3>2
  <2> HIDE DEF E
  <2>3. /\ A \in Widgets /\ A.class = E.class
        /\ A.cell["text"] = "own" /\ \A b \in Attribute \ {"text"} : A.cell[b] = E.cell[b]
        /\ A.border = E.border /\ A.given = E.given /\ A.shared = E.shared
        /\ A.fault = E.fault /\ A.leaked = (E.leaked \/ E.cell["text"] = "own")
    BY <1>1, <2>2, AllocIs
  <2> HIDE DEF A
  <2>4. /\ X \in Widgets /\ X.class = A.class /\ X.cell = A.cell
        /\ X.border = A.border /\ A.given \subseteq X.given /\ X.given \subseteq A.given \cup {"text"}
        /\ X.shared = A.shared /\ X.leaked = A.leaked
        /\ X.fault = (IF A.cell["text"] = "own" THEN A.fault ELSE "bad_write")
    BY <1>1, <2>3, StoreIs
  <2> HIDE DEF X
  <2>5. /\ V \in Widgets /\ V.class = X.class
        /\ V.cell["img"] = "null" /\ \A b \in Attribute \ {"img"} : V.cell[b] = X.cell[b]
        /\ V.border = X.border /\ V.fault = X.fault
        /\ V.given \subseteq X.given /\ X.given \ {"img"} \subseteq V.given
        /\ V.shared \subseteq X.shared /\ "img" \notin V.shared
        /\ V.leaked = (X.leaked \/ X.cell["img"] = "own")
    <3>1. X \in Widgets /\ "img" \in Attribute
      BY <1>1, <2>4
    <3> QED BY <3>1, DropIs
  <2> HIDE DEF V
  <2>6. /\ V.class = W.class /\ V.border = W.border /\ V.fault = "none"
        /\ V.cell["text"] = "own"
        /\ \A a \in Attribute \ {"text", "img"} : V.cell[a] = W.cell[a]
    BY <1>1, <2>2, <2>3, <2>4, <2>5
  <2>7. V.given \subseteq W.given \cup {"text"} /\ W.given \ {"img"} \subseteq V.given
    BY <2>2, <2>3, <2>4, <2>5
  <2>8. V.shared \subseteq W.shared /\ "img" \notin V.shared
    BY <2>2, <2>3, <2>4, <2>5
  <2>9. Sound(V)
    <3>1. \A a \in V.shared : V.cell[a] = W.cell[a] \/ V.cell[a] # "null"
      BY <1>1, <2>5, <2>6, <2>8, Names DEF Widgets
    <3> QED BY <1>1, <2>5, <2>6, <2>7, <2>8, <3>1, StaysSound
  <2>10. Whole(V)
    <3>1. \A a \in Attribute \ Optional(W.class) : V.cell[a] = W.cell[a]
      BY <1>1, <2>6
    <3>2. \A a \in Optional(W.class) : V.cell[a] \in {"null", "own"}
      BY <1>1, <1>2, <2>5, <2>6, Names
    <3> QED BY <1>1, <2>5, <2>6, <3>1, <3>2, StaysWhole
  <2>11. ~W.leaked /\ TextTidy(W, args) => ~V.leaked
    <3>1. TextTidy(W, args) => W.cell["img"] = "null"
      BY <1>5 DEF TextTidy, Gives
    <3>2. X.cell["img"] = W.cell["img"]
      BY <1>1, <2>2, <2>3, <2>4
    <3> QED BY <2>2, <2>3, <2>4, <2>5, <3>1, <3>2
  <2>12. \A a \in W.given \ V.given : a \in {"text", "img"} /\ V.cell[a] = "null"
    BY <2>5, <2>7
  <2> QED BY <1>5, <2>1, <2>6, <2>8, <2>9, <2>10, <2>11, <2>12 DEF Gives
<1>6. "text" \in DOMAIN args => Gives(args, "text", "null") \/ Gives(args, "text", "some")
  BY <1>1, ArgsAre DEF Gives
<1> QED BY <1>3, <1>4, <1>5, <1>6

(* The surface a frame shows, or the cell a button keeps its copy in.      *)
Stored(W, S) ==
  /\ S.class = W.class /\ Sound(S) /\ S.border = W.border
  /\ S.cell["img"] # "null" /\ \A b \in Attribute \ {"img"} : S.cell[b] = W.cell[b]
  /\ S.fault = "none" => S.cell["img"] = "own"
  /\ W.given \subseteq S.given
  /\ S.shared \subseteq W.shared \cup {"img"}
  /\ W.class = "frame" \/ W.cell["img"] = "null" => S.fault = "none" /\ S.leaked = W.leaked

LEMMA FrameImageIs ==
  ASSUME NEW W, Sound(W), Whole(W), W.fault = "none", W.class = "frame"
  PROVE  Stored(W, FrameImage(W))
<1>1. /\ W \in Widgets /\ W.class \in Class /\ W.cell \in [Attribute -> Cell]
      /\ "img" \in Attribute /\ "img" \in Optional(W.class)
  BY Names DEF Sound, Widgets
<1> DEFINE E == Ensure(W, "img")
           X == Store(E, "img")
           V == [X EXCEPT !.shared = @ \cup {"img"}]
<1>2. /\ E \in Widgets /\ E.class = W.class
      /\ E.cell["img"] = "own" /\ \A b \in Attribute \ {"img"} : E.cell[b] = W.cell[b]
      /\ E.border = W.border /\ E.given = W.given /\ E.shared = W.shared
      /\ E.fault = "none" /\ E.leaked = W.leaked
  <2>1. W.cell["img"] \in {"null", "own"}
    BY <1>1 DEF Whole
  <2> QED BY <1>1, <2>1, EnsureIs
<1> HIDE DEF E
<1>3. /\ X \in Widgets /\ X.class = W.class
      /\ X.cell["img"] = "own" /\ \A b \in Attribute \ {"img"} : X.cell[b] = W.cell[b]
      /\ X.border = W.border /\ W.given \subseteq X.given /\ X.given \subseteq W.given \cup {"img"}
      /\ X.shared = W.shared /\ X.fault = "none" /\ X.leaked = W.leaked
  BY <1>1, <1>2, StoreIs
<1> HIDE DEF X
<1>4. /\ V \in Widgets /\ V.class = X.class /\ V.cell = X.cell
      /\ V.border = X.border /\ V.given = X.given
      /\ V.shared = X.shared \cup {"img"} /\ V.fault = X.fault /\ V.leaked = X.leaked
  BY <1>3 DEF Widgets
<1>5. FrameImage(W) = V
  BY DEF FrameImage, X, E
<1> HIDE DEF V
<1>6. Sound(V)
  <2>1. V.given \subseteq Plain(V.class) \cup Optional(V.class)
    BY <1>1, <1>3, <1>4 DEF Sound
  <2>2. \A a \in V.shared : V.cell[a] # "null"
    BY <1>3, <1>4, Names DEF Sound, Widgets
  <2>3. "title" \notin V.shared
    BY <1>3, <1>4 DEF Sound
  <2> QED BY <1>3, <1>4, <2>1, <2>2, <2>3 DEF Sound
<1> QED BY <1>1, <1>3, <1>4, <1>5, <1>6 DEF Stored

LEMMA ButtonImageIs ==
  ASSUME NEW W, Sound(W), Whole(W), W.fault = "none", W.class = "button"
  PROVE  Stored(W, ButtonImage(W))
<1>1. /\ W \in Widgets /\ W.class \in Class /\ W.cell \in [Attribute -> Cell]
      /\ "img" \in Attribute /\ "img" \in Optional(W.class)
  BY Names DEF Sound, Widgets
<1> DEFINE E == IF W.cell["img"] # "null" THEN Free(W, "img") ELSE Alloc(W, "img")
           V == Store(E, "img")
<1>2. /\ E \in Widgets /\ E.class = W.class
      /\ E.cell["img"] = (IF W.cell["img"] # "null" THEN "freed" ELSE "own")
      /\ \A b \in Attribute \ {"img"} : E.cell[b] = W.cell[b]
      /\ E.border = W.border /\ E.given = W.given /\ E.shared = W.shared
      /\ E.fault = "none" /\ E.leaked = W.leaked
  <2>1. CASE W.cell["img"] # "null"
    BY <1>1, <2>1, FreeIs
  <2>2. CASE W.cell["img"] = "null"
    BY <1>1, <2>2, AllocIs DEF Widgets
  <2> QED BY <2>1, <2>2
<1> HIDE DEF E
<1>3. /\ V \in Widgets /\ V.class = E.class /\ V.cell = E.cell
      /\ V.border = E.border /\ E.given \subseteq V.given /\ V.given \subseteq E.given \cup {"img"}
      /\ V.shared = E.shared /\ V.leaked = E.leaked
      /\ V.fault = (IF E.cell["img"] = "own" THEN E.fault ELSE "bad_write")
  BY <1>1, <1>2, StoreIs
<1>4. ButtonImage(W) = V
  BY DEF ButtonImage, E
<1> HIDE DEF V
<1>5. Sound(V)
  <2>1. \A a \in V.shared : V.cell[a] = W.cell[a] \/ V.cell[a] # "null"
    BY <1>1, <1>2, <1>3, Names DEF Widgets
  <2>2. /\ V.given \subseteq W.given \cup Plain(W.class) \cup Optional(W.class)
        /\ V.shared \subseteq W.shared /\ V.class = W.class
    BY <1>1, <1>2, <1>3
  <2> QED BY <1>1, <1>3, <2>1, <2>2, StaysSound
<1> QED BY <1>1, <1>2, <1>3, <1>4, <1>5 DEF Stored


(* The image, after a text was or was not given.                           *)
LEMMA ImageIs ==
  ASSUME NEW W, Sound(W), Whole(W), W.fault = "none", W.class # "toplevel",
         NEW args \in Args(W.class), NEW S, Stored(W, S)
  PROVE  LET V == ConfigureImage(W, args, S)
         IN  /\ V.class = W.class /\ Sound(V) /\ V.border = W.border
             /\ V.fault = "none" => Whole(V)
             /\ \A a \in Attribute \ {"text", "img", "img_rect"} : V.cell[a] = W.cell[a]
             /\ \A a \in W.given \ V.given : a \in {"text", "img"} /\ V.cell[a] = "null"
             /\ V.shared \subseteq W.shared \cup {a \in {"title", "img"} : Gives(args, a, "some")}
             /\ ~W.leaked /\ ImageTidy(W, args) => ~V.leaked /\ V.fault = "none"
             /\ "img" \notin DOMAIN args => V = W
<1>1. /\ W \in Widgets /\ W.class \in Class /\ W.cell \in [Attribute -> Cell]
      /\ "text" \in Attribute /\ "img" \in Attribute /\ "img_rect" \in Attribute
      /\ "text" \in Optional(W.class) /\ "img" \in Optional(W.class)
      /\ "img_rect" \in Optional(W.class)
  BY Names DEF Sound, Widgets
<1>2. \A a \in Optional(W.class) : W.cell[a] \in {"null", "own"}
  BY DEF Whole
<1>3. CASE "img" \notin DOMAIN args
  <2>1. ConfigureImage(W, args, S) = W
    BY <1>3 DEF ConfigureImage, Gives
  <2>2. W.shared \subseteq W.shared \cup {a \in {"title", "img"} : Gives(args, a, "some")}
    OBVIOUS
  <2> QED BY <1>3, <2>1, <2>2, Zenon
<1>4. CASE Gives(args, "img", "null")
  <2> DEFINE X == Drop(W, "img")
             V == Drop(X, "text")
  <2>1. ConfigureImage(W, args, S) = V
    BY <1>4 DEF ConfigureImage, Gives
  <2>2. /\ X \in Widgets /\ X.class = W.class
        /\ X.cell["img"] = "null" /\ \A b \in Attribute \ {"img"} : X.cell[b] = W.cell[b]
        /\ X.border = W.border /\ X.fault = W.fault
        /\ X.given \subseteq W.given /\ W.given \ {"img"} \subseteq X.given
        /\ X.shared \subseteq W.shared /\ "img" \notin X.shared
        /\ X.leaked = (W.leaked \/ W.cell["img"] = "own")
    BY <1>1, DropIs
  <2> HIDE DEF X
  <2>3. /\ V \in Widgets /\ V.class = X.class
        /\ V.cell["text"] = "null" /\ \A b \in Attribute \ {"text"} : V.cell[b] = X.cell[b]
        /\ V.border = X.border /\ V.fault = X.fault
        /\ V.given \subseteq X.given /\ X.given \ {"text"} \subseteq V.given
        /\ V.shared \subseteq X.shared /\ "text" \notin V.shared
        /\ V.leaked = (X.leaked \/ X.cell["text"] = "own")
    BY <1>1, <2>2, DropIs
  <2> HIDE DEF V
  <2>4. /\ V.cell["img"] = "null"
        /\ \A a \in Attribute \ {"text", "img"} : V.cell[a] = W.cell[a]
    BY <1>1, <2>2, <2>3
  <2>5. V.given \subseteq W.given /\ W.given \ {"text", "img"} \subseteq V.given
    BY <2>2, <2>3
  <2>6. V.shared \subseteq W.shared /\ "text" \notin V.shared /\ "img" \notin V.shared
    BY <2>2, <2>3
  <2>7. Sound(V)
    <3>1. \A a \in V.shared : V.cell[a] = W.cell[a]
      BY <1>1, <2>3, <2>4, <2>6, Names DEF Widgets
    <3> QED BY <1>1, <2>2, <2>3, <2>5, <2>6, <3>1, StaysSound
  <2>8. Whole(V)
    <3>1. \A a \in Attribute \ Optional(W.class) : V.cell[a] = W.cell[a]
      BY <1>1, <2>4
    <3>2. \A a \in Optional(W.class) : V.cell[a] \in {"null", "own"}
      BY <1>1, <1>2, <2>3, <2>4, Names
    <3> QED BY <1>1, <2>2, <2>3, <2>4, <3>1, <3>2, StaysWhole
  <2>9. ~W.leaked /\ ImageTidy(W, args) => ~V.leaked /\ V.fault = "none"
    <3>1. ImageTidy(W, args) => W.cell["text"] = "null" /\ W.cell["img"] = "null"
      BY <1>4 DEF ImageTidy, Gives
    <3> QED BY <1>1, <2>2, <2>3, <3>1
  <2>10. \A a \in W.given \ V.given : a \in {"text", "img"} /\ V.cell[a] = "null"
    BY <2>3, <2>4, <2>5
  <2>11. V.shared \subseteq W.shared \cup {a \in {"title", "img"} : Gives(args, a, "some")}
    BY <2>6
  <2>12. "img" \in DOMAIN args
    BY <1>4 DEF Gives
  <2> QED BY <2>1, <2>2, <2>3, <2>4, <2>7, <2>8, <2>9, <2>10, <2>11, <2>12
<1>5. CASE Gives(args, "img", "some")
  <2> DEFINE E == Ensure(S, "img_rect")
             X == Store(E, "img_rect")
             R == ConfigureRect(S, args)
             V == Drop(R, "text")
  <2>1. ConfigureImage(W, args, S) = V
    BY <1>5 DEF ConfigureImage, Gives
  <2>2. /\ S \in Widgets /\ S.class = W.class /\ S.border = W.border
        /\ S.cell["img"] # "null" /\ \A b \in Attribute \ {"img"} : S.cell[b] = W.cell[b]
        /\ S.fault = "none" => S.cell["img"] = "own"
        /\ W.given \subseteq S.given /\ S.shared \subseteq W.shared \cup {"img"}
        /\ W.class = "frame" \/ W.cell["img"] = "null" => S.fault = "none" /\ S.leaked = W.leaked
    BY DEF Stored, Sound
  <2>3. W.cell["img_rect"] \in {"null", "own"} /\ S.cell["img_rect"] = W.cell["img_rect"]
    BY <1>1, <1>2, <2>2
  <2>4. /\ R \in Widgets /\ R.class = S.class /\ R.border = S.border
        /\ R.cell["img_rect"] \in {"null", "own"}
        /\ \A b \in Attribute \ {"img_rect"} : R.cell[b] = S.cell[b]
        /\ S.given \subseteq R.given /\ R.given \subseteq S.given \cup {"img_rect"}
        /\ R.shared = S.shared /\ R.leaked = S.leaked /\ R.fault = S.fault
    <3>1. CASE "img_rect" \notin DOMAIN args
      <4>1. R = S
        BY <3>1 DEF ConfigureRect
      <4> QED BY <2>2, <2>3, <4>1
    <3>2. CASE "img_rect" \in DOMAIN args
      <4>1. R = X
        BY <3>2 DEF ConfigureRect
      <4>2. /\ E \in Widgets /\ E.class = S.class /\ E.border = S.border
            /\ E.cell["img_rect"] = (IF S.cell["img_rect"] = "null" THEN "own"
                                     ELSE S.cell["img_rect"])
            /\ \A b \in Attribute \ {"img_rect"} : E.cell[b] = S.cell[b]
            /\ E.given = S.given /\ E.shared = S.shared /\ E.leaked = S.leaked
            /\ E.fault = S.fault
        BY <1>1, <2>2, EnsureIs
      <4>3. E.cell["img_rect"] = "own"
        BY <2>3, <4>2
      <4> HIDE DEF E, R
      <4>4. /\ X \in Widgets /\ X.class = E.class /\ X.cell = E.cell /\ X.border = E.border
            /\ E.given \subseteq X.given /\ X.given \subseteq E.given \cup {"img_rect"}
            /\ X.shared = E.shared /\ X.leaked = E.leaked /\ X.fault = E.fault
        BY <1>1, <4>2, <4>3, StoreIs
      <4> HIDE DEF X
      <4> QED BY <4>1, <4>2, <4>3, <4>4
    <3> QED BY <3>1, <3>2
  <2> HIDE DEF R
  <2>5. /\ V \in Widgets /\ V.class = R.class
        /\ V.cell["text"] = "null" /\ \A b \in Attribute \ {"text"} : V.cell[b] = R.cell[b]
        /\ V.border = R.border /\ V.fault = R.fault
        /\ V.given \subseteq R.given /\ R.given \ {"text"} \subseteq V.given
        /\ V.shared \subseteq R.shared /\ "text" \notin V.shared
        /\ V.leaked = (R.leaked \/ R.cell["text"] = "own")
    BY <1>1, <2>4, DropIs
  <2> HIDE DEF V
  <2>6. /\ V.cell["img"] = S.cell["img"] /\ V.cell["img_rect"] \in {"null", "own"}
        /\ \A a \in Attribute \ {"text", "img", "img_rect"} : V.cell[a] = W.cell[a]
    BY <1>1, <2>2, <2>4, <2>5
  <2>7. V.given \subseteq S.given \cup {"img_rect"} /\ W.given \ {"text"} \subseteq V.given
    BY <2>2, <2>4, <2>5
  <2>8. V.shared \subseteq S.shared /\ "text" \notin V.shared
    BY <2>4, <2>5
  <2>9. Sound(V)
    <3>1. V.shared \subseteq Attribute
      BY <1>1, <2>5, Names DEF Widgets
    <3>2. \A a \in V.shared : V.cell[a] = S.cell[a] \/ V.cell[a] # "null"
      <4> SUFFICES ASSUME NEW a \in V.shared
                   PROVE  V.cell[a] = S.cell[a] \/ V.cell[a] # "null"
        OBVIOUS
      <4>1. a \in {"title", "img"}
        BY <2>5 DEF Widgets
      <4> QED BY <1>1, <2>2, <2>6, <3>1, <4>1
    <3>3. Sound(S) /\ V.class = S.class
      BY <2>4, <2>5 DEF Stored
    <3>4. V.given \subseteq S.given \cup Plain(S.class) \cup Optional(S.class)
      BY <1>1, <2>2, <2>7
    <3> QED BY <2>5, <2>8, <3>2, <3>3, <3>4, StaysSound
  <2>10. V.fault = "none" => Whole(V)
    <3> HAVE V.fault = "none"
    <3>1. \A a \in Attribute \ Optional(W.class) : V.cell[a] = W.cell[a]
      BY <1>1, <2>6
    <3>2. \A a \in Optional(W.class) : V.cell[a] \in {"null", "own"}
      BY <1>1, <1>2, <2>2, <2>4, <2>5, <2>6, Names
    <3> QED BY <1>1, <2>2, <2>4, <2>5, <3>1, <3>2, StaysWhole
  <2>11. ~W.leaked /\ ImageTidy(W, args) => ~V.leaked /\ V.fault = "none"
    <3>1. ImageTidy(W, args) => /\ W.cell["text"] = "null"
                                /\ W.class = "button" => W.cell["img"] = "null"
      BY <1>5 DEF ImageTidy, Gives
    <3>2. W.class \in {"frame", "button"}
      BY <1>1 DEF Class
    <3>3. R.cell["text"] = W.cell["text"]
      BY <1>1, <2>2, <2>4
    <3>4. ImageTidy(W, args) => S.fault = "none" /\ S.leaked = W.leaked
      BY <2>2, <3>1, <3>2
    <3>5. V.fault = S.fault /\ V.leaked = (S.leaked \/ W.cell["text"] = "own")
      BY <2>4, <2>5, <3>3
    <3> QED BY <3>1, <3>4, <3>5
  <2>12. \A a \in W.given \ V.given : a \in {"text", "img"} /\ V.cell[a] = "null"
    BY <2>5, <2>7
  <2>13. V.shared \subseteq W.shared \cup {a \in {"title", "img"} : Gives(args, a, "some")}
    BY <1>5, <2>2, <2>8
  <2>14. /\ "img" \in DOMAIN args /\ V.class = W.class /\ V.border = W.border
    BY <1>5, <2>2, <2>4, <2>5 DEF Gives
  <2> QED BY <2>1, <2>6, <2>9, <2>10, <2>11, <2>12, <2>13, <2>14
<1>6. "img" \in DOMAIN args => Gives(args, "img", "null") \/ Gives(args, "img", "some")
  BY <1>1, ArgsAre DEF Gives
<1> QED BY <1>3, <1>4, <1>5, <1>6


(* A callback or its parameter gets a new cell.                            *)
LEMMA GivenCell ==
  ASSUME NEW W, Sound(W), W.fault = "none" => Whole(W), W.class = "button",
         NEW x \in {"callback", "user_param"}
  PROVE  LET V == Store(Alloc(W, x), x)
         IN  /\ V.class = "button" /\ Sound(V) /\ V.border = W.border
             /\ V.fault = W.fault
             /\ V.fault = "none" => Whole(V)
             /\ \A a \in Attribute \ {x} : V.cell[a] = W.cell[a]
             /\ W.given \subseteq V.given /\ V.shared = W.shared
             /\ V.leaked = (W.leaked \/ W.cell[x] = "own")
<1> DEFINE A == Alloc(W, x)
           V == Store(A, x)
<1>1. /\ W \in Widgets /\ W.class \in Class /\ x \in Attribute /\ x \in Optional(W.class)
      /\ x # "text" /\ x # "img" /\ "text" \in Attribute /\ "img" \in Attribute
  BY Names DEF Sound, Widgets
<1>2. /\ A \in Widgets /\ A.class = W.class
      /\ A.cell[x] = "own" /\ \A b \in Attribute \ {x} : A.cell[b] = W.cell[b]
      /\ A.border = W.border /\ A.given = W.given /\ A.shared = W.shared /\ A.fault = W.fault
      /\ A.leaked = (W.leaked \/ W.cell[x] = "own")
  BY <1>1, AllocIs
<1> HIDE DEF A
<1>3. /\ V \in Widgets /\ V.class = A.class /\ V.cell = A.cell
      /\ V.border = A.border /\ A.given \subseteq V.given /\ V.given \subseteq A.given \cup {x}
      /\ V.shared = A.shared /\ V.leaked = A.leaked /\ V.fault = A.fault
  BY <1>1, <1>2, StoreIs
<1> HIDE DEF V
<1>4. \A a \in Attribute \ {x} : V.cell[a] = W.cell[a]
  BY <1>2, <1>3
<1>5. Sound(V)
  <2>1. \A a \in V.shared : V.cell[a] = W.cell[a] \/ V.cell[a] # "null"
    BY <1>1, <1>3, <1>4, Names DEF Widgets
  <2>2. V.given \subseteq W.given \cup Plain(W.class) \cup Optional(W.class)
    BY <1>1, <1>2, <1>3
  <2> QED BY <1>2, <1>3, <2>1, <2>2, StaysSound
<1>6. V.fault = "none" => Whole(V)
  <2> HAVE V.fault = "none"
  <2>1. Whole(W)
    BY <1>2, <1>3
  <2>2. \A a \in Attribute \ Optional(W.class) : V.cell[a] = W.cell[a]
    BY <1>1, <1>4
  <2>3. \A a \in Optional(W.class) : V.cell[a] \in {"null", "own"}
    BY <1>1, <1>2, <1>3, <1>4, <2>1, Names DEF Whole
  <2>4. V.cell["text"] = "null" \/ V.cell["img"] = "null"
    BY <1>1, <1>4, <2>1 DEF Whole
  <2> QED BY <1>1, <1>2, <1>3, <2>1, <2>2, <2>3, <2>4, StaysWhole
<1> HIDE DEF V
<1>7. /\ V.class = "button" /\ V.border = W.border /\ V.fault = W.fault
      /\ W.given \subseteq V.given /\ V.shared = W.shared
      /\ V.leaked = (W.leaked \/ W.cell[x] = "own")
  BY <1>2, <1>3
<1> QED BY <1>4, <1>5, <1>6, <1>7 DEF V, A

LEMMA CallbackIs ==
  ASSUME NEW W, Sound(W), W.fault = "none" => Whole(W), W.class = "button", NEW args
  PROVE  LET V == ConfigureCallback(W, args)
         IN  /\ V.class = "button" /\ Sound(V) /\ V.border = W.border
             /\ V.fault = W.fault
             /\ V.fault = "none" => Whole(V)
             /\ \A a \in Attribute \ {"callback", "user_param"} : V.cell[a] = W.cell[a]
             /\ W.given \subseteq V.given /\ V.shared = W.shared
             /\ ~W.leaked
                  /\ (\A a \in {"callback", "user_param"} \cap DOMAIN args : W.cell[a] = "null")
                => ~V.leaked
<1> DEFINE X == IF "callback" \in DOMAIN args THEN Store(Alloc(W, "callback"), "callback") ELSE W
           V == IF "user_param" \in DOMAIN args THEN Store(Alloc(X, "user_param"), "user_param")
                ELSE X
<1>1. ConfigureCallback(W, args) = V
  BY DEF ConfigureCallback
<1>2. /\ X.class = "button" /\ Sound(X) /\ X.border = W.border
      /\ X.fault = W.fault /\ (X.fault = "none" => Whole(X))
      /\ \A a \in Attribute \ {"callback"} : X.cell[a] = W.cell[a]
      /\ W.given \subseteq X.given /\ X.shared = W.shared
      /\ "callback" \in DOMAIN args => X.leaked = (W.leaked \/ W.cell["callback"] = "own")
      /\ "callback" \notin DOMAIN args => X.leaked = W.leaked
  <2>1. CASE "callback" \in DOMAIN args
    BY <2>1, GivenCell
  <2>2. CASE "callback" \notin DOMAIN args
    BY <2>2
  <2> QED BY <2>1, <2>2
<1> HIDE DEF X
<1>3. /\ V.class = "button" /\ Sound(V) /\ V.border = X.border
      /\ V.fault = X.fault /\ (V.fault = "none" => Whole(V))
      /\ \A a \in Attribute \ {"user_param"} : V.cell[a] = X.cell[a]
      /\ X.given \subseteq V.given /\ V.shared = X.shared
      /\ "user_param" \in DOMAIN args => V.leaked = (X.leaked \/ X.cell["user_param"] = "own")
      /\ "user_param" \notin DOMAIN args => V.leaked = X.leaked
  <2>1. CASE "user_param" \in DOMAIN args
    BY <1>2, <2>1, GivenCell
  <2>2. CASE "user_param" \notin DOMAIN args
    BY <1>2, <2>2
  <2> QED BY <2>1, <2>2
<1> HIDE DEF V
<1>4. X.cell["user_param"] = W.cell["user_param"]
  <2>1. "user_param" \in Attribute
    BY Names DEF Class
  <2> QED BY <1>2, <2>1
<1>5. \A a \in Attribute \ {"callback", "user_param"} : V.cell[a] = W.cell[a]
  BY <1>2, <1>3
<1>6. ~W.leaked /\ (\A a \in {"callback", "user_param"} \cap DOMAIN args : W.cell[a] = "null")
        => ~V.leaked
  BY <1>2, <1>3, <1>4
<1>7. W.given \subseteq V.given
  BY <1>2, <1>3
<1> QED BY <1>1, <1>2, <1>3, <1>5, <1>6, <1>7

-----------------------------------------------------------------------------
(* The configure functions, whole.                                         *)
Becomes(W, V, args) ==
  /\ V.class = W.class /\ Sound(V)
  /\ V.fault = "none" => Whole(V)
  /\ \A a \in W.given \ V.given : a \in {"text", "img"} /\ V.cell[a] = "null"
  /\ V.shared \subseteq W.shared \cup {a \in {"title", "img"} : Gives(args, a, "some")}
  /\ Clean(W) /\ Tidy(W, args) => Clean(V)

(* Text and image of a frame or button, from what is left after the plain  *)
(* attributes: only one of the two is given.                               *)
LEMMA ContentsBecome ==
  ASSUME NEW W, Sound(W), W.class # "toplevel", NEW args \in Args(W.class),
         ~({"text", "img"} \subseteq DOMAIN args),
         NEW P, Plained(W, P, args), NEW S, Stored(P, S)
  PROVE  LET V == ConfigureImage(ConfigureText(P, args), args, S)
         IN  /\ Becomes(W, V, args)
             /\ \A a \in {"callback", "user_param"} : V.cell[a] = W.cell[a]
<1> DEFINE T == ConfigureText(P, args)
           V == ConfigureImage(T, args, S)
<1>1. /\ P.class = W.class /\ Sound(P) /\ Whole(P) /\ P.fault = "none"
      /\ \A a \in Attribute \ {"content_rect"} : P.cell[a] = W.cell[a]
      /\ W.given \subseteq P.given /\ P.shared = W.shared
      /\ Clean(W) /\ Tidy(W, args) => Clean(P)
  BY DEF Plained
<1>2. W.class \in Class /\ P \in Widgets /\ P.cell \in [Attribute -> Cell]
  BY <1>1 DEF Sound, Widgets
<1>3. {"text", "img", "img_rect", "callback", "user_param", "content_rect"} \subseteq Attribute
  BY <1>2, Names
<1>4. P.cell["text"] = W.cell["text"] /\ P.cell["img"] = W.cell["img"]
        /\ \A a \in {"callback", "user_param"} : P.cell[a] = W.cell[a]
  BY <1>1, <1>3
<1>5. Tidy(W, args) => TextTidy(P, args) /\ ImageTidy(P, args)
  BY <1>1, <1>4 DEF Tidy, TextTidy, ImageTidy
<1>6. /\ V.class = P.class /\ Sound(V) /\ V.border = P.border
      /\ V.fault = "none" => Whole(V)
      /\ \A a \in Attribute \ {"text", "img", "img_rect"} : V.cell[a] = P.cell[a]
      /\ \A a \in P.given \ V.given : a \in {"text", "img"} /\ V.cell[a] = "null"
      /\ V.shared \subseteq P.shared \cup {a \in {"title", "img"} : Gives(args, a, "some")}
      /\ ~P.leaked /\ TextTidy(P, args) /\ ImageTidy(P, args) => ~V.leaked /\ V.fault = "none"
  <2>1. CASE "text" \in DOMAIN args
    <3>1. V = T
      BY <2>1 DEF ConfigureImage, Gives
    <3>2. /\ T.class = P.class /\ Sound(T) /\ Whole(T) /\ T.fault = "none"
          /\ T.border = P.border
          /\ \A a \in Attribute \ {"text", "img"} : T.cell[a] = P.cell[a]
          /\ \A a \in P.given \ T.given : a \in {"text", "img"} /\ T.cell[a] = "null"
          /\ T.shared \subseteq P.shared
          /\ ~P.leaked /\ TextTidy(P, args) => ~T.leaked
      BY <1>1, TextIs
    <3> HIDE DEF V, T
    <3> QED BY <3>1, <3>2
  <2>2. CASE "text" \notin DOMAIN args
    <3>1. T = P
      BY <1>1, <2>2, TextIs
    <3> HIDE DEF T
    <3> QED BY <1>1, <3>1, ImageIs
  <2> QED BY <2>1, <2>2
<1> HIDE DEF V, T
<1>7. Clean(W) /\ Tidy(W, args) => Clean(V)
  <2>1. V.cell["content_rect"] = P.cell["content_rect"]
    BY <1>3, <1>6
  <2> QED BY <1>1, <1>5, <1>6, <2>1 DEF Clean
<1>8. \A a \in {"callback", "user_param"} : V.cell[a] = W.cell[a]
  BY <1>3, <1>4, <1>6
<1>9. \A a \in W.given \ V.given : a \in {"text", "img"} /\ V.cell[a] = "null"
  BY <1>1, <1>6
<1>10. Becomes(W, V, args)
  BY <1>1, <1>6, <1>7, <1>9 DEF Becomes
<1> QED BY <1>8, <1>10 DEF V, T


LEMMA FrameBecomes ==
  ASSUME NEW W, Sound(W), Whole(W), W.fault = "none", W.class = "frame",
         NEW args \in Args(W.class), ~({"text", "img"} \subseteq DOMAIN args)
  PROVE  Becomes(W, ei_frame_configure(W, args), args)
<1> DEFINE P == ConfigureContent(ConfigurePlain(ConfigureSize(W, args), args), args)
           S == FrameImage(P)
<1>1. W.class # "toplevel" /\ W \in Widgets
  BY DEF Sound
<1>2. Plained(W, P, args)
  BY <1>1, PlainedIs
<1>3. ei_frame_configure(W, args) = ConfigureImage(ConfigureText(P, args), args, S)
  BY DEF ei_frame_configure
<1> HIDE DEF P
<1>4. Stored(P, S)
  BY <1>2, FrameImageIs DEF Plained
<1> HIDE DEF S
<1> QED BY <1>1, <1>2, <1>3, <1>4, ContentsBecome

LEMMA ButtonBecomes ==
  ASSUME NEW W, Sound(W), Whole(W), W.fault = "none", W.class = "button",
         NEW args \in Args(W.class), ~({"text", "img"} \subseteq DOMAIN args)
  PROVE  Becomes(W, ei_button_configure(W, args), args)
<1> DEFINE P == ConfigureContent(ConfigurePlain(ConfigureSize(W, args), args), args)
           S == ButtonImage(P)
           I == ConfigureImage(ConfigureText(P, args), args, S)
           V == ConfigureCallback(I, args)
<1>1. W.class # "toplevel" /\ W \in Widgets
  BY DEF Sound
<1>2. Plained(W, P, args)
  BY <1>1, PlainedIs
<1>3. ei_button_configure(W, args) = V
  BY DEF ei_button_configure
<1> HIDE DEF P
<1>4. Stored(P, S)
  BY <1>2, ButtonImageIs DEF Plained
<1> HIDE DEF S
<1>5. /\ Becomes(W, I, args)
      /\ \A a \in {"callback", "user_param"} : I.cell[a] = W.cell[a]
  BY <1>1, <1>2, <1>4, ContentsBecome
<1> HIDE DEF I
<1>6. /\ V.class = "button" /\ Sound(V) /\ V.border = I.border /\ V.fault = I.fault
      /\ V.fault = "none" => Whole(V)
      /\ \A a \in Attribute \ {"callback", "user_param"} : V.cell[a] = I.cell[a]
      /\ I.given \subseteq V.given /\ V.shared = I.shared
      /\ ~I.leaked /\ (\A a \in {"callback", "user_param"} \cap DOMAIN args :
                         I.cell[a] = "null") => ~V.leaked
  BY <1>5, CallbackIs DEF Becomes
<1> HIDE DEF V
<1>7. {"text", "img", "content_rect"} \subseteq Attribute
  BY Names DEF Class
<1>8. \A a \in W.given \ V.given : a \in {"text", "img"} /\ V.cell[a] = "null"
  <2>1. \A a \in {"text", "img"} : V.cell[a] = I.cell[a]
    BY <1>6, <1>7
  <2> QED BY <1>5, <1>6, <2>1 DEF Becomes
<1>9. Clean(W) /\ Tidy(W, args) => Clean(V)
  <2>1. V.cell["content_rect"] = I.cell["content_rect"]
    BY <1>6, <1>7
  <2>2. Tidy(W, args) => \A a \in {"callback", "user_param"} \cap DOMAIN args : I.cell[a] = "null"
    BY <1>5 DEF Tidy
  <2> QED BY <1>5, <1>6, <2>1, <2>2 DEF Becomes, Clean
<1> QED BY <1>3, <1>5, <1>6, <1>8, <1>9 DEF Becomes

LEMMA ToplevelBecomes ==
  ASSUME NEW W, Sound(W), Whole(W), W.fault = "none", W.class = "toplevel",
         NEW args \in Args(W.class)
  PROVE  Becomes(W, ei_toplevel_configure(W, args), args)
<1> DEFINE Z == [W EXCEPT !.requested = IF "requested_size" \in DOMAIN args THEN "given"
                                        ELSE "default"]
           P == ConfigurePlain(Z, args)
           F == Free(P, "title")
           A == Alloc(F, "title")
           X == Store(A, "title")
           T == IF "title" \notin DOMAIN args THEN P
                ELSE [X EXCEPT !.shared = @ \cup {"title"}]
           V == IF Gives(args, "min_size", "null") THEN [T EXCEPT !.fault = "null_read"] ELSE T
<1>1. /\ W \in Widgets /\ W.class \in Class /\ W.cell \in [Attribute -> Cell]
      /\ {"title", "text", "img", "content_rect"} \subseteq Attribute
      /\ "title" \in Attribute /\ "title" \in Plain(W.class) /\ Optional(W.class) = {}
      /\ "content_rect" \notin Plain(W.class) /\ "text" \notin Plain(W.class)
  BY Names DEF Sound, Widgets
<1>2. /\ Z \in Widgets /\ Z.class = W.class /\ Z.cell = W.cell /\ Z.given = W.given
      /\ Z.shared = W.shared /\ Z.leaked = W.leaked /\ Z.fault = "none"
  BY <1>1 DEF Widgets
<1>3. Sound(Z) /\ Whole(Z)
  BY <1>2 DEF Sound, Whole
<1>4. ei_toplevel_configure(W, args) = V
  BY DEF ei_toplevel_configure
<1> HIDE DEF Z
<1>5. /\ P \in Widgets /\ P.class = W.class /\ P.cell = W.cell
      /\ W.given \subseteq P.given /\ P.given \subseteq W.given \cup Plain(W.class)
      /\ P.shared = W.shared /\ P.leaked = W.leaked /\ P.fault = "none"
  BY <1>2, <1>3, PlainIs
<1> HIDE DEF P
<1>6. /\ F \in Widgets /\ F.class = P.class
      /\ F.cell["title"] = "freed" /\ \A b \in Attribute \ {"title"} : F.cell[b] = P.cell[b]
      /\ F.given = P.given /\ F.shared = P.shared /\ F.fault = P.fault /\ F.leaked = P.leaked
  BY <1>1, <1>5, FreeIs
<1> HIDE DEF F
<1>7. /\ A \in Widgets /\ A.class = F.class
      /\ A.cell["title"] = "own" /\ \A b \in Attribute \ {"title"} : A.cell[b] = F.cell[b]
      /\ A.given = F.given /\ A.shared = F.shared /\ A.fault = F.fault
      /\ A.leaked = (F.leaked \/ F.cell["title"] = "own")
  BY <1>1, <1>6, AllocIs
<1> HIDE DEF A
<1>8. /\ X \in Widgets /\ X.class = A.class /\ X.cell = A.cell
      /\ A.given \subseteq X.given /\ X.given \subseteq A.given \cup {"title"}
      /\ X.shared = A.shared /\ X.leaked = A.leaked /\ X.fault = A.fault
  <2>1. A \in Widgets /\ "title" \in Attribute /\ A.cell["title"] = "own"
    BY <1>1, <1>7
  <2> QED BY <2>1, StoreIs
<1> HIDE DEF X
<1>9. /\ T \in Widgets /\ T.class = W.class
      /\ \A a \in Attribute : T.cell[a] = W.cell[a]
      /\ W.given \subseteq T.given /\ T.given \subseteq W.given \cup Plain(W.class)
      /\ T.shared \subseteq W.shared \cup {a \in {"title", "img"} : Gives(args, a, "some")}
      /\ "img" \in T.shared => "img" \in W.shared
      /\ T.leaked = W.leaked /\ T.fault = "none"
  <2>1. CASE "title" \notin DOMAIN args
    BY <1>5, <2>1
  <2>2. CASE "title" \in DOMAIN args
    <3>1. T = [X EXCEPT !.shared = @ \cup {"title"}]
      BY <2>2
    <3>2. Gives(args, "title", "some")
      BY <1>1, <2>2, ArgsAre DEF Gives, Values
    <3> HIDE DEF T
    <3>3. /\ T \in Widgets /\ T.class = X.class /\ T.cell = X.cell /\ T.given = X.given
          /\ T.shared = X.shared \cup {"title"} /\ T.leaked = X.leaked /\ T.fault = X.fault
      BY <1>8, <3>1 DEF Widgets
    <3>4. W.cell["title"] = "own"
      BY <1>1 DEF Whole
    <3>5. \A a \in Attribute : T.cell[a] = W.cell[a]
      BY <1>1, <1>5, <1>6, <1>7, <1>8, <3>3, <3>4
    <3>6. W.given \subseteq T.given /\ T.given \subseteq W.given \cup Plain(W.class)
      BY <1>1, <1>5, <1>6, <1>7, <1>8, <3>3
    <3>7. /\ T.shared \subseteq W.shared \cup {a \in {"title", "img"} : Gives(args, a, "some")}
          /\ "img" \in T.shared => "img" \in W.shared
      BY <1>5, <1>6, <1>7, <1>8, <3>2, <3>3
    <3>8. T.leaked = W.leaked /\ T.fault = "none" /\ T.class = W.class
      BY <1>5, <1>6, <1>7, <1>8, <3>3 DEF Widgets
    <3> QED BY <3>3, <3>5, <3>6, <3>7, <3>8
  <2> QED BY <2>1, <2>2
<1> HIDE DEF T
<1>10. /\ V \in Widgets /\ V.class = T.class /\ V.cell = T.cell /\ V.given = T.given
       /\ V.shared = T.shared /\ V.leaked = T.leaked
       /\ ~Gives(args, "min_size", "null") => V.fault = T.fault
  BY <1>9 DEF Widgets
<1> HIDE DEF V
<1>11. Sound(V)
  <2>1. V.given \subseteq Plain(V.class) \cup Optional(V.class)
    BY <1>9, <1>10 DEF Sound
  <2>2. \A a \in V.shared : V.cell[a] # "null"
    <3>1. V.shared \subseteq {"title", "img"}
      BY <1>10 DEF Widgets
    <3>2. W.cell["title"] = "own"
      BY <1>1 DEF Whole
    <3> QED BY <1>1, <1>9, <1>10, <3>1, <3>2 DEF Sound
  <2> QED BY <1>9, <1>10, <2>1, <2>2 DEF Sound
<1>12. Whole(V)
  <2>1. \A a \in Attribute \ Optional(W.class) : V.cell[a] = W.cell[a]
    BY <1>9, <1>10
  <2>2. V.cell["text"] = "null" \/ V.cell["img"] = "null"
    BY <1>1, <1>9, <1>10 DEF Whole
  <2> QED BY <1>1, <1>9, <1>10, <2>1, <2>2, StaysWhole
<1>13. Clean(W) /\ Tidy(W, args) => Clean(V)
  BY <1>9, <1>10 DEF Clean, Tidy
<1> QED BY <1>4, <1>9, <1>10, <1>11, <1>12, <1>13 DEF Becomes

LEMMA ConfiguredBecomes ==
  ASSUME NEW W, Sound(W), Whole(W), W.fault = "none", NEW args \in Args(W.class),
         ~({"text", "img"} \subseteq DOMAIN args)
  PROVE  Becomes(W, configured(W, args), args)
<1>1. W.class \in {"frame", "button", "toplevel"}
  BY DEF Sound, Widgets, Class
<1>2. CASE W.class = "frame"
  BY <1>2, FrameBecomes DEF configured
<1>3. CASE W.class = "button"
  BY <1>3, ButtonBecomes DEF configured
<1>4. CASE W.class = "toplevel"
  BY <1>4, ToplevelBecomes DEF configured
<1> QED BY <1>1, <1>2, <1>3, <1>4


-----------------------------------------------------------------------------
(* Notification and release.                                               *)
LEMMA NotifiedIs ==
  ASSUME NEW W, Sound(W), W.fault = "none" => Whole(W)
  PROVE  LET V == geomnotify(W)
         IN  /\ V.class = W.class /\ Sound(V) /\ W.given \subseteq V.given
             /\ V.fault = "none" => Whole(V)
             /\ \A a \in Attribute \ {"content_rect"} : V.cell[a] = W.cell[a]
             /\ V.shared \subseteq W.shared
             /\ Clean(W) => Clean(V)
<1> DEFINE V == geomnotify(W)
<1>1. /\ W \in Widgets /\ W.class \in Class /\ W.class \in {"frame", "button", "toplevel"}
      /\ W.cell \in [Attribute -> Cell] /\ W.border \in {"zero", "some"}
      /\ "content_rect" \in Attribute /\ "text" \in Attribute /\ "img" \in Attribute
      /\ "content_rect" \notin Plain(W.class) /\ "content_rect" \notin Optional(W.class)
      /\ "content_rect" \notin W.given /\ "content_rect" \notin W.shared
      /\ Plain(W.class) \subseteq Attribute /\ Optional(W.class) \subseteq Attribute
      /\ W.shared \subseteq Attribute
  BY Names DEF Sound, Widgets, Class
<1>2. /\ V \in Widgets /\ V.class = W.class /\ V.fault = W.fault /\ V.border = W.border
      /\ V.given \subseteq W.given /\ W.given \subseteq V.given
      /\ \A a \in Attribute \ {"content_rect"} : V.cell[a] = W.cell[a]
      /\ V.cell["content_rect"] = W.cell["content_rect"]
           \/ V.cell["content_rect"] \in {"own", "screen"}
      /\ V.shared \subseteq W.shared
      /\ W.class # "toplevel" /\ W.border = "zero" /\ W.cell["content_rect"] = "screen"
           => V.cell["content_rect"] = "screen"
      /\ Clean(W) => ~V.leaked
  <2>4. \/ V = W
        \/ /\ V = Alloc(W, "content_rect")
           /\ \/ W.class = "toplevel" /\ W.cell["content_rect"] # "own"
              \/ W.border = "some" /\ W.cell["content_rect"] = "screen"
        \/ /\ V = [Drop(W, "content_rect") EXCEPT !.cell["content_rect"] = "screen"]
           /\ W.class = "button" /\ W.border # "some"
    BY <1>1 DEF geomnotify, geomnotifyframe, geomnotifybutton, geomnotifytoplevel, InsideBorder
  <2> HIDE DEF V
  <2>1. CASE V = W
    BY <1>1, <2>1 DEF Clean
  <2>2. CASE /\ V = Alloc(W, "content_rect")
             /\ \/ W.class = "toplevel" /\ W.cell["content_rect"] # "own"
                \/ W.border = "some" /\ W.cell["content_rect"] = "screen"
    BY <1>1, <2>2, AllocIs DEF Clean
  <2>3. CASE /\ V = [Drop(W, "content_rect") EXCEPT !.cell["content_rect"] = "screen"]
             /\ W.class = "button" /\ W.border # "some"
    <3> DEFINE D == Drop(W, "content_rect")
    <3>1. /\ D \in Widgets /\ D.class = W.class /\ D.border = W.border
          /\ D.cell["content_rect"] = "null"
          /\ \A b \in Attribute \ {"content_rect"} : D.cell[b] = W.cell[b]
          /\ D.fault = W.fault /\ D.given \subseteq W.given
          /\ W.given \ {"content_rect"} \subseteq D.given /\ D.shared \subseteq W.shared
          /\ D.leaked = (W.leaked \/ W.cell["content_rect"] = "own")
      BY <1>1, DropIs
    <3>2. V = [D EXCEPT !.cell["content_rect"] = "screen"]
      BY <2>3
    <3> HIDE DEF D
    <3>3. /\ V \in Widgets /\ V.class = D.class /\ V.border = D.border
          /\ V.cell["content_rect"] = "screen"
          /\ \A b \in Attribute \ {"content_rect"} : V.cell[b] = D.cell[b]
          /\ V.fault = D.fault /\ V.given = D.given /\ V.shared = D.shared
          /\ V.leaked = D.leaked
      BY <1>1, <3>1, <3>2 DEF Widgets, Cell
    <3>4. V.given \subseteq W.given /\ W.given \subseteq V.given
      BY <1>1, <3>1, <3>3
    <3>5. Clean(W) => ~V.leaked
      BY <1>1, <2>3, <3>1, <3>3 DEF Clean
    <3> QED BY <3>1, <3>3, <3>4, <3>5
  <2> QED BY <2>1, <2>2, <2>3, <2>4
<1> HIDE DEF V
<1>3. Sound(V)
  <2>1. \A a \in V.shared : V.cell[a] = W.cell[a]
    BY <1>1, <1>2
  <2> QED BY <1>2, <2>1, StaysSound
<1>4. V.fault = "none" => Whole(V)
  <2> HAVE V.fault = "none"
  <2>1. Whole(W)
    BY <1>2
  <2>2. /\ \A a \in Plain(V.class) : V.cell[a] = "own"
        /\ \A a \in Optional(V.class) : V.cell[a] \in {"null", "own"}
    BY <1>1, <1>2, <2>1 DEF Whole
  <2>3. V.cell["content_rect"] \in {"own", "screen"}
    BY <1>2, <2>1 DEF Whole
  <2>4. /\ \A a \in Attribute \ (Plain(V.class) \cup Optional(V.class) \cup {"content_rect"}) :
             V.cell[a] = "null"
        /\ "null" \in {V.cell["text"], V.cell["img"]}
    BY <1>1, <1>2, <2>1 DEF Whole
  <2> QED BY <2>2, <2>3, <2>4 DEF Whole
<1>5. Clean(W) => Clean(V)
  BY <1>1, <1>2 DEF Clean
<1> QED BY <1>2, <1>3, <1>4, <1>5 DEF V

LEMMA ReleasedIs ==
  ASSUME NEW W, Sound(W), Whole(W), W.fault = "none"
  PROVE  LET V == release(W)
         IN  /\ Sound(V) /\ V.fault = "none" /\ V.class = W.class
             /\ V.given = W.given /\ V.leaked = W.leaked
             /\ \A a \in Attribute : V.cell[a] # "own"
<1> DEFINE S == Held(W)
           V == Freed(W, S)
<1>1. /\ W \in Widgets /\ W.class \in Class /\ W.class \in {"frame", "button", "toplevel"}
      /\ W.cell \in [Attribute -> Cell] /\ W.shared \subseteq Attribute
      /\ \A a \in Attribute : a \in Plain(W.class) \/ a \in Optional(W.class)
                                \/ a = "content_rect" \/ W.cell[a] = "null"
  BY Names DEF Sound, Whole, Widgets, Class
<1>2. release(W) = V
  <2>1. CASE W.class = "frame"
    <3>1. W.cell["relief"] # "null"
      BY <1>1, <2>1, Names DEF Whole
    <3>2. {a \in Held(W) : a = "color" => W.cell["relief"] # "null"} = Held(W)
      BY <3>1
    <3> QED BY <2>1, <3>2 DEF release, releaseframe
  <2>2. CASE W.class = "button"
    BY <2>2 DEF release, releasebutton
  <2>3. CASE W.class = "toplevel"
    BY <2>3 DEF release, releasetoplevel
  <2> QED BY <1>1, <2>1, <2>2, <2>3
<1>3. \A a \in Attribute : W.cell[a] # "freed"
  BY <1>1 DEF Whole
<1>4. \A a \in Attribute : a \in S <=> W.cell[a] = "own"
  BY <1>3 DEF Held
<1>5. S \subseteq Attribute
  BY DEF Held
<1> HIDE DEF S
<1>6. /\ V \in Widgets /\ V.class = W.class /\ V.given = W.given /\ V.shared = W.shared
      /\ V.leaked = W.leaked
      /\ V.cell = [a \in Attribute |-> IF a \in S THEN "freed" ELSE W.cell[a]]
  BY <1>1 DEF Freed, Widgets, Cell
<1>7. V.fault = "none"
  <2>1. ~(\E a \in S : W.cell[a] = "freed")
    BY <1>3, <1>5
  <2> QED BY <1>1, <2>1 DEF Freed, Widgets
<1> HIDE DEF V
<1>8. \A a \in Attribute : V.cell[a] # "own"
  BY <1>4, <1>6
<1>9. Sound(V)
  <2>1. \A a \in V.shared : V.cell[a] = W.cell[a] \/ V.cell[a] # "null"
    BY <1>1, <1>6
  <2> QED BY <1>6, <2>1, StaysSound
<1> QED BY <1>2, <1>6, <1>7, <1>8, <1>9


-----------------------------------------------------------------------------
(* The inductive invariant.                                                *)
LEMMA InvInit == Init => Inv
<1> SUFFICES ASSUME Init PROVE Inv
  OBVIOUS
<1>1. PICK c \in Class : w = Blank(c)
  BY DEF Init
<1>2. /\ w \in Widgets /\ w.class = c /\ w.given = {} /\ w.shared = {}
      /\ w.leaked = FALSE /\ w.fault = "none"
  BY <1>1 DEF Blank, Widgets, Cell
<1>3. Sound(w)
  BY <1>2 DEF Sound
<1> QED BY <1>1, <1>2, <1>3 DEF Inv, Init

(* The defaults make a widget whole.                                       *)
LEMMA DefaultsAre ==
  ASSUME NEW c \in Class, NEW border \in {"zero", "some"}
  PROVE  LET V == Defaults(Blank(c), border)
         IN  Sound(V) /\ Whole(V) /\ Clean(V) /\ V.shared = {}
<1> DEFINE B == Blank(c)
           V == Defaults(B, border)
<1>1. /\ B \in Widgets /\ B.class = c /\ B.given = {} /\ B.shared = {}
      /\ B.leaked = FALSE /\ B.fault = "none"
  BY DEF Blank, Widgets, Cell
<1> HIDE DEF B
<1>2. /\ V.class = c /\ V.given = {} /\ V.shared = {} /\ V.leaked = FALSE
      /\ V.fault = "none" /\ V.border = border
      /\ V.cell = [a \in Attribute |-> CASE a \in Plain(c)        -> "own"
                                         [] a = "content_rect"    -> "screen"
                                         [] OTHER                 -> "null"]
  BY <1>1 DEF Defaults, Widgets
<1>3. V \in Widgets
  <2>1. V.cell \in [Attribute -> Cell]
    BY <1>2 DEF Cell
  <2>2. V = [[B EXCEPT !.cell = V.cell] EXCEPT !.border = border]
    BY <1>1, <1>2 DEF Defaults, Widgets
  <2> QED BY <1>1, <2>1, <2>2 DEF Widgets
<1> HIDE DEF V
<1>4. /\ \A a \in Plain(c) : V.cell[a] = "own"
      /\ V.cell["content_rect"] = "screen"
      /\ \A a \in Attribute \ (Plain(c) \cup {"content_rect"}) : V.cell[a] = "null"
  <2>1. Plain(c) \subseteq Attribute /\ "content_rect" \in Attribute
          /\ "content_rect" \notin Plain(c)
    BY Names
  <2> HIDE DEF Attribute
  <2> QED BY <1>2, <2>1
<1>5. \A a \in Optional(c) : V.cell[a] = "null"
  BY <1>4, Names
<1>6. V.cell["text"] = "null"
  BY <1>4, Names
<1>7. Sound(V)
  BY <1>2, <1>3 DEF Sound
<1>8. Whole(V)
  BY <1>2, <1>4, <1>5, <1>6 DEF Whole
<1>9. Clean(V)
  BY <1>2, <1>4 DEF Clean
<1> QED BY <1>2, <1>7, <1>8, <1>9 DEF V, B

LEMMA ConfigureBecomes ==
  ASSUME Inv, NEW args \in Args(w.class), configure(args)
  PROVE  /\ Becomes(w, w', args) /\ life = "live" /\ Whole(w) /\ Sound(w)
         /\ \A a \in {"title", "img"} : Gives(args, a, "some") => Memory(a) \notin discarded
<1> DEFINE C == configured(w, args)
<1>1. /\ life = "live" /\ w.fault = "none" /\ Sound(w) /\ Whole(w)
      /\ ~({"text", "img"} \subseteq DOMAIN args)
      /\ \A a \in {"title", "img"} : Gives(args, a, "some") => Memory(a) \notin discarded
      /\ w' = C \/ w' = geomnotify(C)
  BY DEF Inv, configure, Runs
<1>2. Becomes(w, C, args)
  BY <1>1, ConfiguredBecomes
<1> HIDE DEF C
<1>3. CASE w' = geomnotify(C)
  <2> DEFINE V == geomnotify(C)
  <2>1. /\ V.class = C.class /\ Sound(V) /\ C.given \subseteq V.given
        /\ V.fault = "none" => Whole(V)
        /\ \A a \in Attribute \ {"content_rect"} : V.cell[a] = C.cell[a]
        /\ V.shared \subseteq C.shared
        /\ Clean(C) => Clean(V)
    BY <1>2, NotifiedIs DEF Becomes
  <2> HIDE DEF V
  <2>2. {"text", "img"} \subseteq Attribute
    BY Names DEF Class
  <2>3. \A a \in w.given \ V.given : a \in {"text", "img"} /\ V.cell[a] = "null"
    BY <1>2, <2>1, <2>2 DEF Becomes
  <2>4. Becomes(w, V, args)
    BY <1>2, <2>1, <2>3 DEF Becomes
  <2> QED BY <1>1, <1>3, <2>4 DEF V
<1> QED BY <1>1, <1>2, <1>3

LEMMA InvNext == Inv /\ [Next]_vars => Inv'
<1> SUFFICES ASSUME Inv, [Next]_vars PROVE Inv'
  OBVIOUS
<1> USE DEF Inv
<1>1. CASE ei_widget_create
  <2>1. PICK c \in Class : w = Blank(c) /\ w.class = c
    BY <1>1 DEF ei_widget_create, Inv, Sound, Widgets
  <2>2. w' = Defaults(Blank(c), "zero") \/ w' = Defaults(Blank(c), "some")
    BY <1>1, <2>1 DEF ei_widget_create, setdefaultsframe, setdefaultsbutton,
                      setdefaultstoplevel, Class
  <2>3. Sound(w') /\ Whole(w') /\ Clean(w') /\ w'.shared = {}
    BY <2>2, DefaultsAre
  <2>4. /\ life' = "live" /\ UNCHANGED <<managed, discarded, tidy>>
    BY <1>1 DEF ei_widget_create
  <2> QED BY <2>3, <2>4 DEF Clean
<1>2. ASSUME NEW args \in Args(w.class), configure(args) PROVE Inv'
  <2>1. /\ Becomes(w, w', args) /\ life = "live" /\ Whole(w) /\ Sound(w)
        /\ \A a \in {"title", "img"} : Gives(args, a, "some") => Memory(a) \notin discarded
    BY <1>2, ConfigureBecomes
  <2>2. tidy' = (tidy /\ Tidy(w, args)) /\ UNCHANGED <<life, managed, discarded>>
    BY <1>2 DEF configure
  <2>3. tidy' => Clean(w')
    BY <2>1, <2>2 DEF Becomes
  <2>4. tidy' => \A a \in w'.shared : Memory(a) \notin discarded
    BY <2>1, <2>2 DEF Becomes
  <2>5. tidy' \in BOOLEAN
    BY <2>2
  <2> QED BY <2>1, <2>2, <2>3, <2>4, <2>5 DEF Becomes, Clean
<1>3. ASSUME NEW args \in Args(w.class), configure_both(args) PROVE Inv'
  BY <1>3 DEF configure_both, Runs
<1>4. CASE ei_place
  <2>1. /\ life = "live" /\ Whole(w) /\ w.fault = "none"
        /\ w' = w \/ w' = geomnotify(w)
        /\ managed' = TRUE /\ UNCHANGED <<life, discarded, tidy>>
    BY <1>4 DEF ei_place, Runs
  <2>2. /\ Sound(w') /\ (w'.fault = "none" => Whole(w')) /\ w'.shared \subseteq w.shared
        /\ Clean(w) => Clean(w')
    <3>1. CASE w' = w
      BY <2>1, <3>1
    <3>2. CASE w' = geomnotify(w)
      BY <2>1, <3>2, NotifiedIs
    <3> QED BY <2>1, <3>1, <3>2
  <2> QED BY <2>1, <2>2 DEF Clean
<1>5. CASE ei_geometrymanager_unmap
  BY <1>5 DEF ei_geometrymanager_unmap, Runs
<1>6. CASE ei_widget_destroy
  <2>1. /\ life = "live" /\ Whole(w) /\ w.fault = "none" /\ life' = "released"
        /\ managed' = FALSE /\ w' = release(w) /\ UNCHANGED <<discarded, tidy>>
    BY <1>6 DEF ei_widget_destroy, Runs
  <2>2. /\ Sound(w') /\ w'.fault = "none" /\ w'.leaked = w.leaked
        /\ \A a \in Attribute : w'.cell[a] # "own"
    BY <2>1, ReleasedIs
  <2> QED BY <2>1, <2>2
<1>7. ASSUME NEW m \in {"string", "surface"}, Discard(m) PROVE Inv'
  <2>1. /\ life = "live" /\ Whole(w) /\ w.fault = "none" /\ discarded' = discarded \cup {m}
        /\ tidy' = (tidy /\ ~Lent(w, m)) /\ UNCHANGED <<life, w, managed>>
    BY <1>7 DEF Discard, Runs
  <2>2. "title" \in w.shared => Lent(w, "string")
    BY DEF Lent, Sound
  <2>3. "img" \in w.shared => Lent(w, "surface")
    <3> HAVE "img" \in w.shared
    <3>1. w.class = "frame" /\ w.class \in Class /\ w.cell["img"] # "null"
      BY DEF Sound, Widgets
    <3>2. "img" \in Optional(w.class)
      BY <3>1, Names
    <3> QED BY <2>1, <3>1, <3>2 DEF Lent, Whole
  <2>4. tidy' => \A a \in w.shared : Memory(a) \notin discarded'
    <3> SUFFICES ASSUME tidy', NEW a \in w.shared PROVE Memory(a) \notin discarded'
      OBVIOUS
    <3>1. a \in {"title", "img"}
      BY DEF Sound, Widgets
    <3> QED BY <2>1, <2>2, <2>3, <3>1 DEF Memory
  <2>5. tidy' \in BOOLEAN /\ (tidy' => tidy)
    BY <2>1
  <2> QED BY <2>1, <2>4, <2>5
<1>8. CASE UNCHANGED vars
  BY <1>8 DEF vars
<1> QED BY <1>1, <1>2, <1>3, <1>4, <1>5, <1>6, <1>7, <1>8 DEF Next

LEMMA Invariance == Spec => []Inv
BY InvInit, InvNext, PTL DEF Spec

(* Pointers, values and histories keep their types, in every call of every *)
(* class.                                                                  *)
THEOREM TypeCorrect == Spec => []TypeOK
<1>1. Inv => TypeOK
  <2> SUFFICES ASSUME Inv PROVE TypeOK
    OBVIOUS
  <2>1. /\ w \in Widgets /\ w.given \subseteq Plain(w.class) \cup Optional(w.class)
        /\ \A a \in w.shared : w.cell[a] # "null"
    BY DEF Inv, Sound
  <2>2. /\ life \in {"unborn", "live", "released", "exited"}
        /\ managed \in BOOLEAN /\ tidy \in BOOLEAN /\ discarded \subseteq {"string", "surface"}
    BY DEF Inv
  <2>3. w.given \subseteq Watched \cap (Plain(w.class) \cup Optional(w.class))
    BY <2>1 DEF Widgets
  <2>4. w.shared \subseteq {a \in {"title", "img"} : w.cell[a] # "null"}
    BY <2>1 DEF Widgets
  <2>5. /\ w.class \in Class /\ w.cell \in [Attribute -> Cell] /\ w.border \in {"zero", "some"}
        /\ w.requested \in {"zero", "default", "natural", "given"}
        /\ w.leaked \in BOOLEAN
        /\ w.fault \in {"none", "bad_write", "null_read", "double_free"}
    BY <2>1 DEF Widgets
  <2> QED BY <2>2, <2>3, <2>4, <2>5 DEF TypeOK
<1> QED BY <1>1, Invariance, PTL

(* A program that keeps its obligations (Tidy, Lent) loses no cell, never  *)
(* has the library use one that is freed or null, and is not ended by the  *)
(* configure functions.                                                    *)
THEOREM TidyProgramsAreSafe == Spec => []TidyIsSafe
<1>1. Inv => TidyIsSafe
  BY DEF Inv, TidyIsSafe
<1> QED BY <1>1, Invariance, PTL

(* What the draw functions read without a test is there.                   *)
THEOREM AlwaysDrawable == Spec => []Drawable
<1>1. Inv => Drawable
  BY DEF Inv, Drawable, Whole
<1> QED BY <1>1, Invariance, PTL

(* The release functions free every cell left, each once.                  *)
THEOREM AllIsReleased == Spec => []ReleasedWhole
<1>1. Inv => ReleasedWhole
  BY DEF Inv, ReleasedWhole
<1> QED BY <1>1, Invariance, PTL

(* A widget of a program that keeps its obligations never leads to memory  *)
(* the program has freed.                                                  *)
THEOREM NothingFreedIsShown == Spec => []ShownIsLive
<1>1. Inv => ShownIsLive
  BY DEF Inv, ShownIsLive
<1> QED BY <1>1, Invariance, PTL

(* No call takes a value of the program from an attribute, but for a text  *)
(* or an image, whose cell is then gone.                                   *)
THEOREM GivenAttributesStay == Spec => GivenStays
<1> DEFINE Step == \A a \in w.given \ w'.given : a \in {"text", "img"} /\ w'.cell[a] = "null"
<1>1. Inv /\ [Next]_vars => [Step]_vars
  <2> SUFFICES ASSUME Inv, Next PROVE Step
    BY DEF vars
  <2>1. CASE ei_widget_create
    <3>1. w.given = {}
      BY <2>1 DEF ei_widget_create, Inv, Blank
    <3> QED BY <3>1
  <2>2. ASSUME NEW args \in Args(w.class), configure(args) PROVE Step
    BY <2>2, ConfigureBecomes DEF Becomes
  <2>3. CASE ei_place
    <3>1. w.given \subseteq w'.given
      BY <2>3, NotifiedIs DEF ei_place, Runs, Inv
    <3> QED BY <3>1
  <2>4. CASE ei_widget_destroy
    <3>1. w'.given = w.given
      BY <2>4, ReleasedIs DEF ei_widget_destroy, Runs, Inv
    <3> QED BY <3>1
  <2>5. CASE UNCHANGED w
    BY <2>5
  <2> QED BY <2>1, <2>2, <2>3, <2>4, <2>5
          DEF Next, configure_both, ei_geometrymanager_unmap, Discard, vars
<1> QED BY <1>1, Invariance, PTL DEF Spec, GivenStays

=============================================================================
