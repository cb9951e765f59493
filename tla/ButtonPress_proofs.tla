------------------------- MODULE ButtonPress_proofs -------------------------
(***************************************************************************)
(* Proofs about ButtonPress, for every list of classes, every layout of    *)
(* the channels in a pixel and every number of widgets: colours lead back  *)
(* to their widgets, classes outlive their use, buttons are sunken only    *)
(* while pressed, and clicks and callbacks are the same.                   *)
(***************************************************************************)
EXTENDS ButtonPress, SequencesExt, SequenceTheorems, WellFoundedInduction, TLAPS

NatLess == {p \in Nat \X Nat : p[1] < p[2]}

(* A set of naturals that is not empty has a least element.                *)
LEMMA Smallest ==
  ASSUME NEW S \in SUBSET Nat, S # {}
  PROVE  \E n \in S : \A m \in S : n <= m
<1>1. IsWellFoundedOn(NatLess, Nat)
  BY NatLessThanWellFounded DEF NatLess, OpToRel
<1>2. PICK n \in S : \A m \in S : ~ (<<m, n>> \in NatLess)
  BY <1>1, WFMin
<1>3. \A n_1, m \in Nat : <<m, n_1>> \in NatLess <=> m < n_1
  BY DEF NatLess
<1>4. \A m \in S : ~ (m < n)
  BY <1>2, <1>3
<1> QED BY <1>4

(* Division.                                                               *)
LEMMA Euclid ==
  ASSUME NEW n \in Nat, NEW d \in Nat \ {0}
  PROVE  n = d * (n \div d) + (n % d) /\ n \div d \in Nat /\ n % d \in 0 .. d - 1
OBVIOUS

LEMMA DivUnique ==
  ASSUME NEW d \in Nat \ {0}, NEW q \in Nat, NEW r \in 0 .. d - 1
  PROVE  (d * q + r) \div d = q /\ (d * q + r) % d = r
OBVIOUS

LEMMA MulMono ==
  ASSUME NEW a \in Nat, NEW b \in Nat, NEW c \in Nat, a <= b
  PROVE  c * a <= c * b
OBVIOUS

(* Two divisions by c are one by its square.                               *)
LEMMA DivTwice ==
  ASSUME NEW c \in Nat \ {0}, NEW n \in Nat
  PROVE  n \div (c * c) = (n \div c) \div c
<1> DEFINE q == n \div c
           t == q \div c
           a == n % c
           b == q % c
<1>1. n = c * q + a /\ q \in Nat /\ a \in 0 .. c - 1
  BY Euclid
<1>2. q = c * t + b /\ t \in Nat /\ b \in 0 .. c - 1
  BY <1>1, Euclid
<1> HIDE DEF q, t, a, b
<1>3. c * q = (c * c) * t + c * b
  BY <1>1, <1>2
<1>4. c * b + a \in 0 .. (c * c) - 1
  <2>1. c * b <= c * (c - 1) /\ c * b \in Nat
    BY <1>2, MulMono
  <2>2. c * (c - 1) = (c * c) - c
    OBVIOUS
  <2> QED BY <1>1, <2>1, <2>2
<1>5. n = (c * c) * t + (c * b + a)
  BY <1>1, <1>2, <1>3
<1>6. c * c \in Nat \ {0}
  OBVIOUS
<1>7. n \div (c * c) = t
  BY <1>2, <1>4, <1>5, <1>6, DivUnique
<1> QED BY <1>7 DEF t, q

(* A number below the cube of c is known by its three digits.              *)
LEMMA ThreeDigits ==
  ASSUME NEW c \in Nat \ {0}, NEW m \in Nat, NEW n \in Nat, m < c * c * c, n < c * c * c,
         m % c = n % c,
         (m \div c) % c = (n \div c) % c,
         (m \div (c * c)) % c = (n \div (c * c)) % c
  PROVE  m = n
<1>1. ASSUME NEW k \in Nat, k < c * c * c
      PROVE  (k \div (c * c)) % c = (k \div c) \div c
  <2> DEFINE q == k \div c
             t == q \div c
             a == k % c
             b == q % c
  <2>1. k = c * q + a /\ q \in Nat /\ a \in 0 .. c - 1
    BY Euclid
  <2>2. q = c * t + b /\ t \in Nat /\ b \in 0 .. c - 1
    BY <2>1, Euclid
  <2>3. k \div (c * c) = t
    BY DivTwice
  <2> HIDE DEF q, t, a, b
  <2>4. t < c
    <3> SUFFICES ASSUME c <= t PROVE FALSE
      BY <2>2
    <3>1. c * c <= c * t /\ c * t \in Nat /\ c * c \in Nat
      BY <2>2, MulMono
    <3>2. c * t <= q
      BY <2>2, <3>1
    <3>3. c * c <= q
      BY <2>1, <3>1, <3>2
    <3>4. c * (c * c) <= c * q /\ c * q \in Nat
      BY <2>1, <3>1, <3>3, MulMono
    <3>5. c * q <= k
      BY <2>1, <3>4
    <3>6. c * (c * c) = c * c * c /\ c * c * c \in Nat
      OBVIOUS
    <3> QED BY <1>1, <3>4, <3>5, <3>6
  <2>5. t % c = t
    <3>1. t \in 0 .. c - 1
      BY <2>2, <2>4
    <3> QED BY <3>1
  <2> QED BY <2>3, <2>5 DEF t, q
<1>2. (m \div c) \div c = (n \div c) \div c
  BY <1>1
<1>3. ASSUME NEW k \in Nat
      PROVE  k = c * (k \div c) + (k % c) /\ k \div c \in Nat
  BY Euclid
<1>4. m \div c = n \div c
  <2>1. m \div c \in Nat /\ n \div c \in Nat
    BY <1>3
  <2>2. m \div c = c * ((m \div c) \div c) + ((m \div c) % c)
    BY <2>1, <1>3
  <2>3. n \div c = c * ((n \div c) \div c) + ((n \div c) % c)
    BY <2>1, <1>3
  <2> QED BY <2>2, <2>3, <1>2
<1>5. m = c * (m \div c) + (m % c) /\ n = c * (n \div c) + (n % c)
  BY <1>3
<1> QED BY <1>4, <1>5

(* RemoveAt and Reverse of SequencesExt, position by position.             *)
LEMMA RemoveAtIs ==
  ASSUME NEW S, NEW s \in Seq(S), NEW i \in 1 .. Len(s)
  PROVE  /\ RemoveAt(s, i) \in Seq(S)
         /\ Len(RemoveAt(s, i)) = Len(s) - 1
         /\ \A j \in 1 .. Len(s) - 1 : RemoveAt(s, i)[j] = IF j < i THEN s[j] ELSE s[j + 1]
<1> DEFINE a == SubSeq(s, 1, i - 1)
           b == SubSeq(s, i + 1, Len(s))
<1>1. a \in Seq(S) /\ Len(a) = i - 1 /\ \A j \in 1 .. i - 1 : a[j] = s[j]
  OBVIOUS
<1>2. b \in Seq(S) /\ Len(b) = Len(s) - i /\ \A j \in 1 .. Len(s) - i : b[j] = s[i + j]
  OBVIOUS
<1> HIDE DEF a, b
<1>3. a \o b \in Seq(S) /\ Len(a \o b) = Len(s) - 1
  <2>1. a \o b \in Seq(S) /\ Len(a \o b) = Len(a) + Len(b)
    BY <1>1, <1>2, ConcatProperties
  <2>2. Len(s) \in Nat /\ i \in 1 .. Len(s)
    OBVIOUS
  <2> QED BY <1>1, <1>2, <2>1, <2>2
<1>4. \A j \in 1 .. Len(s) - 1 : (a \o b)[j] = IF j < i THEN a[j] ELSE b[j - (i - 1)]
  BY <1>1, <1>2, ConcatProperties
<1>5. \A j \in 1 .. Len(s) - 1 : (a \o b)[j] = IF j < i THEN s[j] ELSE s[j + 1]
  BY <1>1, <1>2, <1>4
<1> QED BY <1>3, <1>5 DEF RemoveAt, a, b

LEMMA ReverseIs ==
  ASSUME NEW S, NEW s \in Seq(S)
  PROVE  /\ Reverse(s) \in Seq(S)
         /\ Len(Reverse(s)) = Len(s)
         /\ \A j \in 1 .. Len(s) : Reverse(s)[j] = s[Len(s) - j + 1]
BY DEF Reverse

-----------------------------------------------------------------------------
Registered == {registered[i] : i \in DOMAIN registered}

(* The registered classes have names of their own.                         *)
Classes ==
  /\ registered \in Seq(Structure) /\ freed \subseteq Structure
  /\ \A i, j \in DOMAIN registered : Name[registered[i]] = Name[registered[j]] => i = j
  /\ {RootClass, ButtonClass} \subseteq Registered
  /\ twice \in BOOLEAN
  /\ ~twice => Registered \cap freed = {}

(* The list of the children holds each widget once.                        *)
Widgets ==
  /\ wid_id \in 1 .. MaxId + 1
  /\ Root \in Live /\ Live \subseteq 0 .. wid_id - 1
  /\ widget \in [Live -> [class : Registered, relief : Relief]]
  /\ children \in Seq(Nat)
  /\ \A i, j \in DOMAIN children : children[i] = children[j] => i = j
  /\ {children[i] : i \in DOMAIN children} = Live \ {Root}

(* Each spot shows a widget that is alive.                                 *)
Screen ==
  /\ mouse \in Spot
  /\ surface \in [Spot -> {Pixel(w) : w \in Live}]

(* The variable of the library and what was pressed agree.                 *)
Gesture ==
  /\ {shifted, blind} \subseteq BOOLEAN
  /\ {button_pressed, called} \subseteq Buttons \cup {NULL}
  /\ pressed \in Live \cup {NULL}
  /\ button_pressed # NULL => pressed # NULL
  /\ (Fresh /\ button_pressed # NULL) => pressed = button_pressed
  /\ (Fresh /\ pressed \in Buttons) => button_pressed = pressed

Inv == Classes /\ Widgets /\ Screen /\ Gesture /\ SunkenIsPressed

-----------------------------------------------------------------------------
(* Two identifiers below the number of colours have two pixels.            *)
LEMMA PixelInjective ==
  ASSUME NEW v \in Nat, NEW w \in Nat,
         v < ChannelValues * ChannelValues * ChannelValues,
         w < ChannelValues * ChannelValues * ChannelValues,
         Pixel(v) = Pixel(w)
  PROVE  v = w
<1>1. ASSUME NEW id \in Nat, NEW c \in Channels
      PROVE  Pixel(id)[ChannelAt[c]] = pick_color(id)[c]
  <2> DEFINE at == ChannelAt[c]
  <2>1. at \in 0 .. 3
    BY ChannelAssumption
  <2>2. \A d \in Channels : ChannelAt[d] = at => d = c
    BY ChannelAssumption
  <2>3. (CHOOSE d \in Channels : ChannelAt[d] = at) = c
    BY <2>2
  <2> QED BY <2>1, <2>3 DEF Pixel
<1>2. \A c \in Channels : pick_color(v)[c] = pick_color(w)[c]
  BY <1>1
<1>3. /\ v % ChannelValues = w % ChannelValues
      /\ (v \div ChannelValues) % ChannelValues = (w \div ChannelValues) % ChannelValues
      /\ (v \div (ChannelValues * ChannelValues)) % ChannelValues
           = (w \div (ChannelValues * ChannelValues)) % ChannelValues
  BY <1>2 DEF Channels, pick_color
<1>4. ChannelValues \in Nat \ {0}
  BY ChannelAssumption
<1> QED BY <1>3, <1>4, ThreeDigits

(* What is picked is alive and of the colour, and nothing is picked only   *)
(* if no widget has the colour.                                            *)
LEMMA PickIs ==
  ASSUME Widgets, NEW p
  PROVE  \/ Pick(p) = NULL /\ \A w \in Live : Pixel(w) # p
         \/ Pick(p) \in Live /\ Pixel(Pick(p)) = p
<1> DEFINE all == <<Root>> \o children
           match == {i \in DOMAIN all : Pixel(all[i]) = p}
<1>1. /\ all \in Seq(Nat) /\ DOMAIN all = 1 .. Len(children) + 1
      /\ \A i \in 1 .. Len(children) + 1 : all[i] = IF i = 1 THEN Root ELSE children[i - 1]
  <2>1. <<Root>> \in Seq(Nat) /\ Len(<<Root>>) = 1 /\ <<Root>>[1] = Root
    BY DEF Root
  <2>2. children \in Seq(Nat) /\ Len(children) \in Nat
    BY DEF Widgets
  <2> QED BY <2>1, <2>2, ConcatProperties
<1>2. {all[i] : i \in DOMAIN all} = Live
  <2>1. Len(children) \in Nat /\ DOMAIN children = 1 .. Len(children)
    BY DEF Widgets
  <2>2. \A i \in 1 .. Len(children) : i + 1 \in DOMAIN all /\ all[i + 1] = children[i]
    BY <1>1, <2>1
  <2>3. 1 \in DOMAIN all /\ all[1] = Root
    BY <1>1, <2>1
  <2>4. \A i \in DOMAIN all : i = 1 \/ (i - 1 \in DOMAIN children /\ all[i] = children[i - 1])
    BY <1>1, <2>1
  <2> HIDE DEF all
  <2> QED BY <2>1, <2>2, <2>3, <2>4 DEF Widgets
<1>3. match \in SUBSET Nat
  BY <1>1
<1>4. CASE match = {}
  <2>1. Pick(p) = NULL
    BY <1>4 DEF Pick
  <2>2. \A i \in DOMAIN all : Pixel(all[i]) # p
    BY <1>4
  <2> HIDE DEF all
  <2> QED BY <2>1, <2>2, <1>2
<1>5. CASE match # {}
  <2> DEFINE first == CHOOSE i \in match : \A j \in match : i <= j
  <2>1. Pick(p) = all[first]
    BY <1>5 DEF Pick
  <2>2. first \in match
    <3> HIDE DEF match
    <3> QED BY <1>3, <1>5, Smallest
  <2>3. first \in DOMAIN all /\ Pixel(all[first]) = p
    BY <2>2
  <2> HIDE DEF all, first
  <2> QED BY <2>1, <2>3, <1>2
<1> QED BY <1>4, <1>5

LEMMA PickOnScreen ==
  ASSUME Widgets, Screen, NEW s \in Spot
  PROVE  Pick(surface[s]) \in Live /\ Pixel(Pick(surface[s])) = surface[s]
BY PickIs DEF Screen

LEMMA FreshInjective ==
  ASSUME Widgets, Fresh, NEW v \in Live, NEW w \in Live, Pixel(v) = Pixel(w)
  PROVE  v = w
<1> DEFINE n == ChannelValues * ChannelValues * ChannelValues
<1>1. n \in Nat
  BY ChannelAssumption
<1>2. wid_id \in Nat /\ wid_id <= n /\ v \in 0 .. wid_id - 1 /\ w \in 0 .. wid_id - 1
  BY IdAssumption DEF Widgets, Fresh
<1>3. v \in Nat /\ w \in Nat /\ v < n /\ w < n
  BY <1>1, <1>2
<1> QED BY <1>3, PixelInjective

LEMMA FreshPick ==
  ASSUME Widgets, Fresh, NEW w \in Live
  PROVE  Pick(Pixel(w)) = w
BY PickIs, FreshInjective

(* The first of a name is the one of the name.                             *)
LEMMA FromNameIs ==
  ASSUME Classes, NEW n
  PROVE  \/ from_name(n) = NULL /\ \A s \in Registered : Name[s] # n
         \/ from_name(n) \in Registered /\ Name[from_name(n)] = n
<1> DEFINE named == {i \in DOMAIN registered : Name[registered[i]] = n}
<1>1. named \in SUBSET Nat
  BY DEF Classes
<1>2. CASE named = {}
  BY <1>2 DEF from_name, Registered
<1>3. CASE named # {}
  <2> DEFINE first == CHOOSE i \in named : \A j \in named : i <= j
  <2>1. from_name(n) = registered[first]
    BY <1>3 DEF from_name
  <2>2. first \in named
    <3> HIDE DEF named
    <3> QED BY <1>1, <1>3, Smallest
  <2>3. first \in DOMAIN registered /\ Name[registered[first]] = n
    BY <2>2
  <2> HIDE DEF first
  <2> QED BY <2>1, <2>3 DEF Registered
<1> QED BY <1>2, <1>3

(* No two registered classes have a name.                                  *)
LEMMA OneOfAName ==
  ASSUME Classes, NEW s \in Registered, NEW t \in Registered, Name[s] = Name[t]
  PROVE  s = t
BY DEF Classes, Registered

LEMMA RegisteredAreStructures ==
  ASSUME Classes
  PROVE  Registered \subseteq Structure /\ NULL \notin Registered
BY NameAssumption DEF Classes, Registered

(* A button is known by the name of its class.                             *)
LEMMA ButtonByName ==
  ASSUME Classes, Widgets, NEW w \in Live
  PROVE  Dispatched(w) = Name[ButtonClass] <=> w \in Buttons
<1>1. widget[w].class \in Registered /\ ButtonClass \in Registered
  BY DEF Classes, Widgets
<1> QED BY <1>1, OneOfAName DEF Dispatched, Buttons

LEMMA NullIsNoWidget ==
  ASSUME Widgets
  PROVE  NULL \notin Live
BY IdAssumption DEF Widgets

-----------------------------------------------------------------------------
(* A relief changes, and nothing else of the widgets.                      *)
LEMMA RelievedIs ==
  ASSUME Widgets, NEW w \in Live, NEW r \in Relief, widget' = Relieved(w, r)
  PROVE  /\ Live' = Live /\ Buttons' = Buttons
         /\ widget' \in [Live -> [class : Registered, relief : Relief]]
         /\ \A v \in Live : widget'[v].class = widget[v].class
         /\ \A v \in Live : widget'[v].relief = IF v = w THEN r ELSE widget[v].relief
<1>1. widget \in [Live -> [class : Registered, relief : Relief]]
  BY DEF Widgets
<1>2. /\ DOMAIN widget' = DOMAIN widget
      /\ widget'[w] = [widget[w] EXCEPT !.relief = r]
      /\ \A v \in Live \ {w} : widget'[v] = widget[v]
  BY <1>1 DEF Relieved
<1>3. widget'[w] \in [class : Registered, relief : Relief]
      /\ widget'[w].class = widget[w].class /\ widget'[w].relief = r
  BY <1>1, <1>2
<1>4. widget' = [v \in Live |-> widget'[v]]
  BY <1>1, <1>2 DEF Relieved
<1>5. widget' \in [Live -> [class : Registered, relief : Relief]]
  BY <1>1, <1>2, <1>3, <1>4
<1>6. Live' = Live
  BY <1>2 DEF Live
<1>7. \A v \in Live : /\ widget'[v].class = widget[v].class
                    /\ widget'[v].relief = IF v = w THEN r ELSE widget[v].relief
  BY <1>2, <1>3
<1>8. Buttons' = Buttons
  BY <1>6, <1>7 DEF Buttons
<1> QED BY <1>5, <1>6, <1>7, <1>8

(* Widgets after a step that at most changes a relief.                     *)
LEMMA SameWidgets ==
  ASSUME Widgets, Screen, UNCHANGED <<registryVars, wid_id, children>>,
         Live' = Live, widget' \in [Live -> [class : Registered, relief : Relief]]
  PROVE  Widgets' /\ (mouse' \in Spot /\ surface' = surface => Screen')
<1>1. Registered' = Registered
  BY DEF registryVars, Registered
<1>2. Widgets'
  BY <1>1 DEF Widgets
<1>3. \A w : Pixel(w)' = Pixel(w)
  BY DEF Pixel, pick_color
<1> QED BY <1>2, <1>3 DEF Screen

LEMMA SameClasses ==
  ASSUME Classes, UNCHANGED <<registryVars, twice>>
  PROVE  Classes'
BY DEF Classes, Registered, registryVars

LEMMA DownStep ==
  ASSUME Inv, NEW side, Down(side)
  PROVE  Inv'
<1> DEFINE w == ei_widget_pick
<1>1. Classes'
  BY SameClasses DEF Inv, Down
<1>2. w \in Live /\ Pixel(w) = surface[mouse] /\ w # NULL
  BY PickOnScreen, NullIsNoWidget DEF Inv, Screen, ei_widget_pick
<1>3. \/ /\ side = "left" /\ w \in Buttons /\ pressing_over' = TRUE
         /\ button_pressed' = w /\ widget' = Relieved(w, "sunken")
      \/ /\ side # "left" \/ w \notin Buttons
         /\ UNCHANGED <<pressing_over, button_pressed, widget>>
  BY <1>2, ButtonByName DEF Inv, Down, button_down
<1>4. /\ Live' = Live /\ Buttons' = Buttons
      /\ widget' \in [Live -> [class : Registered, relief : Relief]]
      /\ \A v \in Live : widget'[v].relief = "sunken" =>
            \/ widget[v].relief = "sunken" /\ button_pressed' = button_pressed
               /\ pressing_over' = pressing_over
            \/ widget[v].relief = "sunken" /\ side = "left"
            \/ v = w /\ button_pressed' = w /\ pressing_over' = TRUE
  <2>1. CASE widget' = Relieved(w, "sunken") /\ button_pressed' = w /\ pressing_over' = TRUE
    BY <1>2, <1>3, <2>1, RelievedIs DEF Inv, Relief
  <2>2. CASE UNCHANGED <<pressing_over, button_pressed, widget>>
    BY <2>2 DEF Inv, Buttons, Live, Widgets
  <2> QED BY <1>3, <2>1, <2>2
<1>5. Widgets' /\ Screen'
  BY <1>4, SameWidgets DEF Inv, Down, Screen
<1>6. Fresh' = Fresh
  BY DEF Fresh, Down
<1>7. pressed' \in Live \cup {NULL} /\ (side = "left" => pressed' \in Live)
  BY DEF Inv, Gesture, Down, ShownAt
<1>8. side = "left" => pressed = NULL /\ button_pressed = NULL
  BY DEF Inv, Gesture, Down
<1>9. (Fresh /\ side = "left") => pressed' = w
  BY <1>2, FreshInjective DEF Inv, Down, ShownAt
<1>10. side # "left" => pressed' = pressed
  BY DEF Down
<1>11. Gesture'
  <2>1. {shifted', blind'} \subseteq BOOLEAN /\ called' = NULL
    BY DEF Inv, Gesture, Down, button_down
  <2>2. button_pressed' \in Buttons \cup {NULL}
    BY <1>3 DEF Inv, Gesture
  <2>3. CASE side = "left"
    BY <2>1, <2>2, <2>3, <1>2, <1>3, <1>4, <1>6, <1>7, <1>8, <1>9, NullIsNoWidget
       DEF Inv, Gesture
  <2>4. CASE side # "left"
    BY <2>1, <2>2, <2>4, <1>3, <1>4, <1>6, <1>7, <1>10 DEF Inv, Gesture
  <2> QED BY <2>3, <2>4
<1>12. SunkenIsPressed'
  <2>1. (Fresh /\ ~blind') => (~blind /\ ~shifted)
    BY DEF Inv, Gesture, Down
  <2>2. \A v \in Live : Pixel(v)' = Pixel(v)
    BY DEF Pixel, pick_color
  <2>3. surface' = surface /\ mouse' = mouse
    BY DEF Down
  <2>4. side = "left" /\ Fresh /\ ~blind => \A v \in Live : widget[v].relief # "sunken"
    BY <1>8, NullIsNoWidget DEF Inv, SunkenIsPressed
  <2> QED BY <1>2, <1>4, <1>6, <2>1, <2>2, <2>3, <2>4 DEF Inv, SunkenIsPressed
<1> QED BY <1>1, <1>5, <1>11, <1>12 DEF Inv

LEMMA UpStep ==
  ASSUME Inv, NEW side, Up(side)
  PROVE  Inv'
<1> DEFINE w == ei_widget_pick
<1>1. Classes'
  BY SameClasses DEF Inv, Up
<1>2. w \in Live /\ Pixel(w) = surface[mouse] /\ w # NULL
  BY PickOnScreen, NullIsNoWidget DEF Inv, Screen, ei_widget_pick
<1>3. \/ /\ side = "left" /\ button_pressed = w /\ pressing_over' = FALSE
         /\ button_pressed' = NULL /\ widget' = Relieved(w, "raised") /\ called' = w
      \/ /\ side = "left" /\ button_pressed # w /\ button_pressed' = NULL
         /\ UNCHANGED <<pressing_over, widget>> /\ called' = NULL
      \/ /\ side # "left" /\ called' = NULL
         /\ UNCHANGED <<pressing_over, button_pressed, widget>>
  BY <1>2 DEF Up, button_up
<1>4. /\ Live' = Live /\ Buttons' = Buttons
      /\ widget' \in [Live -> [class : Registered, relief : Relief]]
      /\ \A v \in Live : widget'[v].relief = "sunken" =>
            /\ widget[v].relief = "sunken"
            /\ \/ side = "left" /\ button_pressed = w /\ v # w
               \/ side = "left" /\ button_pressed # w
               \/ side # "left" /\ UNCHANGED <<pressing_over, button_pressed>>
  <2>1. CASE side = "left" /\ button_pressed = w /\ widget' = Relieved(w, "raised")
    <3>1. /\ Live' = Live /\ Buttons' = Buttons
          /\ widget' \in [Live -> [class : Registered, relief : Relief]]
          /\ \A v \in Live : widget'[v].relief = IF v = w THEN "raised" ELSE widget[v].relief
      BY <1>2, <2>1, RelievedIs DEF Inv, Relief
    <3> QED BY <2>1, <3>1
  <2>2. CASE /\ UNCHANGED widget
             /\ \/ side = "left" /\ button_pressed # w
                \/ side # "left" /\ UNCHANGED <<pressing_over, button_pressed>>
    BY <2>2 DEF Inv, Buttons, Live, Widgets
  <2> QED BY <1>3, <2>1, <2>2
<1>5. Widgets' /\ Screen'
  BY <1>4, SameWidgets DEF Inv, Up, Screen
<1>6. Fresh' = Fresh
  BY DEF Fresh, Up
<1>7. pressed' = IF side = "left" THEN NULL ELSE pressed
  BY DEF Up
<1>8. Gesture'
  <2>1. {shifted', blind'} \subseteq BOOLEAN
    BY DEF Inv, Gesture, Up
  <2>2. {button_pressed', called'} \subseteq Buttons \cup {NULL}
    BY <1>3 DEF Inv, Gesture
  <2>3. pressed' \in Live \cup {NULL}
    BY <1>7 DEF Inv, Gesture
  <2>4. CASE side = "left"
    BY <2>1, <2>2, <2>3, <2>4, <1>3, <1>4, <1>7, NullIsNoWidget DEF Inv, Gesture, Buttons
  <2>5. CASE side # "left"
    BY <2>1, <2>2, <2>3, <2>5, <1>3, <1>4, <1>6, <1>7 DEF Inv, Gesture
  <2> QED BY <2>4, <2>5
<1>9. SunkenIsPressed'
  <2>1. (Fresh /\ ~blind') => (~blind /\ ~shifted)
    BY DEF Inv, Gesture, Up
  <2>2. \A v \in Live : Pixel(v)' = Pixel(v)
    BY DEF Pixel, pick_color
  <2>3. surface' = surface /\ mouse' = mouse
    BY DEF Up
  <2>4. Fresh /\ ~blind /\ ~shifted =>
          \A v \in Live : widget[v].relief = "sunken" => v = w /\ button_pressed = w
    BY <1>2, FreshInjective DEF Inv, SunkenIsPressed
  <2> QED BY <1>4, <1>6, <2>1, <2>2, <2>3, <2>4 DEF Inv, SunkenIsPressed
<1> QED BY <1>1, <1>5, <1>8, <1>9 DEF Inv

LEMMA MoveStep ==
  ASSUME Inv, NEW s \in Spot, Move(s)
  PROVE  Inv'
<1> DEFINE w == Pick(surface[s])
           b == button_pressed
<1>1. Classes'
  BY SameClasses DEF Inv, Move
<1>2. w \in Live /\ Pixel(w) = surface[s] /\ w # NULL
  BY PickOnScreen, NullIsNoWidget DEF Inv
<1>3. \/ /\ b # NULL /\ w # b /\ widget' = Relieved(b, "raised") /\ pressing_over' = FALSE
      \/ /\ b # NULL /\ w = b /\ widget' = Relieved(b, "sunken") /\ pressing_over' = TRUE
      \/ /\ b # NULL => w = b \/ widget[b].relief # "sunken"
         /\ UNCHANGED <<widget, pressing_over>>
  BY <1>2 DEF Move, button_move
<1>4. b # NULL => b \in Live
  BY DEF Inv, Gesture, Buttons
<1>5. /\ Live' = Live /\ Buttons' = Buttons
      /\ widget' \in [Live -> [class : Registered, relief : Relief]]
      /\ \A v \in Live : widget'[v].relief = "sunken" =>
            \/ v = w /\ b = w /\ pressing_over' = TRUE
            \/ /\ widget[v].relief = "sunken"
               /\ \/ b # NULL /\ v # b
                  \/ b = NULL \/ w = b \/ widget[b].relief # "sunken"
               /\ (v = b => pressing_over' = pressing_over)
  <2>1. CASE b # NULL /\ w # b /\ widget' = Relieved(b, "raised")
    <3>1. /\ Live' = Live /\ Buttons' = Buttons
          /\ widget' \in [Live -> [class : Registered, relief : Relief]]
          /\ \A v \in Live : widget'[v].relief = IF v = b THEN "raised" ELSE widget[v].relief
      BY <1>4, <2>1, RelievedIs DEF Inv, Relief
    <3> QED BY <2>1, <3>1
  <2>2. CASE w = b /\ widget' = Relieved(b, "sunken") /\ pressing_over' = TRUE
    <3>1. /\ Live' = Live /\ Buttons' = Buttons
          /\ widget' \in [Live -> [class : Registered, relief : Relief]]
          /\ \A v \in Live : widget'[v].relief = IF v = b THEN "sunken" ELSE widget[v].relief
      BY <1>2, <2>2, RelievedIs DEF Inv, Relief
    <3> QED BY <1>2, <2>2, <3>1
  <2>3. CASE /\ b # NULL => w = b \/ widget[b].relief # "sunken"
             /\ UNCHANGED <<widget, pressing_over>>
    <3>1. /\ Live' = Live /\ Buttons' = Buttons
          /\ widget' \in [Live -> [class : Registered, relief : Relief]]
      BY <2>3 DEF Inv, Buttons, Live, Widgets
    <3> QED BY <2>3, <3>1
  <2> QED BY <1>3, <2>1, <2>2, <2>3
<1>6. Widgets' /\ Screen'
  BY <1>5, SameWidgets DEF Inv, Move, Screen
<1>7. Fresh' = Fresh
  BY DEF Fresh, Move
<1>8. Gesture'
  <2>1. UNCHANGED <<button_pressed, pressed, blind>> /\ called' = NULL /\ shifted' = FALSE
    BY DEF Move, button_move
  <2> QED BY <2>1, <1>5, <1>7 DEF Inv, Gesture
<1>9. SunkenIsPressed'
  <2>1. \A v \in Live : Pixel(v)' = Pixel(v)
    BY DEF Pixel, pick_color
  <2>2. blind' = blind /\ button_pressed' = b /\ surface' = surface /\ mouse' = s
    BY DEF Move, button_move
  <2>3. Fresh /\ ~blind => \A v \in Live : widget[v].relief = "sunken" => b = v /\ pressing_over
    BY DEF Inv, SunkenIsPressed
  <2> QED BY <1>2, <1>4, <1>5, <1>7, <2>1, <2>2, <2>3, NullIsNoWidget DEF Inv, SunkenIsPressed
<1> QED BY <1>1, <1>6, <1>8, <1>9 DEF Inv


LEMMA RegisterStep ==
  ASSUME Inv, NEW s \in Structure, ei_widgetclass_register(s)
  PROVE  Inv'
<1>1. Live' = Live /\ Buttons' = Buttons /\ Fresh' = Fresh
  BY DEF ei_widgetclass_register, Live, Buttons, Fresh
<1>2. \A w : Pixel(w)' = Pixel(w)
  BY DEF Pixel, pick_color
<1>3. registered \in Seq(Structure) /\ <<s>> \in Seq(Structure) /\ Len(<<s>>) = 1 /\ <<s>>[1] = s
  BY DEF Inv, Classes
<1>4. \/ from_name(Name[s]) # NULL /\ registered' = registered /\ freed' = freed \cup {s}
      \/ /\ from_name(Name[s]) = NULL /\ registered' = <<s>> \o registered /\ freed' = freed
         /\ s \notin freed
  BY DEF ei_widgetclass_register, register
<1>5. twice' \in BOOLEAN /\ (~twice' => ~twice /\ s \notin Registered)
  BY DEF Inv, Classes, ei_widgetclass_register, Registered
<1>6. Classes' /\ Registered \subseteq Registered'
  <2>1. CASE registered' = registered /\ freed' = freed \cup {s}
    BY <2>1, <1>5 DEF Inv, Classes, Registered
  <2>2. CASE /\ from_name(Name[s]) = NULL /\ registered' = <<s>> \o registered /\ freed' = freed
             /\ s \notin freed
    <3> DEFINE n == Len(registered)
    <3>1. n \in Nat /\ DOMAIN registered = 1 .. n
      BY <1>3
    <3>2. /\ registered' \in Seq(Structure) /\ Len(registered') = n + 1
          /\ \A i \in 1 .. n + 1 : registered'[i] = IF i = 1 THEN s ELSE registered[i - 1]
      BY <1>3, <2>2, <3>1, ConcatProperties
    <3>3. DOMAIN registered' = 1 .. n + 1
      BY <3>1, <3>2
    <3>4. \A t \in Registered : Name[t] # Name[s]
      BY <2>2, FromNameIs, RegisteredAreStructures DEF Inv
    <3>5. \A i \in 1 .. n : registered[i] \in Registered
      BY <3>1 DEF Registered
    <3>6. \A i \in 1 .. n : i + 1 \in 1 .. n + 1 /\ registered'[i + 1] = registered[i]
      BY <3>1, <3>2
    <3>7. registered'[1] = s /\ 1 \in 1 .. n + 1
      BY <3>1, <3>2
    <3>8. \A i \in 1 .. n + 1 : i = 1 \/ (i - 1 \in 1 .. n /\ registered'[i] = registered[i - 1])
      BY <3>1, <3>2
    <3>9. Registered' = Registered \cup {s}
      <4>1. Registered' = {registered'[i] : i \in 1 .. n + 1}
        BY <3>3 DEF Registered
      <4>2. Registered = {registered[i] : i \in 1 .. n}
        BY <3>1 DEF Registered
      <4>3. Registered \cup {s} \subseteq Registered'
        BY <4>1, <4>2, <3>6, <3>7
      <4>4. \A i \in 1 .. n + 1 : registered'[i] \in Registered \cup {s}
        BY <4>2, <3>7, <3>8
      <4> QED BY <4>1, <4>3, <4>4
    <3>10. \A i, j \in 1 .. n + 1 : Name[registered'[i]] = Name[registered'[j]] => i = j
      <4> SUFFICES ASSUME NEW i \in 1 .. n + 1, NEW j \in 1 .. n + 1,
                          Name[registered'[i]] = Name[registered'[j]]
                   PROVE  i = j
        OBVIOUS
      <4>1. CASE i = 1 \/ j = 1
        BY <4>1, <3>4, <3>5, <3>7, <3>8
      <4>2. CASE i # 1 /\ j # 1
        <5>1. i - 1 = j - 1
          BY <4>2, <3>1, <3>8 DEF Inv, Classes
        <5> QED BY <5>1, <3>1
      <4> QED BY <4>1, <4>2
    <3> HIDE DEF n
    <3> QED BY <1>5, <2>2, <3>2, <3>3, <3>9, <3>10 DEF Inv, Classes
  <2> QED BY <1>4, <2>1, <2>2
<1>7. Widgets'
  BY <1>1, <1>6 DEF Inv, Widgets, ei_widgetclass_register
<1>8. Screen'
  BY <1>1, <1>2 DEF Inv, Screen, ei_widgetclass_register
<1>9. Gesture'
  BY <1>1 DEF Inv, Gesture, ei_widgetclass_register, animation
<1>10. SunkenIsPressed'
  BY <1>1, <1>2 DEF Inv, SunkenIsPressed, ei_widgetclass_register, animation
<1> QED BY <1>6, <1>7, <1>8, <1>9, <1>10 DEF Inv

LEMMA CreateStep ==
  ASSUME Inv, NEW name, NEW relief \in {"none", "raised"}, ei_widget_create(name, relief)
  PROVE  Inv'
<1> DEFINE s == from_name(name)
<1>1. Classes'
  BY SameClasses DEF Inv, ei_widget_create
<1>2. Registered' = Registered
  BY DEF ei_widget_create, registryVars, Registered
<1>3. \A w : Pixel(w)' = Pixel(w)
  BY DEF Pixel, pick_color
<1>4. s \in Registered
  BY FromNameIs DEF Inv, ei_widget_create
<1>5. wid_id \in Nat /\ wid_id <= MaxId /\ wid_id' = wid_id + 1 /\ MaxId \in Nat
  BY IdAssumption DEF Inv, Widgets, ei_widget_create
<1>6. wid_id \notin Live /\ Live \subseteq Nat
  BY <1>5 DEF Inv, Widgets
<1>7. /\ Live' = Live \cup {wid_id}
      /\ widget'[wid_id] = [class |-> s, relief |-> relief]
      /\ \A w \in Live : widget'[w] = widget[w]
      /\ widget' = [w \in Live' |-> widget'[w]]
  BY <1>6 DEF ei_widget_create, Live
<1>8. widget' \in [Live' -> [class : Registered, relief : Relief]]
  <2>1. \A w \in Live' : widget'[w] \in [class : Registered, relief : Relief]
    BY <1>4, <1>7 DEF Inv, Widgets, Relief
  <2> QED BY <1>7, <2>1
<1>9. Buttons \subseteq Buttons' /\ Buttons' \subseteq Buttons \cup {wid_id}
  BY <1>7 DEF Buttons
<1>10. Fresh' => Fresh
  BY <1>5, ChannelAssumption DEF Fresh
<1>11. Widgets'
  <2> DEFINE n == Len(children)
  <2>1. n \in Nat /\ DOMAIN children = 1 .. n /\ children \in Seq(Nat)
    BY DEF Inv, Widgets
  <2>2. children' = Append(children, wid_id)
    BY DEF ei_widget_create
  <2>3. /\ children' \in Seq(Nat) /\ DOMAIN children' = 1 .. n + 1
        /\ \A i \in 1 .. n + 1 : children'[i] = IF i = n + 1 THEN wid_id ELSE children[i]
    BY <1>5, <2>1, <2>2
  <2>4. \A i \in 1 .. n : i \in 1 .. n + 1 /\ children'[i] = children[i]
    BY <2>1, <2>3
  <2>5. children'[n + 1] = wid_id /\ n + 1 \in 1 .. n + 1
    BY <2>1, <2>3
  <2>6. \A i \in 1 .. n + 1 : i = n + 1 \/ i \in 1 .. n
    BY <2>1
  <2>7. {children'[i] : i \in DOMAIN children'} = {children[i] : i \in DOMAIN children} \cup {wid_id}
    BY <2>1, <2>3, <2>4, <2>5, <2>6
  <2>8. \A i \in 1 .. n : children[i] # wid_id
    BY <1>6, <2>1 DEF Inv, Widgets
  <2>9. \A i, j \in DOMAIN children' : children'[i] = children'[j] => i = j
    BY <2>1, <2>3, <2>4, <2>5, <2>6, <2>8 DEF Inv, Widgets
  <2>10. wid_id # Root
    BY <1>6 DEF Inv, Widgets
  <2>11. wid_id' \in 1 .. MaxId + 1 /\ Live' \subseteq 0 .. wid_id' - 1
    <3>1. Live \subseteq 0 .. wid_id - 1
      BY DEF Inv, Widgets
    <3>2. \A w \in Live' : w \in 0 .. (wid_id + 1) - 1
      BY <1>5, <1>7, <3>1
    <3> QED BY <1>5, <3>2
  <2> HIDE DEF n
  <2> QED BY <1>2, <1>7, <1>8, <2>3, <2>7, <2>9, <2>10, <2>11 DEF Inv, Widgets
<1>12. Screen'
  BY <1>3, <1>7 DEF Inv, Screen, ei_widget_create
<1>13. Gesture'
  <2>1. UNCHANGED <<button_pressed, pressed, shifted, blind>> /\ called' = NULL
    BY DEF ei_widget_create, animation
  <2>2. pressed # wid_id
    BY <1>6, IdAssumption, <1>5 DEF Inv, Gesture
  <2> QED BY <2>1, <2>2, <1>7, <1>9, <1>10 DEF Inv, Gesture
<1>14. SunkenIsPressed'
  <2>1. UNCHANGED <<button_pressed, pressing_over, shifted, blind, surface, mouse>>
    BY DEF ei_widget_create, animation
  <2> QED BY <2>1, <1>3, <1>7, <1>10 DEF Inv, SunkenIsPressed
<1> QED BY <1>1, <1>11, <1>12, <1>13, <1>14 DEF Inv

LEMMA RedrawStep ==
  ASSUME Inv, NEW s \in Spot, NEW w \in Live, Redraw(s, w)
  PROVE  Inv'
<1>1. Classes'
  BY SameClasses DEF Inv, Redraw
<1>2. Live' = Live /\ Buttons' = Buttons /\ Fresh' = Fresh /\ Registered' = Registered
  BY DEF Redraw, Live, Buttons, Fresh, registryVars, Registered
<1>3. \A v : Pixel(v)' = Pixel(v)
  BY DEF Pixel, pick_color
<1>4. Widgets'
  BY <1>2 DEF Inv, Widgets, Redraw
<1>5. Screen'
  BY <1>2, <1>3 DEF Inv, Screen, Redraw, Shows
<1>6. shifted' \in BOOLEAN /\ (shifted' \/ (~shifted /\ surface'[mouse] = surface[mouse]))
  BY DEF Inv, Gesture, Screen, Redraw, Shows
<1>7. Gesture'
  BY <1>2, <1>6 DEF Inv, Gesture, Redraw, animation
<1>8. SunkenIsPressed'
  BY <1>2, <1>3, <1>6 DEF Inv, SunkenIsPressed, Redraw, animation
<1> QED BY <1>1, <1>4, <1>5, <1>7, <1>8 DEF Inv

LEMMA DestroyStep ==
  ASSUME Inv, NEW w \in Live \ {Root}, ei_widget_destroy(w)
  PROVE  Inv'
<1>1. Classes'
  BY SameClasses DEF Inv, ei_widget_destroy
<1>2. Registered' = Registered /\ Fresh' = Fresh
  BY DEF ei_widget_destroy, registryVars, Registered, Fresh
<1>3. \A v : Pixel(v)' = Pixel(v)
  BY DEF Pixel, pick_color
<1>4. /\ Live' = Live \ {w}
      /\ \A v \in Live \ {w} : widget'[v] = widget[v]
      /\ widget' = [v \in Live' |-> widget'[v]]
  BY DEF ei_widget_destroy, Live
<1>5. widget' \in [Live' -> [class : Registered, relief : Relief]]
  <2>1. \A v \in Live' : widget'[v] \in [class : Registered, relief : Relief]
    BY <1>4 DEF Inv, Widgets
  <2> QED BY <1>4, <2>1
<1>6. Buttons' = Buttons \ {w}
  BY <1>4 DEF Buttons
<1>7. Widgets'
  <2> DEFINE n == Len(children)
  <2>1. n \in Nat /\ DOMAIN children = 1 .. n /\ children \in Seq(Nat)
    BY DEF Inv, Widgets
  <2>2. PICK i \in 1 .. n : children[i] = w /\ children' = RemoveAt(children, i)
    BY <2>1 DEF ei_widget_destroy
  <2>3. /\ children' \in Seq(Nat) /\ Len(children') = n - 1
        /\ \A j \in 1 .. n - 1 : children'[j] = IF j < i THEN children[j] ELSE children[j + 1]
    BY <2>1, <2>2, RemoveAtIs
  <2> DEFINE old(j) == IF j < i THEN j ELSE j + 1
  <2>4. \A j \in 1 .. n - 1 : old(j) \in 1 .. n /\ old(j) # i /\ children'[j] = children[old(j)]
    <3>1. \A j \in 1 .. n - 1 : old(j) \in 1 .. n /\ old(j) # i
      BY <2>1
    <3>2. \A j \in 1 .. n - 1 : children'[j] = children[old(j)]
      BY <2>3
    <3> QED BY <3>1, <3>2
  <2>5. \A j, k \in 1 .. n - 1 : old(j) = old(k) => j = k
    BY <2>1
  <2>6. \A k \in 1 .. n : k = i \/ \E j \in 1 .. n - 1 : old(j) = k
    <3> SUFFICES ASSUME NEW k \in 1 .. n, k # i
                 PROVE  \E j \in 1 .. n - 1 : old(j) = k
      OBVIOUS
    <3>1. CASE k < i
      BY <2>1, <3>1
    <3>2. CASE ~(k < i)
      <4>1. k - 1 \in 1 .. n - 1 /\ old(k - 1) = k
        BY <2>1, <3>2
      <4> QED BY <4>1
    <3> QED BY <3>1, <3>2
  <2>7. DOMAIN children' = 1 .. n - 1
    BY <2>1, <2>3
  <2> HIDE DEF n, old
  <2>8. \A j, k \in DOMAIN children' : children'[j] = children'[k] => j = k
    BY <2>1, <2>4, <2>5, <2>7 DEF Inv, Widgets
  <2>9. \A k \in 1 .. n : children[k] = w => k = i
    BY <2>1, <2>2 DEF Inv, Widgets
  <2>10. {children'[j] : j \in DOMAIN children'} = {children[k] : k \in DOMAIN children} \ {w}
    <3>1. \A j \in 1 .. n - 1 :
            children'[j] \in {children[k] : k \in DOMAIN children} /\ children'[j] # w
      BY <2>1, <2>4, <2>9
    <3>2. ASSUME NEW k \in 1 .. n, children[k] # w
          PROVE  children[k] \in {children'[j] : j \in DOMAIN children'}
      <4>1. PICK j \in 1 .. n - 1 : old(j) = k
        BY <2>2, <2>6, <3>2
      <4> QED BY <4>1, <2>4, <2>7
    <3> QED BY <2>1, <2>7, <3>1, <3>2
  <2> QED BY <1>2, <1>4, <1>5, <2>3, <2>8, <2>10 DEF Inv, Widgets, ei_widget_destroy
<1>8. Screen'
  BY <1>3, <1>4 DEF Inv, Screen, ei_widget_destroy
<1>9. Gesture'
  BY <1>2, <1>4, <1>6 DEF Inv, Gesture, ei_widget_destroy, animation
<1>10. SunkenIsPressed'
  BY <1>2, <1>3, <1>4 DEF Inv, SunkenIsPressed, ei_widget_destroy, animation
<1> QED BY <1>1, <1>7, <1>8, <1>9, <1>10 DEF Inv

-----------------------------------------------------------------------------
LEMMA InitInv ==
  ASSUME Init
  PROVE  Inv
<1>1. /\ registered \in Seq(Structure) /\ Len(registered) = Len(LibraryClass)
      /\ \A i \in 1 .. Len(LibraryClass) :
            registered[i] = LibraryClass[Len(LibraryClass) - i + 1]
  BY ReverseIs, ClassAssumption DEF Init, LibraryRegistered
<1> DEFINE n == Len(LibraryClass)
<1>2. /\ n \in Nat /\ DOMAIN LibraryClass = 1 .. n /\ DOMAIN registered = 1 .. n
      /\ \A i \in 1 .. n : n - i + 1 \in 1 .. n /\ registered[i] = LibraryClass[n - i + 1]
      /\ \A i \in 1 .. n : n - (n - i + 1) + 1 = i
  BY <1>1, ClassAssumption
<1> HIDE DEF n
<1>3. \A i, j \in DOMAIN registered : Name[registered[i]] = Name[registered[j]] => i = j
  <2> SUFFICES ASSUME NEW i \in 1 .. n, NEW j \in 1 .. n,
                      Name[registered[i]] = Name[registered[j]]
               PROVE  i = j
    BY <1>2
  <2> DEFINE a == n - i + 1
             b == n - j + 1
  <2>1. a \in DOMAIN LibraryClass /\ b \in DOMAIN LibraryClass
        /\ registered[i] = LibraryClass[a] /\ registered[j] = LibraryClass[b]
        /\ n - a + 1 = i /\ n - b + 1 = j
    BY <1>2
  <2> HIDE DEF a, b
  <2>2. a = b
    BY <2>1, ClassAssumption
  <2> QED BY <2>1, <2>2
<1>4. {RootClass, ButtonClass} \subseteq Registered
  <2>1. ASSUME NEW i \in 1 .. n
        PROVE  LibraryClass[i] \in Registered
    <3>1. registered[n - i + 1] = LibraryClass[i] /\ n - i + 1 \in DOMAIN registered
      BY <1>2
    <3> QED BY <3>1 DEF Registered
  <2> QED BY <2>1, <1>2, ClassAssumption
<1>5. Classes
  BY <1>1, <1>3, <1>4 DEF Init, Classes
<1>6. Live = {Root} /\ widget[Root] = [class |-> RootClass, relief |-> "none"]
  BY DEF Init, Live
<1>7. Widgets
  <2>1. widget \in [Live -> [class : Registered, relief : Relief]]
    BY <1>4, <1>6 DEF Init, Relief
  <2> QED BY <2>1, <1>6, IdAssumption DEF Init, Widgets, Root
<1>8. Screen
  BY <1>6 DEF Init, Screen
<1>9. Gesture
  <2>1. NULL \notin Live
    BY <1>7, NullIsNoWidget
  <2> QED BY <2>1 DEF Init, Gesture, Buttons
<1>10. SunkenIsPressed
  BY <1>6 DEF Init, SunkenIsPressed
<1> QED BY <1>5, <1>7, <1>8, <1>9, <1>10 DEF Inv

LEMMA NextInv ==
  ASSUME Inv, [Next]_vars
  PROVE  Inv'
<1>1. ASSUME NEW side, Down(side)
      PROVE  Inv'
  BY <1>1, DownStep
<1>2. ASSUME NEW side, Up(side)
      PROVE  Inv'
  BY <1>2, UpStep
<1>3. ASSUME NEW s \in Spot, Move(s)
      PROVE  Inv'
  BY <1>3, MoveStep
<1>4. ASSUME NEW s \in Spot, NEW w \in Live, Redraw(s, w)
      PROVE  Inv'
  BY <1>4, RedrawStep
<1>5. ASSUME NEW s \in Structure, ei_widgetclass_register(s)
      PROVE  Inv'
  BY <1>5, RegisterStep
<1>6. ASSUME NEW name \in Created, NEW relief \in {"none", "raised"},
             ei_widget_create(name, relief)
      PROVE  Inv'
  BY <1>6, CreateStep
<1>7. ASSUME NEW w \in Live \ {Root}, ei_widget_destroy(w)
      PROVE  Inv'
  BY <1>7, DestroyStep
<1>8. CASE UNCHANGED vars
  <2>1. Classes'
    BY <1>8, SameClasses DEF Inv, vars, registryVars
  <2>2. /\ Live' = Live /\ Buttons' = Buttons /\ Fresh' = Fresh /\ Registered' = Registered
    BY <1>8 DEF vars, Live, Buttons, Fresh, registryVars, Registered
  <2>3. \A v : Pixel(v)' = Pixel(v)
    BY DEF Pixel, pick_color
  <2>4. Widgets' /\ Screen' /\ Gesture' /\ SunkenIsPressed'
    BY <1>8, <2>2, <2>3 DEF Inv, Widgets, Screen, Gesture, SunkenIsPressed, vars, animation
  <2> QED BY <2>1, <2>4 DEF Inv
<1> QED BY <1>1, <1>2, <1>3, <1>4, <1>5, <1>6, <1>7, <1>8 DEF Next

LEMMA Invariance == Spec => []Inv
<1>1. Init => Inv
  BY InitInv
<1>2. Inv /\ [Next]_vars => Inv'
  BY NextInv
<1> QED BY <1>1, <1>2, PTL DEF Spec

(* The types of the pressed button, of the widgets and of the two lists:   *)
(* what the library points to is alive and of the class it is taken for.   *)
THEOREM TypeCorrect == Spec => []TypeOK
<1>1. Inv => TypeOK
  <2> SUFFICES ASSUME Inv PROVE TypeOK
    OBVIOUS
  <2>1. Live \subseteq Id
    BY IdAssumption DEF Inv, Widgets, Id
  <2>2. \A w \in Live : widget[w].class \in Structure /\ widget[w].relief \in Relief
    BY RegisteredAreStructures DEF Inv, Widgets
  <2> QED BY <2>1, <2>2 DEF Inv, Classes, Widgets, Gesture, TypeOK
<1> QED BY <1>1, Invariance, PTL

(* The colour of a widget leads back to it (ei_widget_create,              *)
(* ei_widget_pick), until the identifiers come round.                      *)
THEOREM ColoursLeadBack == Spec => []PickExact
<1>1. Inv => PickExact
  BY FreshPick DEF Inv, PickExact
<1> QED BY <1>1, Invariance, PTL

(* A class ei_widgetclass_register freed is neither listed nor used, and   *)
(* callbacks of a tag are given widgets of that class.                     *)
THEOREM ClassesOutliveUse == Spec => []ClassesLast
<1>1. Inv => ClassesLast
  <2> SUFFICES ASSUME Inv, ~twice
               PROVE  /\ \A i \in DOMAIN registered : registered[i] \notin freed
                      /\ \A w \in Live : /\ widget[w].class \notin freed
                                         /\ from_name(Dispatched(w)) = widget[w].class
    BY DEF ClassesLast
  <2>1. Registered \cap freed = {}
    BY DEF Inv, Classes
  <2>2. \A w \in Live : widget[w].class \in Registered
    BY DEF Inv, Widgets
  <2>3. \A w \in Live : from_name(Dispatched(w)) = widget[w].class
    BY <2>2, FromNameIs, OneOfAName DEF Inv, Dispatched
  <2> QED BY <2>1, <2>2, <2>3 DEF Registered
<1> QED BY <1>1, Invariance, PTL

(* The three callbacks of the button leave it sunken only while it is      *)
(* pressed with the mouse over it.                                         *)
THEOREM SunkenWhilePressed == Spec => []SunkenIsPressed
<1>1. Inv => SunkenIsPressed
  BY DEF Inv
<1> QED BY <1>1, Invariance, PTL

(* ei_handle_button_up calls the callback of a button exactly when the     *)
(* release ends a click on it.                                             *)
THEOREM ClicksAreCalled == Spec => Click
<1> DEFINE A == Fresh =>
       \A w \in Buttons : \A side \in {"left", "right"} :
         /\ (called' = w /\ called' # called) => pressed = w /\ Pixel(w) = surface[mouse]
         /\ (pressed = w /\ pressed' = NULL /\ Pixel(w) = surface[mouse]) => called' = w
<1>1. ASSUME Inv, [Next]_vars, Fresh, NEW w \in Buttons
      PROVE  /\ (called' = w /\ called' # called) => pressed = w /\ Pixel(w) = surface[mouse]
             /\ (pressed = w /\ pressed' = NULL /\ Pixel(w) = surface[mouse]) => called' = w
  <2> DEFINE p == ei_widget_pick
  <2>1. w \in Live /\ w # NULL
    BY <1>1, NullIsNoWidget DEF Inv, Buttons
  <2>2. p \in Live /\ Pixel(p) = surface[mouse] /\ p # NULL
    BY <1>1, PickOnScreen, NullIsNoWidget DEF Inv, Screen, ei_widget_pick
  <2>3. Pixel(w) = surface[mouse] => p = w
    BY <1>1, <2>1, <2>2, FreshInjective DEF Inv
  <2>4. ASSUME NEW side, Up(side)
        PROVE  /\ (called' = w /\ called' # called) => pressed = w /\ Pixel(w) = surface[mouse]
               /\ (pressed = w /\ pressed' = NULL /\ Pixel(w) = surface[mouse]) => called' = w
    <3>1. called' = IF side = "left" /\ button_pressed = p THEN p ELSE NULL
      BY <2>2, <2>4 DEF Up, button_up
    <3>2. pressed' = IF side = "left" THEN NULL ELSE pressed
      BY <2>4 DEF Up
    <3>3. called' = w => p = w /\ pressed = w
      BY <1>1, <2>1, <2>2, <3>1 DEF Inv, Gesture
    <3>4. (pressed = w /\ pressed' = NULL) => side = "left" /\ button_pressed = w
      BY <1>1, <2>1, <3>2 DEF Inv, Gesture
    <3> QED BY <2>2, <2>3, <3>1, <3>3, <3>4
  <2>5. ASSUME NEW side, Down(side)
        PROVE  called' = NULL /\ (pressed' = pressed \/ pressed = NULL)
    BY <2>5 DEF Down, button_down
  <2>6. ASSUME NEW s \in Spot, Move(s)
        PROVE  called' = NULL /\ pressed' = pressed
    BY <2>6 DEF Move, button_move
  <2>7. ASSUME \/ \E s \in Spot, v \in Live : Redraw(s, v)
               \/ \E s \in Structure : ei_widgetclass_register(s)
               \/ \E name \in Created, relief \in {"none", "raised"} : ei_widget_create(name, relief)
               \/ \E v \in Live \ {Root} : ei_widget_destroy(v)
        PROVE  called' = NULL /\ pressed' = pressed
    BY <2>7 DEF Redraw, ei_widgetclass_register, ei_widget_create, ei_widget_destroy, animation
  <2>8. CASE UNCHANGED vars
    BY <2>1, <2>8 DEF vars
  <2> QED BY <1>1, <2>1, <2>4, <2>5, <2>6, <2>7, <2>8 DEF Next
<1>2. Inv /\ [Next]_vars => [A]_vars
  BY <1>1
<1> QED BY <1>2, Invariance, PTL DEF Spec, Click

=============================================================================
