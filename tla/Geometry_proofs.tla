-------------------------- MODULE Geometry_proofs --------------------------
(***************************************************************************)
(* The layout of Geometry, for every tree and every program: each widget   *)
(* shown lies where its parameters say, and one given no size has the size *)
(* it requested.  Both follow from facts about a widget and its parent,    *)
(* which every call and drawing keeps; down the tree they make a layout.   *)
(***************************************************************************)
EXTENDS Geometry, FiniteSetTheorems, WellFoundedInduction, TLAPS

NatLess == {p \in Nat \X Nat : p[1] < p[2]}

(* A set of naturals that is not empty has a least element.                *)
LEMMA Smallest ==
  ASSUME NEW S \in SUBSET Nat, S # {}
  PROVE  \E n \in S : \A m \in S : n <= m
<1>1. IsWellFoundedOn(NatLess, Nat)
  BY NatLessThanWellFounded DEF NatLess, OpToRel
<1>2. PICK n \in S : \A m \in S : ~ (<<m, n>> \in NatLess)
  BY <1>1, WFMin
<1>3. \A n_1, m \in Nat : <<m, n_1>> \in NatLess <=> m < n_1
  BY DEF NatLess
<1>4. \A m \in S : ~ (m < n)
  BY <1>2, <1>3
<1> QED BY <1>4

-----------------------------------------------------------------------------
(* Down the tree.                                                          *)
Deepest == Cardinality(Widget)
Depth ==
  CHOOSE depth \in [Widget -> 1 .. Deepest] :
    \A v \in Widget : Parent[v] # Root => depth[Parent[v]] < depth[v]

LEMMA DepthIs ==
  /\ Deepest \in Nat
  /\ Depth \in [Widget -> 1 .. Deepest]
  /\ \A v \in Widget : Parent[v] # Root => Parent[v] \in Widget /\ Depth[Parent[v]] < Depth[v]
<1>1. \A v \in Widget : Parent[v] \in Widget \cup {Root}
  BY ParentAssumption
<1>2. Deepest \in Nat
  BY ParentAssumption, FS_CardinalityType DEF Deepest
<1>3. \E depth \in [Widget -> 1 .. Deepest] :
        \A v \in Widget : Parent[v] # Root => depth[Parent[v]] < depth[v]
  BY ParentAssumption DEF Deepest
<1> QED BY <1>1, <1>2, <1>3 DEF Depth

(* What holds of a widget when it holds of its parent holds of all.        *)
LEMMA AllDown ==
  ASSUME NEW S,
         \A v \in Widget : (Parent[v] = Root \/ Parent[v] \in S) => v \in S
  PROVE  Widget \subseteq S
<1> SUFFICES ASSUME ~ (Widget \subseteq S) PROVE FALSE
  OBVIOUS
<1> DEFINE T == {Depth[v] : v \in Widget \ S}
<1>1. T \in SUBSET Nat /\ T # {}
  BY DepthIs
<1>3. PICK n \in T : \A m \in T : n <= m
  <2> HIDE DEF T
  <2> QED BY <1>1, Smallest
<1>4. PICK v \in Widget \ S : n = Depth[v]
  OBVIOUS
<1>5. Parent[v] # Root /\ Parent[v] \notin S
  BY <1>4
<1>6. Parent[v] \in Widget \ S /\ Depth[Parent[v]] < Depth[v]
  BY DepthIs, <1>4, <1>5
<1>7. Depth[Parent[v]] \in T /\ Depth[Parent[v]] \in Nat /\ Depth[v] \in Nat
  BY DepthIs, <1>4, <1>6
<1> QED BY <1>3, <1>4, <1>6, <1>7

(* What a parent hands down to v; top is for the children of the root.    *)
Handed(f, v, top) == IF Parent[v] = Root THEN top ELSE f[Parent[v]]

(* A definition that goes from a parent to its children defines a function.*)
LEMMA DownTheTree ==
  ASSUME NEW Val, NEW top \in Val, NEW step \in [Widget -> [Val -> Val]]
  PROVE  \E f \in [Widget -> Val] : \A v \in Widget :
           f[v] = step[v][Handed(f, v, top)]
<1> USE DEF Handed
<1> DEFINE At(f, v) == step[v][Handed(f, v, top)]
           Upto(n) == \E f \in [Widget -> Val] : \A v \in Widget : Depth[v] <= n => f[v] = At(f, v)
<1>2. Upto(0)
  <2> DEFINE f == [v \in Widget |-> top]
  <2>1. f \in [Widget -> Val] /\ \A v \in Widget : ~ (Depth[v] <= 0)
    BY DepthIs
  <2> QED BY <2>1
<1>3. ASSUME NEW n \in Nat, Upto(n)
      PROVE  Upto(n + 1)
  <2>1. PICK f \in [Widget -> Val] : \A v \in Widget : Depth[v] <= n => f[v] = At(f, v)
    BY <1>3
  <2> DEFINE g == [v \in Widget |-> At(f, v)]
  <2>2. g \in [Widget -> Val]
    <3>1. ASSUME NEW v \in Widget
          PROVE  At(f, v) \in Val
      <4>1. Handed(f, v, top) \in Val
        BY DepthIs
      <4> QED BY <4>1
    <3> QED BY <3>1
  <2>3. ASSUME NEW v \in Widget, Depth[v] <= n + 1
        PROVE  g[v] = At(g, v)
    <3>1. CASE Parent[v] = Root
      BY <3>1
    <3>2. CASE Parent[v] # Root
      <4>1. Parent[v] \in Widget /\ Depth[Parent[v]] <= n
        BY DepthIs, <2>3, <3>2
      <4>2. g[Parent[v]] = f[Parent[v]]
        BY <2>1, <4>1
      <4> QED BY <3>2, <4>2
    <3> QED BY <3>1, <3>2
  <2> QED BY <2>2, <2>3
<1>4. \A n \in Nat : Upto(n)
  <2> DEFINE Bad == {n \in Nat : ~Upto(n)}
  <2> SUFFICES ASSUME Bad # {} PROVE FALSE
    OBVIOUS
  <2>1. PICK n \in Bad : \A m \in Bad : n <= m
    <3>1. Bad \in SUBSET Nat
      OBVIOUS
    <3> HIDE DEF Bad
    <3> QED BY <3>1, Smallest
  <2> HIDE DEF Upto
  <2>2. n \in Nat /\ ~Upto(n)
    OBVIOUS
  <2>3. n # 0
    BY <1>2, <2>2
  <2>4. n - 1 \in Nat /\ n - 1 \notin Bad
    BY <2>1, <2>2, <2>3
  <2>5. Upto(n - 1)
    BY <2>4
  <2>6. Upto((n - 1) + 1)
    BY <1>3, <2>4, <2>5
  <2>7. (n - 1) + 1 = n
    BY <2>2
  <2> QED BY <2>2, <2>6, <2>7
<1>5. Upto(Deepest)
  <2> HIDE DEF Upto
  <2> QED BY DepthIs, <1>4
<1> QED BY DepthIs, <1>5

-----------------------------------------------------------------------------
(* Line, Layout and Moves are what their definitions say.                  *)
LEMMA LineIs ==
  /\ Line \in [Widget -> SUBSET Widget]
  /\ \A v \in Widget : Line[v] = {v} \cup IF Parent[v] = Root THEN {} ELSE Line[Parent[v]]
<1> DEFINE Body(h) == [v \in Widget |-> {v} \cup IF Parent[v] = Root THEN {} ELSE h[Parent[v]]]
           step == [v \in Widget |-> [line \in SUBSET Widget |->
                     {v} \cup IF Parent[v] = Root THEN {} ELSE line]]
<1>1. PICK f \in [Widget -> SUBSET Widget] : \A v \in Widget :
        f[v] = step[v][Handed(f, v, {})]
  <2> DEFINE Val == SUBSET Widget
             top == {}
  <2>1. step \in [Widget -> [Val -> Val]] /\ top \in Val
    OBVIOUS
  <2> HIDE DEF step, Val, top
  <2>2. \E f \in [Widget -> Val] : \A v \in Widget :
          f[v] = step[v][Handed(f, v, top)]
    BY <2>1, DownTheTree
  <2> QED BY <2>2 DEF Val, top
<1>2. \A v \in Widget : Parent[v] # Root => Parent[v] \in Widget
  BY ParentAssumption
<1>3. f = Body(f)
  <2>1. ASSUME NEW v \in Widget
        PROVE  f[v] = {v} \cup IF Parent[v] = Root THEN {} ELSE f[Parent[v]]
    <3>1. CASE Parent[v] = Root
      BY <1>1, <3>1 DEF Handed
    <3>2. CASE Parent[v] # Root
      <4>1. f[Parent[v]] \in SUBSET Widget
        BY <1>2, <3>2
      <4> QED BY <1>1, <3>2, <4>1 DEF Handed
    <3> QED BY <3>1, <3>2
  <2> QED BY <2>1
<1> DEFINE line == CHOOSE h : h = Body(h)
<1>4. line = Body(line)
  <2> HIDE DEF Body
  <2> QED BY <1>3
<1>5. Line = [w \in Widget |-> line[w]]
  BY DEF Line
<1> HIDE DEF line
<1>6. Line = line
  BY <1>4, <1>5
<1>7. \A v \in Widget : Line[v] = {v} \cup IF Parent[v] = Root THEN {} ELSE Line[Parent[v]]
  BY <1>4, <1>6
<1>8. Widget \subseteq {v \in Widget : Line[v] \subseteq Widget}
  <2> DEFINE S == {v \in Widget : Line[v] \subseteq Widget}
  <2>1. \A v \in Widget : (Parent[v] = Root \/ Parent[v] \in S) => v \in S
    BY <1>7
  <2> HIDE DEF S
  <2>2. Widget \subseteq S
    BY <2>1, AllDown
  <2> QED BY <2>2 DEF S
<1>9. Line = [w \in Widget |-> Line[w]]
  BY <1>5
<1> QED BY <1>7, <1>8, <1>9

-----------------------------------------------------------------------------
(* What the placer computes.                                               *)
Geometries ==
  [requested : [Widget -> Int], border : [Widget -> Nat],
   params : [Widget -> Params \cup {NULL}],
   location : [Widget -> Rect], inner : [Widget -> Rect \cup {NULL}], cut : BOOLEAN]

LEMMA HalvedIs == \A n \in Int : Halved(n) \in Int
BY DEF Halved

LEMMA PlacedIs ==
  ASSUME NEW p \in Params, NEW parent \in Rect, NEW requested \in Int
  PROVE  Placed(p, parent, requested) \in Rect
<1>1. p.anchor \in Anchor /\ p.at \in Int /\ p.size \in Int /\ p.rel_at \in Int /\ p.rel_size \in Int
  BY DEF Params, Fields
<1>2. parent.at \in Int /\ parent.size \in Int
  BY DEF Rect
<1> DEFINE across == parent.size * p.rel_size + 2 * p.size
           along == parent.size * p.rel_at + 2 * (p.at + parent.at)
<1>3. across \in Int /\ along \in Int
  BY <1>1, <1>2
<1> HIDE DEF across, along
<1>4. Halved(across) \in Int /\ Halved(along) \in Int
  BY <1>3, HalvedIs
<1>5. PlacedSize(p, parent, requested) \in Int
  BY <1>4 DEF PlacedSize, across
<1>6. AnchorShift(p.anchor, PlacedSize(p, parent, requested)) \in Int
  BY <1>1, <1>5, HalvedIs DEF Anchor, AnchorShift
<1>7. PlacedAt(p, parent, requested) \in Int
  BY <1>4, <1>6 DEF PlacedAt, along
<1> QED BY <1>5, <1>7 DEF Placed, Rect

(* Without a size, neither given nor relative, it is the one requested.    *)
LEMMA RequestedIs ==
  ASSUME NEW p \in Params, NEW parent \in Rect, NEW requested \in Int,
         p.rel_size = 0, p.size \in {0, requested}
  PROVE  Placed(p, parent, requested).size = requested
<1>1. parent.size \in Int
  BY DEF Rect
<1>2. parent.size * p.rel_size + 2 * p.size = 2 * p.size
  BY <1>1
<1>3. Halved(2 * p.size) = p.size
  <2>1. \A n \in Nat : (2 * n) \div 2 = n
    OBVIOUS
  <2>2. p.size \in Int
    OBVIOUS
  <2>3. CASE p.size >= 0
    BY <2>1, <2>2, <2>3 DEF Halved
  <2>4. CASE p.size < 0
    <3>1. -p.size \in Nat /\ -(2 * p.size) = 2 * (-p.size) /\ ~ (2 * p.size >= 0)
      BY <2>2, <2>4
    <3>2. (2 * (-p.size)) \div 2 = -p.size
      BY <2>1, <3>1
    <3> QED BY <2>2, <3>1, <3>2 DEF Halved
  <2> QED BY <2>2, <2>3, <2>4
<1>4. PlacedSize(p, parent, requested) = requested
  BY <1>2, <1>3 DEF PlacedSize
<1> QED BY <1>4 DEF Placed

LEMMA ClipIs ==
  ASSUME NEW r \in Rect
  PROVE  Clip(r) \in Rect
<1>1. \A a, b \in Int : Max({a, b}) \in Int /\ Min({a, b}) \in Int
  <2>1. ASSUME NEW a \in Int, NEW b \in Int
        PROVE  Max({a, b}) \in Int /\ Min({a, b}) \in Int
    <3>1. \E x \in {a, b} : \A y \in {a, b} : x >= y
      OBVIOUS
    <3>2. \E x \in {a, b} : \A y \in {a, b} : x <= y
      OBVIOUS
    <3> QED BY <3>1, <3>2 DEF Max, Min
  <2> QED BY <2>1
<1>2. r.at \in Int /\ r.size \in Int /\ Window.size \in Int
  BY WindowAssumption DEF Rect
<1> DEFINE from == Max({0, r.at})
           rest == r.size + Min({0, r.at})
<1>3. from \in Int /\ rest \in Int
  BY <1>1, <1>2
<1>4. Clip(r) = [at |-> from, size |-> Min({rest, Window.size - from})]
  BY DEF Clip, Clipped
<1> HIDE DEF from, rest
<1>5. Window.size - from \in Int
  BY <1>2, <1>3
<1>6. Min({rest, Window.size - from}) \in Int
  BY <1>1, <1>3, <1>5
<1> QED BY <1>3, <1>4, <1>6 DEF Rect

LEMMA InnerIs ==
  ASSUME NEW G \in Geometries, NEW v \in Widget, NEW r \in Rect
  PROVE  Inner(G, v, r) \in Rect \cup {NULL} /\ Content(r, Inner(G, v, r)) \in Rect
<1>1. G.border[v] \in Nat /\ G.inner[v] \in Rect \cup {NULL}
  BY DEF Geometries
<1>2. r.at \in Int /\ r.size \in Int
  BY DEF Rect
<1>3. [at |-> r.at + G.border[v], size |-> r.size] \in Rect
  BY <1>1, <1>2 DEF Rect
<1>4. [at |-> r.at + G.border[v], size |-> r.size - 2 * G.border[v]] \in Rect
  BY <1>1, <1>2 DEF Rect
<1>5. Class[v] \in {"frame", "button", "toplevel"}
  BY ClassAssumption
<1>6. Inner(G, v, r) \in Rect \cup {NULL}
  <2>1. CASE Class[v] = "toplevel"
    BY <1>3, <2>1 DEF Inner
  <2>2. CASE Class[v] # "toplevel" /\ G.border[v] > 0
    BY <1>4, <1>5, <2>2 DEF Inner
  <2>3. CASE Class[v] = "frame" /\ G.border[v] = 0
    BY <1>1, <2>3 DEF Inner
  <2>4. CASE Class[v] = "button" /\ G.border[v] = 0
    BY <2>4 DEF Inner
  <2> QED BY <1>1, <1>5, <2>1, <2>2, <2>3, <2>4
<1> QED BY <1>6 DEF Content


LEMMA AboveIs ==
  ASSUME NEW G \in Geometries, NEW v \in Widget
  PROVE  Content(G.location[v], G.inner[v]) \in Rect /\ Above(G, v) \in Rect
<1>1. \A u \in Widget : Content(G.location[u], G.inner[u]) \in Rect
  BY DEF Content, Geometries
<1>2. Parent[v] \in Widget \cup {Root}
  BY ParentAssumption
<1> QED BY <1>1, <1>2, WindowAssumption DEF Above

-----------------------------------------------------------------------------
(* The runs of the placer from w down: what becomes of v, when its parent  *)
(* moved or not and hands it a rectangle to be placed in.                  *)
Ran(G, w, v, moved, content) ==
  LET to == Placed(G.params[v], content, G.requested[v])
  IN  IF (v = w \/ moved) /\ Managed(G, v) /\ to # G.location[v]
      THEN [moved |-> TRUE, to |-> to, content |-> Content(to, Inner(G, v, to))]
      ELSE [moved |-> FALSE, to |-> G.location[v],
            content |-> Content(G.location[v], G.inner[v])]

Runs == [moved : BOOLEAN, to : Rect, content : Rect]

LEMMA RanIs ==
  ASSUME NEW G \in Geometries, NEW w \in Widget, NEW v \in Widget,
         NEW moved \in BOOLEAN, NEW content \in Rect
  PROVE  Ran(G, w, v, moved, content) \in Runs
<1> DEFINE to == Placed(G.params[v], content, G.requested[v])
<1>1. Managed(G, v) => to \in Rect
  <2>1. G.requested[v] \in Int /\ G.params[v] \in Params \cup {NULL}
    BY DEF Geometries
  <2> QED BY <2>1, PlacedIs DEF Managed
<1>2. Managed(G, v) => Content(to, Inner(G, v, to)) \in Rect
  <2> HIDE DEF to
  <2> QED BY <1>1, InnerIs
<1>3. G.location[v] \in Rect
  BY DEF Geometries
<1>4. Content(G.location[v], G.inner[v]) \in Rect
  BY AboveIs
<1>5. Ran(G, w, v, moved, content) =
        IF (v = w \/ moved) /\ Managed(G, v) /\ to # G.location[v]
        THEN [moved |-> TRUE, to |-> to, content |-> Content(to, Inner(G, v, to))]
        ELSE [moved |-> FALSE, to |-> G.location[v],
              content |-> Content(G.location[v], G.inner[v])]
  BY DEF Ran
<1> HIDE DEF to
<1> QED BY <1>1, <1>2, <1>3, <1>4, <1>5 DEF Runs

LEMMA MovesAre ==
  ASSUME NEW G \in Geometries, NEW w \in Widget
  PROVE  /\ Moves(G, w) \in [Widget -> Runs]
         /\ \A v \in Widget :
              Moves(G, w)[v] =
                IF Parent[v] = Root THEN Ran(G, w, v, FALSE, Window)
                ELSE Ran(G, w, v, Moves(G, w)[Parent[v]].moved, Moves(G, w)[Parent[v]].content)
<1> DEFINE At(h, v) == IF Parent[v] = Root THEN Ran(G, w, v, FALSE, Window)
                       ELSE Ran(G, w, v, h[Parent[v]].moved, h[Parent[v]].content)
           step == [v \in Widget |-> [x \in Runs |-> Ran(G, w, v, x.moved, x.content)]]
           top == [moved |-> FALSE, to |-> Window, content |-> Window]
<1>1. step \in [Widget -> [Runs -> Runs]] /\ top \in Runs
  <2>1. top \in Runs
    BY WindowAssumption DEF Runs
  <2>2. ASSUME NEW v \in Widget, NEW x \in Runs
        PROVE  Ran(G, w, v, x.moved, x.content) \in Runs
    <3>1. x.moved \in BOOLEAN /\ x.content \in Rect
      BY DEF Runs
    <3> QED BY <3>1, RanIs
  <2> QED BY <2>1, <2>2
<1>2. PICK f \in [Widget -> Runs] : \A v \in Widget : f[v] = step[v][Handed(f, v, top)]
  <2> HIDE DEF step, top
  <2>1. \E f \in [Widget -> Runs] : \A v \in Widget : f[v] = step[v][Handed(f, v, top)]
    BY <1>1, DownTheTree
  <2> QED BY <2>1
<1>3. \A v \in Widget : Parent[v] # Root => Parent[v] \in Widget
  BY ParentAssumption
<1>4. f = [v \in Widget |-> At(f, v)]
  <2>1. ASSUME NEW v \in Widget
        PROVE  f[v] = At(f, v)
    <3>1. CASE Parent[v] = Root
      <4>1. Handed(f, v, top) = top
        BY <3>1 DEF Handed
      <4>2. f[v] = Ran(G, w, v, top.moved, top.content)
        BY <1>1, <1>2, <4>1
      <4> QED BY <3>1, <4>2
    <3>2. CASE Parent[v] # Root
      <4>1. Handed(f, v, top) = f[Parent[v]] /\ f[Parent[v]] \in Runs
        BY <1>2, <1>3, <3>2 DEF Handed
      <4>2. f[v] = Ran(G, w, v, f[Parent[v]].moved, f[Parent[v]].content)
        BY <1>2, <4>1
      <4> QED BY <3>2, <4>2
    <3> QED BY <3>1, <3>2
  <2> HIDE DEF At
  <2> QED BY <2>1
<1> DEFINE Body(h, v) ==
             LET above == IF Parent[v] = Root THEN [moved |-> FALSE, content |-> Window]
                          ELSE h[Parent[v]]
                 to == Placed(G.params[v], above.content, G.requested[v])
             IN  IF (v = w \/ above.moved) /\ Managed(G, v) /\ to # G.location[v]
                 THEN [moved |-> TRUE, to |-> to, content |-> Content(to, Inner(G, v, to))]
                 ELSE [moved |-> FALSE, to |-> G.location[v],
                       content |-> Content(G.location[v], G.inner[v])]
           run == CHOOSE h : h = [v \in Widget |-> Body(h, v)]
<1>5. Moves(G, w) = run
  BY DEF Moves
<1>6. ASSUME NEW h, NEW v \in Widget
      PROVE  Body(h, v) = At(h, v)
  <2>1. CASE Parent[v] = Root
    BY <2>1 DEF Ran
  <2>2. CASE Parent[v] # Root
    BY <2>2 DEF Ran
  <2> QED BY <2>1, <2>2
<1> HIDE DEF Body
<1>7. f = [v \in Widget |-> Body(f, v)]
  <2> HIDE DEF At
  <2> QED BY <1>4, <1>6
<1>8. run = [v \in Widget |-> Body(run, v)]
  BY <1>7
<1> HIDE DEF run
<1>9. \A v \in Widget : run[v] = At(run, v)
  <2> HIDE DEF At
  <2> QED BY <1>6, <1>8
<1>10. \A v \in Widget : run[v] \in Runs
  <2> DEFINE S == {v \in Widget : run[v] \in Runs}
  <2>1. ASSUME NEW v \in Widget, Parent[v] = Root \/ Parent[v] \in S
        PROVE  run[v] \in Runs
    <3>1. CASE Parent[v] = Root
      BY <1>9, <3>1, RanIs, WindowAssumption
    <3>2. CASE Parent[v] # Root
      <4>1. run[Parent[v]].moved \in BOOLEAN /\ run[Parent[v]].content \in Rect
        BY <2>1, <3>2 DEF Runs
      <4>2. Ran(G, w, v, run[Parent[v]].moved, run[Parent[v]].content) \in Runs
        BY <4>1, RanIs
      <4> QED BY <1>9, <3>2, <4>2
    <3> QED BY <3>1, <3>2
  <2>2. \A v \in Widget : (Parent[v] = Root \/ Parent[v] \in S) => v \in S
    BY <2>1
  <2> HIDE DEF S
  <2>3. Widget \subseteq S
    BY <2>2, AllDown
  <2> QED BY <2>3 DEF S
<1>11. run \in [Widget -> Runs]
  BY <1>8, <1>10
<1> QED BY <1>5, <1>9, <1>11


(* A run of the placer, and what it leaves when nothing was ever clipped.  *)
LEMMA RunplacerIs ==
  ASSUME NEW G \in Geometries, NEW w \in Widget
  PROVE  LET H == runplacer(G, w)
             m == Moves(G, w)
         IN  /\ H \in Geometries
             /\ H.requested = G.requested /\ H.border = G.border /\ H.params = G.params
             /\ G.cut => H.cut
             /\ ~H.cut => \A v \in Widget :
                  /\ H.location[v] = m[v].to
                  /\ H.inner[v] = IF m[v].moved THEN Inner(G, v, m[v].to) ELSE G.inner[v]
<1> DEFINE run == Moves(G, w)
           moved == {v \in Widget : run[v].moved}
           cell(v) == Inner(G, v, run[v].to)
           bare == {v \in moved : Class[v] = "frame" \/ (Class[v] = "button" /\ G.border[v] = 0)}
           edged == {v \in moved : Class[v] = "button" /\ cell(v) # NULL}
           location == [v \in Widget |-> IF v \in bare THEN Clip(run[v].to) ELSE run[v].to]
           inner == [v \in Widget |-> CASE v \notin moved -> G.inner[v]
                                        [] v \in edged -> Clip(cell(v))
                                        [] v \in moved \ edged -> cell(v)]
           cut == \/ \E v \in bare : Clip(run[v].to) # run[v].to
                  \/ \E v \in edged : Clip(cell(v)) # cell(v)
           H == [G EXCEPT !.location = location, !.inner = inner, !.cut = @ \/ cut]
<1>1. runplacer(G, w) = H
  BY DEF runplacer
<1>2. \A v \in Widget : run[v].to \in Rect /\ run[v].moved \in BOOLEAN
  <2>1. run \in [Widget -> Runs]
    BY MovesAre
  <2> HIDE DEF run
  <2> QED BY <2>1 DEF Runs
<1>3. \A v \in Widget : cell(v) \in Rect \cup {NULL}
  <2> HIDE DEF run
  <2> QED BY <1>2, InnerIs
<1>4. location \in [Widget -> Rect]
  <2> HIDE DEF run, bare
  <2> QED BY <1>2, ClipIs
<1>5. inner \in [Widget -> Rect \cup {NULL}]
  <2>1. ASSUME NEW v \in Widget
        PROVE  inner[v] \in Rect \cup {NULL}
    <3>1. CASE v \notin moved
      <4>1. inner[v] = G.inner[v]
        BY <3>1
      <4> QED BY <4>1 DEF Geometries
    <3>2. CASE v \in edged
      <4>1. inner[v] = Clip(cell(v)) /\ cell(v) \in Rect
        BY <1>3, <3>2
      <4> QED BY <4>1, ClipIs
    <3>3. CASE v \in moved \ edged
      <4>1. inner[v] = cell(v)
        BY <3>3
      <4> QED BY <4>1, <1>3
    <3> QED BY <3>1, <3>2, <3>3
  <2> HIDE DEF inner
  <2>2. inner = [v \in Widget |-> inner[v]]
    BY DEF inner
  <2> QED BY <2>1, <2>2
<1>6. H \in Geometries
  <2> HIDE DEF location, inner, cut
  <2> QED BY <1>4, <1>5 DEF Geometries
<1>7. H.requested = G.requested /\ H.border = G.border /\ H.params = G.params
  <2> HIDE DEF location, inner, cut
  <2> QED BY DEF Geometries
<1>8. H.location = location /\ H.inner = inner /\ H.cut = (G.cut \/ cut)
  <2> HIDE DEF location, inner, cut
  <2> QED BY DEF Geometries
<1>9. ASSUME ~cut, NEW v \in Widget
      PROVE  /\ location[v] = run[v].to
             /\ inner[v] = IF run[v].moved THEN Inner(G, v, run[v].to) ELSE G.inner[v]
  <2>1. location[v] = run[v].to
    BY <1>9
  <2>2. CASE v \notin moved
    BY <2>1, <2>2
  <2>3. CASE v \in edged
    <3>1. Clip(cell(v)) = cell(v)
      BY <1>9, <2>3
    <3> QED BY <2>1, <2>3, <3>1
  <2>4. CASE v \in moved \ edged
    BY <2>1, <2>4
  <2> QED BY <2>2, <2>3, <2>4
<1> HIDE DEF H, location, inner, cut
<1>10. ~H.cut => \A v \in Widget :
          /\ H.location[v] = run[v].to
          /\ H.inner[v] = IF run[v].moved THEN Inner(G, v, run[v].to) ELSE G.inner[v]
  BY <1>8, <1>9
<1>11. G.cut => H.cut
  BY <1>8
<1> QED BY <1>1, <1>6, <1>7, <1>10, <1>11


-----------------------------------------------------------------------------
(* What holds of a widget and its parent in a geometry that nothing        *)
(* disturbed.  One that is not managed is nowhere; the content of one that *)
(* is somewhere lies inside its border; a frame without a border never had *)
(* one; and a widget lies where its parent's content puts it, unless the   *)
(* parent is not managed, or was put at Zero, where it does not move.      *)
Hidden(G) == \A v \in Widget : ~Managed(G, v) => G.location[v] = Zero

Celled(G) ==
  \A v \in Widget : Managed(G, v) /\ G.location[v] # Zero =>
    Content(G.location[v], G.inner[v]) = Inside(G, v, G.location[v])

Bare(G) == \A v \in Widget : Class[v] = "frame" /\ G.border[v] = 0 => G.inner[v] = NULL

Held(G, v) == Parent[v] = Root \/ (Managed(G, Parent[v]) /\ G.location[Parent[v]] # Zero)

Fits(G, v) ==
  Managed(G, v) /\ Held(G, v) =>
    G.location[v] = Placed(G.params[v], Above(G, v), G.requested[v])

Settled(G) == Celled(G) /\ Bare(G) /\ \A v \in Widget : Fits(G, v)

(* The size of a widget that was given none.                               *)
Asked(G, v) ==
  Managed(G, v) =>
    /\ G.params[v].size \in {0, G.requested[v]}
    /\ G.params[v].rel_size = 0 => G.location[v].size = G.requested[v]

(* Where nothing is clipped, a run of the placer takes v to what its       *)
(* parent hands it.                                                        *)
LEMMA RunIs ==
  ASSUME NEW G \in Geometries, NEW w \in Widget, ~runplacer(G, w).cut, NEW v \in Widget
  PROVE  LET H == runplacer(G, w)
             m == Moves(G, w)
             p == Parent[v]
             to == Placed(G.params[v], Above(H, v), G.requested[v])
             moves == /\ v = w \/ (p \in Widget /\ m[p].moved)
                      /\ Managed(G, v)
                      /\ to # G.location[v]
         IN  /\ m[v].moved <=> moves
             /\ moves => H.location[v] = to /\ H.inner[v] = Inner(G, v, to)
             /\ ~moves => H.location[v] = G.location[v] /\ H.inner[v] = G.inner[v]
<1> DEFINE H == runplacer(G, w)
           m == Moves(G, w)
           p == Parent[v]
           to == Placed(G.params[v], Above(H, v), G.requested[v])
           moves == /\ v = w \/ (p \in Widget /\ m[p].moved)
                    /\ Managed(G, v)
                    /\ to # G.location[v]
<1>1. m \in [Widget -> Runs]
  BY MovesAre
<1>2. \A u \in Widget : /\ H.location[u] = m[u].to
                        /\ H.inner[u] = IF m[u].moved THEN Inner(G, u, m[u].to) ELSE G.inner[u]
  BY RunplacerIs
<1>3. \A u \in Widget :
        m[u] = IF Parent[u] = Root THEN Ran(G, w, u, FALSE, Window)
               ELSE Ran(G, w, u, m[Parent[u]].moved, m[Parent[u]].content)
  BY MovesAre
<1>4. \A u \in Widget : Content(H.location[u], H.inner[u]) = m[u].content
  <2>1. ASSUME NEW u \in Widget
        PROVE  \E moved, content : m[u] = Ran(G, w, u, moved, content)
    BY <1>3
  <2>2. ASSUME NEW u \in Widget
        PROVE  Content(H.location[u], H.inner[u]) = m[u].content
    <3> HIDE DEF H, m
    <3>1. PICK moved, content : m[u] = Ran(G, w, u, moved, content)
      BY <2>1
    <3>2. CASE m[u].moved
      <4>1. m[u].content = Content(m[u].to, Inner(G, u, m[u].to))
        BY <3>1, <3>2 DEF Ran
      <4> QED BY <1>2, <3>2, <4>1
    <3>3. CASE ~m[u].moved
      <4>1. m[u].content = Content(G.location[u], G.inner[u]) /\ m[u].to = G.location[u]
        BY <3>1, <3>3 DEF Ran
      <4> QED BY <1>2, <3>3, <4>1
    <3> QED BY <3>2, <3>3
  <2> QED BY <2>2
<1>5. p # Root => p \in Widget
  BY ParentAssumption
<1>6. p = Root => p \notin Widget
  BY ParentAssumption
<1> HIDE DEF H, m
<1>7. Above(H, v) = IF p = Root THEN Window ELSE m[p].content
  BY <1>4, <1>5 DEF Above
<1>8. m[v] = Ran(G, w, v, p \in Widget /\ m[p].moved, Above(H, v))
  <2>1. CASE p = Root
    <3>1. (p \in Widget /\ m[p].moved) = FALSE
      BY <1>6, <2>1
    <3> QED BY <1>3, <1>7, <2>1, <3>1
  <2>2. CASE p # Root
    <3>1. (p \in Widget /\ m[p].moved) = m[p].moved
      BY <1>1, <1>5, <2>2 DEF Runs
    <3> QED BY <1>3, <1>7, <2>2, <3>1
  <2> QED BY <2>1, <2>2
<1>9. m[v] = IF moves THEN [moved |-> TRUE, to |-> to, content |-> Content(to, Inner(G, v, to))]
             ELSE [moved |-> FALSE, to |-> G.location[v],
                   content |-> Content(G.location[v], G.inner[v])]
  BY <1>8 DEF Ran
<1> HIDE DEF to, moves
<1>10. (m[v].moved <=> moves) /\ m[v].to = IF moves THEN to ELSE G.location[v]
  <2>1. CASE moves
    BY <1>9, <2>1
  <2>2. CASE ~moves
    BY <1>9, <2>2
  <2> QED BY <2>1, <2>2
<1>11. H.location[v] = m[v].to
       /\ H.inner[v] = IF m[v].moved THEN Inner(G, v, m[v].to) ELSE G.inner[v]
  BY <1>2
<1>12. /\ m[v].moved <=> moves
       /\ moves => H.location[v] = to /\ H.inner[v] = Inner(G, v, to)
       /\ ~moves => H.location[v] = G.location[v] /\ H.inner[v] = G.inner[v]
  BY <1>10, <1>11
<1> QED BY <1>12 DEF H, m, to, moves


(* The run of the placer on w settles w, and leaves settled what was.      *)
LEMMA RunSettles ==
  ASSUME NEW G \in Geometries, NEW w \in Widget, ~runplacer(G, w).cut,
         Hidden(G), Celled(G), Bare(G), \A v \in Widget \ {w} : Fits(G, v)
  PROVE  Settled(runplacer(G, w))
<1> DEFINE H == runplacer(G, w)
           m == Moves(G, w)
<1>1. H \in Geometries /\ H.requested = G.requested /\ H.border = G.border /\ H.params = G.params
  BY RunplacerIs
<1>2. \A v \in Widget : Managed(H, v) <=> Managed(G, v)
  BY <1>1 DEF Managed
<1> DEFINE to(v) == Placed(G.params[v], Above(H, v), G.requested[v])
           moves(v) == /\ v = w \/ (Parent[v] \in Widget /\ m[Parent[v]].moved)
                       /\ Managed(G, v)
                       /\ to(v) # G.location[v]
<1>3. \A v \in Widget :
        /\ m[v].moved <=> moves(v)
        /\ moves(v) => H.location[v] = to(v) /\ H.inner[v] = Inner(G, v, to(v))
        /\ ~moves(v) => H.location[v] = G.location[v] /\ H.inner[v] = G.inner[v]
  BY RunIs
<1> HIDE DEF H, m, to
<1>4. \A v \in Widget : Class[v] \in {"frame", "button", "toplevel"} /\ G.border[v] \in Nat
  BY ClassAssumption DEF Geometries
<1>5. \A v \in Widget : /\ G.inner[v] \in Rect \cup {NULL}
                        /\ H.inner[v] \in Rect \cup {NULL}
                        /\ H.location[v] \in Rect
  BY <1>1 DEF Geometries
<1>6. Celled(H)
  <2> SUFFICES ASSUME NEW v \in Widget, Managed(H, v), H.location[v] # Zero
               PROVE  Content(H.location[v], H.inner[v]) = Inside(H, v, H.location[v])
    BY DEF Celled
  <2>1. CASE moves(v)
    <3> DEFINE r == H.location[v]
    <3>1. H.inner[v] = Inner(G, v, r)
      BY <1>3, <2>1
    <3>2. r \in Rect /\ r = [at |-> r.at, size |-> r.size] /\ r.at \in Int /\ r.size \in Int
      BY <1>5 DEF Rect
    <3>3. NULL \notin Rect
      BY NullAssumption
    <3> HIDE DEF r
    <3>4. CASE Class[v] = "toplevel"
      <4>1. Inner(G, v, r) = [at |-> r.at + G.border[v], size |-> r.size]
        BY <3>4 DEF Inner
      <4>2. [at |-> r.at + G.border[v], size |-> r.size] \in Rect
        BY <1>4, <3>2 DEF Rect
      <4> QED BY <1>1, <3>1, <3>3, <3>4, <4>1, <4>2 DEF Content, Inside, r
    <3>5. CASE Class[v] # "toplevel" /\ G.border[v] > 0
      <4>1. Inner(G, v, r) = [at |-> r.at + G.border[v], size |-> r.size - 2 * G.border[v]]
        BY <1>4, <3>5 DEF Inner
      <4>2. [at |-> r.at + G.border[v], size |-> r.size - 2 * G.border[v]] \in Rect
        BY <1>4, <3>2 DEF Rect
      <4> QED BY <1>1, <3>1, <3>3, <3>5, <4>1, <4>2 DEF Content, Inside, r
    <3>6. CASE Class[v] # "toplevel" /\ G.border[v] = 0
      <4>1. Inner(G, v, r) = NULL
        BY <1>4, <3>6 DEF Inner, Bare
      <4>2. [at |-> r.at + 0, size |-> r.size - 2 * 0] = r
        BY <3>2
      <4> QED BY <1>1, <3>1, <3>6, <4>1, <4>2 DEF Content, Inside, r
    <3> QED BY <1>4, <3>4, <3>5, <3>6
  <2>2. CASE ~moves(v)
    <3>1. H.location[v] = G.location[v] /\ H.inner[v] = G.inner[v] /\ Managed(G, v)
      BY <1>2, <1>3, <2>2
    <3> QED BY <1>1, <3>1 DEF Celled, Inside
  <2> QED BY <2>1, <2>2
<1>7. Bare(H)
  <2> SUFFICES ASSUME NEW v \in Widget, Class[v] = "frame", H.border[v] = 0
               PROVE  H.inner[v] = NULL
    BY DEF Bare
  <2>1. G.inner[v] = NULL
    BY <1>1 DEF Bare
  <2>2. CASE moves(v)
    <3>1. Inner(G, v, to(v)) = NULL
      BY <1>1, <2>1 DEF Inner
    <3> QED BY <1>3, <2>2, <3>1
  <2>3. CASE ~moves(v)
    BY <1>3, <2>1, <2>3
  <2> QED BY <2>2, <2>3
<1>8. ASSUME NEW v \in Widget
      PROVE  Fits(H, v)
  <2> SUFFICES ASSUME Managed(H, v), Held(H, v)
               PROVE  H.location[v] = to(v)
    BY <1>1 DEF Fits, to
  <2>1. CASE moves(v)
    BY <1>3, <2>1
  <2>2. CASE ~moves(v) /\ (v = w \/ (Parent[v] \in Widget /\ m[Parent[v]].moved))
    BY <1>2, <1>3, <2>2
  <2>3. CASE v # w /\ ~ (Parent[v] \in Widget /\ m[Parent[v]].moved)
    <3> DEFINE p == Parent[v]
    <3>1. H.location[v] = G.location[v]
      BY <1>3, <2>3
    <3>2. p # Root => p \in Widget
      BY ParentAssumption
    <3>3. p # Root => H.location[p] = G.location[p] /\ H.inner[p] = G.inner[p]
      BY <1>3, <2>3, <3>2
    <3>4. Above(H, v) = Above(G, v)
      BY <3>3 DEF Above
    <3>5. Managed(G, v) /\ Held(G, v)
      BY <1>2, <3>2, <3>3 DEF Held
    <3>6. G.location[v] = Placed(G.params[v], Above(G, v), G.requested[v])
      BY <2>3, <3>5 DEF Fits
    <3> QED BY <3>1, <3>4, <3>6 DEF to
  <2> QED BY <2>1, <2>2, <2>3
<1> QED BY <1>6, <1>7, <1>8 DEF Settled, H

(* It takes no widget that is not managed anywhere.                        *)
LEMMA RunHides ==
  ASSUME NEW G \in Geometries, NEW w \in Widget, ~runplacer(G, w).cut, Hidden(G)
  PROVE  Hidden(runplacer(G, w))
<1> DEFINE H == runplacer(G, w)
<1>1. \A v \in Widget : ~Managed(G, v) => H.location[v] = G.location[v]
  BY RunIs
<1>2. H.params = G.params
  BY RunplacerIs
<1> HIDE DEF H
<1>3. Hidden(H)
  BY <1>1, <1>2 DEF Hidden, Managed
<1> QED BY <1>3 DEF H

(* It gives w, and those below, the size they ask for.                     *)
LEMMA RunAsked ==
  ASSUME NEW G \in Geometries, NEW w \in Widget, ~runplacer(G, w).cut,
         \A v \in Widget \ {w} : Asked(G, v),
         Managed(G, w) => G.params[w].size \in {0, G.requested[w]}
  PROVE  \A v \in Widget : Asked(runplacer(G, w), v)
<1> DEFINE H == runplacer(G, w)
<1> SUFFICES ASSUME NEW v \in Widget
             PROVE  Asked(H, v)
  OBVIOUS
<1> DEFINE to == Placed(G.params[v], Above(H, v), G.requested[v])
<1>1. H \in Geometries /\ H.requested = G.requested /\ H.params = G.params
  BY RunplacerIs
<1>2. Managed(G, v) /\ v = w => H.location[v] = to
  BY RunIs
<1>3. H.location[v] = to \/ H.location[v] = G.location[v]
  BY RunIs
<1> HIDE DEF H
<1>4. Above(H, v) \in Rect
  BY <1>1, AboveIs
<1>5. G.requested[v] \in Int /\ (Managed(G, v) => G.params[v] \in Params)
  BY DEF Geometries, Managed
<1>6. Managed(G, v) => G.params[v].size \in {0, G.requested[v]}
  BY DEF Asked
<1>7. Managed(G, v) /\ G.params[v].rel_size = 0 => to.size = G.requested[v]
  BY <1>4, <1>5, <1>6, RequestedIs
<1> HIDE DEF to
<1>8. Managed(G, v) /\ G.params[v].rel_size = 0 => H.location[v].size = G.requested[v]
  <2>1. CASE H.location[v] = to
    BY <1>7, <2>1
  <2>2. CASE H.location[v] = G.location[v] /\ v # w
    BY <2>2 DEF Asked
  <2>3. CASE v = w
    BY <1>2, <1>7, <2>3
  <2> QED BY <1>3, <2>1, <2>2, <2>3
<1> QED BY <1>1, <1>6, <1>8 DEF Asked, Managed


-----------------------------------------------------------------------------
(* A call that changes only what is asked of w, then what becomes of the   *)
(* others: nothing, if the content of w stays where it was.                *)
LEMMA TouchHides ==
  ASSUME NEW G \in Geometries, NEW H \in Geometries, NEW w \in Widget,
         H.location = G.location,
         \A v \in Widget \ {w} : H.params[v] = G.params[v],
         Managed(G, w) => Managed(H, w),
         Hidden(G)
  PROVE  Hidden(H)
BY DEF Hidden, Managed

LEMMA TouchSettles ==
  ASSUME NEW G \in Geometries, NEW H \in Geometries, NEW w \in Widget,
         H.location = G.location,
         \A v \in Widget \ {w} : /\ H.params[v] = G.params[v] /\ H.requested[v] = G.requested[v]
                                 /\ H.border[v] = G.border[v] /\ H.inner[v] = G.inner[v],
         Managed(G, w) => H.border[w] = G.border[w] /\ H.inner[w] = G.inner[w],
         Hidden(G), Settled(G)
  PROVE  Celled(H) /\ \A v \in Widget \ {w} : Fits(H, v)
<1>1. \A v \in Widget \ {w} : Managed(H, v) <=> Managed(G, v)
  BY DEF Managed
<1>2. G.location[w] # Zero => Managed(G, w)
  BY DEF Hidden
<1>3. Celled(H)
  <2> SUFFICES ASSUME NEW v \in Widget, Managed(H, v), H.location[v] # Zero
               PROVE  Content(H.location[v], H.inner[v]) = Inside(H, v, H.location[v])
    BY DEF Celled
  <2>1. Managed(G, v) /\ G.location[v] # Zero
    BY <1>1, <1>2
  <2>2. Content(G.location[v], G.inner[v]) = Inside(G, v, G.location[v])
    BY <2>1 DEF Settled, Celled
  <2>3. H.border[v] = G.border[v] /\ H.inner[v] = G.inner[v]
    BY <2>1
  <2> QED BY <2>2, <2>3 DEF Inside
<1>4. ASSUME NEW v \in Widget \ {w}, Managed(H, v), Held(H, v)
      PROVE  H.location[v] = Placed(H.params[v], Above(H, v), H.requested[v])
  <2>1. Parent[v] # Root => Parent[v] \in Widget
    BY ParentAssumption
  <2>2. Parent[v] # Root => Managed(G, Parent[v]) /\ G.location[Parent[v]] # Zero
    BY <1>1, <1>2, <1>4, <2>1 DEF Held
  <2>3. Parent[v] # Root => H.inner[Parent[v]] = G.inner[Parent[v]]
    BY <2>1, <2>2
  <2>4. Above(H, v) = Above(G, v)
    BY <2>3 DEF Above
  <2>5. Managed(G, v) /\ Held(G, v)
    BY <1>1, <1>4, <2>2 DEF Held
  <2>6. G.location[v] = Placed(G.params[v], Above(G, v), G.requested[v])
    BY <2>5 DEF Settled, Fits
  <2> QED BY <2>4, <2>6
<1> QED BY <1>3, <1>4 DEF Fits

-----------------------------------------------------------------------------
(* ei_place.                                                               *)
LEMMA GivenIs ==
  ASSUME NEW w \in Widget, NEW given \in Calls[w]
  PROVE  /\ \A requested \in Int :
              /\ FirstPlaced(given, requested) \in Params
              /\ FirstPlaced(given, requested).size \in {0, requested}
         /\ \A p \in Params :
              /\ PlacedAgain(p, given) \in Params
              /\ PlacedAgain(p, given).size = p.size
<1>1. /\ DOMAIN given \subseteq Fields \ {"size"}
      /\ "anchor" \in DOMAIN given => given["anchor"] \in Anchor
      /\ \A f \in DOMAIN given \ {"anchor"} : given[f] \in Int
  BY CallAssumption
<1>2. ASSUME NEW requested \in Int
      PROVE  /\ FirstPlaced(given, requested) \in Params
             /\ FirstPlaced(given, requested).size \in {0, requested}
  <2> DEFINE p == FirstPlaced(given, requested)
  <2>1. "anchor" \in Fields /\ "size" \in Fields
    BY DEF Fields
  <2>2. p["anchor"] \in Anchor
    BY <1>1, <2>1 DEF FirstPlaced, Anchor
  <2>3. p["size"] \in {0, requested}
    BY <1>1, <2>1 DEF FirstPlaced
  <2>4. ASSUME NEW f \in Fields \ {"anchor"}
        PROVE  p[f] \in Int
    <3>1. CASE f \in DOMAIN given
      BY <1>1, <3>1 DEF FirstPlaced
    <3>2. CASE f \notin DOMAIN given
      <4>1. p[f] \in {0, requested}
        BY <3>2, <2>4 DEF FirstPlaced
      <4> QED BY <4>1
    <3> QED BY <3>1, <3>2
  <2>5. p = [f \in Fields |-> p[f]]
    BY DEF FirstPlaced
  <2> HIDE DEF p
  <2>6. p \in [Fields -> Anchor \cup Int]
    BY <2>2, <2>4, <2>5
  <2>7. p \in Params
    BY <2>2, <2>4, <2>6 DEF Params
  <2> QED BY <2>3, <2>7 DEF p
<1>3. ASSUME NEW q \in Params
      PROVE  /\ PlacedAgain(q, given) \in Params
             /\ PlacedAgain(q, given).size = q.size
  <2> DEFINE p == PlacedAgain(q, given)
  <2>1. "anchor" \in Fields /\ "size" \in Fields
    BY DEF Fields
  <2>2. q["anchor"] \in Anchor /\ \A f \in Fields \ {"anchor"} : q[f] \in Int
    BY DEF Params
  <2>3. p["anchor"] \in Anchor
    BY <1>1, <2>1, <2>2 DEF PlacedAgain
  <2>4. p["size"] = q["size"]
    BY <1>1, <2>1 DEF PlacedAgain
  <2>5. \A f \in Fields \ {"anchor"} : p[f] \in Int
    BY <1>1, <2>2 DEF PlacedAgain
  <2>6. p = [f \in Fields |-> p[f]]
    BY DEF PlacedAgain
  <2> HIDE DEF p
  <2>7. p \in [Fields -> Anchor \cup Int]
    BY <2>3, <2>5, <2>6
  <2>8. p \in Params
    BY <2>3, <2>5, <2>7 DEF Params
  <2> QED BY <2>4, <2>8 DEF p
<1> QED BY <1>2, <1>3

-----------------------------------------------------------------------------
(* The invariant.  The history variables decide how much of it stands.     *)
Inv ==
  /\ geo \in Geometries
  /\ ~geo.cut =>
       /\ Hidden(geo)
       /\ "border" \notin careless => Settled(geo)
       /\ "size" \notin careless => \A v \in Widget : Asked(geo, v)

(* A call of the library on w asks for something, in G, and the placer is  *)
(* run; border and size tell whether the call was careful of each.         *)
LEMMA RunKeeps ==
  ASSUME NEW G \in Geometries, NEW w \in Widget, NEW border, NEW size,
         ~G.cut => /\ Hidden(G)
                   /\ border => Celled(G) /\ Bare(G) /\ \A v \in Widget \ {w} : Fits(G, v)
                   /\ size => /\ \A v \in Widget \ {w} : Asked(G, v)
                              /\ Managed(G, w) => G.params[w].size \in {0, G.requested[w]}
  PROVE  LET H == runplacer(G, w)
         IN  /\ H \in Geometries
             /\ ~H.cut => /\ Hidden(H)
                          /\ border => Settled(H)
                          /\ size => \A v \in Widget : Asked(H, v)
<1> DEFINE H == runplacer(G, w)
<1>1. H \in Geometries /\ (G.cut => H.cut)
  BY RunplacerIs
<1>2. ASSUME ~H.cut
      PROVE  /\ Hidden(H)
             /\ border => Settled(H)
             /\ size => \A v \in Widget : Asked(H, v)
  <2>1. ~G.cut
    BY <1>1, <1>2
  <2>2. Hidden(H)
    BY <1>2, <2>1, RunHides
  <2>3. border => Settled(H)
    BY <1>2, <2>1, RunSettles
  <2>4. size => \A v \in Widget : Asked(H, v)
    BY <1>2, <2>1, RunAsked
  <2> QED BY <2>2, <2>3, <2>4
<1> QED BY <1>1, <1>2

LEMMA InitKeeps == Init => Inv
<1> SUFFICES ASSUME Init
             PROVE  Inv
  OBVIOUS
<1>1. Zero \in Rect
  BY DEF Zero, Rect
<1>2. geo \in Geometries
  BY <1>1, SizeAssumption DEF Init, Geometries
<1>3. \A v \in Widget : /\ ~Managed(geo, v) /\ geo.location[v] = Zero
                        /\ Class[v] = "frame" => geo.inner[v] = NULL
  BY DEF Init, Managed
<1> QED BY <1>2, <1>3 DEF Inv, Hidden, Settled, Celled, Bare, Fits, Asked

LEMMA PlaceKeeps ==
  ASSUME Inv, NEW w \in Widget, NEW given \in Calls[w], ei_place(w, given)
  PROVE  Inv'
<1> DEFINE p == IF geo.params[w] = NULL THEN FirstPlaced(given, geo.requested[w])
                ELSE PlacedAgain(geo.params[w], given)
           G == [geo EXCEPT !.params[w] = p]
<1>1. geo \in Geometries
  BY DEF Inv
<1>2. geo.requested[w] \in Int /\ geo.params[w] \in Params \cup {NULL}
  BY <1>1 DEF Geometries
<1>3. p \in Params /\ p # NULL
  BY <1>2, GivenIs, NullAssumption
<1>4. ~geo.cut /\ "size" \notin careless => p.size \in {0, geo.requested[w]}
  <2>1. CASE geo.params[w] = NULL
    BY <1>2, <2>1, GivenIs
  <2>2. CASE geo.params[w] # NULL
    BY <1>2, <2>2, GivenIs DEF Inv, Asked, Managed
  <2> QED BY <2>1, <2>2
<1>5. geo' = runplacer(G, w) /\ careless' = careless
  BY DEF ei_place
<1> HIDE DEF p
<1>6. /\ G \in Geometries
      /\ G.requested = geo.requested /\ G.border = geo.border /\ G.location = geo.location
      /\ G.inner = geo.inner /\ G.cut = geo.cut
      /\ G.params[w] = p
      /\ \A v \in Widget \ {w} : G.params[v] = geo.params[v]
  BY <1>1, <1>3 DEF Geometries
<1> HIDE DEF G
<1>7. Managed(G, w)
  BY <1>3, <1>6 DEF Managed
<1>8. ~G.cut => /\ Hidden(G)
                /\ "border" \notin careless =>
                     Celled(G) /\ Bare(G) /\ \A v \in Widget \ {w} : Fits(G, v)
                /\ "size" \notin careless =>
                     /\ \A v \in Widget \ {w} : Asked(G, v)
                     /\ Managed(G, w) => G.params[w].size \in {0, G.requested[w]}
  <2> SUFFICES ASSUME ~geo.cut
               PROVE  /\ Hidden(G)
                      /\ "border" \notin careless =>
                           Celled(G) /\ Bare(G) /\ \A v \in Widget \ {w} : Fits(G, v)
                      /\ "size" \notin careless =>
                           /\ \A v \in Widget \ {w} : Asked(G, v)
                           /\ Managed(G, w) => G.params[w].size \in {0, G.requested[w]}
    BY <1>6
  <2>1. Hidden(G)
    BY <1>1, <1>6, <1>7, TouchHides DEF Inv
  <2>2. ASSUME "border" \notin careless
        PROVE  Celled(G) /\ Bare(G) /\ \A v \in Widget \ {w} : Fits(G, v)
    <3>1. Hidden(geo) /\ Settled(geo)
      BY <2>2 DEF Inv
    <3>2. Celled(G) /\ \A v \in Widget \ {w} : Fits(G, v)
      BY <1>1, <1>6, <3>1, TouchSettles
    <3>3. Bare(G)
      BY <1>6, <3>1 DEF Settled, Bare
    <3> QED BY <3>2, <3>3
  <2>3. ASSUME "size" \notin careless
        PROVE  /\ \A v \in Widget \ {w} : Asked(G, v)
               /\ G.params[w].size \in {0, G.requested[w]}
    BY <1>4, <1>6, <2>3 DEF Inv, Asked, Managed
  <2> QED BY <2>1, <2>2, <2>3
<1>9. LET H == runplacer(G, w)
      IN  /\ H \in Geometries
          /\ ~H.cut => /\ Hidden(H)
                       /\ "border" \notin careless => Settled(H)
                       /\ "size" \notin careless => \A v \in Widget : Asked(H, v)
  BY <1>6, <1>8, RunKeeps
<1> QED BY <1>5, <1>9 DEF Inv

LEMMA DrawKeeps ==
  ASSUME Inv, NEW w \in Widget, Draw(w)
  PROVE  Inv'
<1>1. geo' = runplacer(geo, w) /\ careless' = careless
  BY DEF Draw
<1>2. geo \in Geometries
  BY DEF Inv
<1>3. ~geo.cut => /\ Hidden(geo)
                  /\ "border" \notin careless =>
                       Celled(geo) /\ Bare(geo) /\ \A v \in Widget \ {w} : Fits(geo, v)
                  /\ "size" \notin careless =>
                       /\ \A v \in Widget \ {w} : Asked(geo, v)
                       /\ Managed(geo, w) => geo.params[w].size \in {0, geo.requested[w]}
  BY DEF Inv, Settled, Asked
<1>4. LET H == runplacer(geo, w)
      IN  /\ H \in Geometries
          /\ ~H.cut => /\ Hidden(H)
                       /\ "border" \notin careless => Settled(H)
                       /\ "size" \notin careless => \A v \in Widget : Asked(H, v)
  BY <1>2, <1>3, RunKeeps
<1> QED BY <1>1, <1>4 DEF Inv


LEMMA UnmapKeeps ==
  ASSUME Inv, NEW w \in Widget, ei_geometrymanager_unmap(w)
  PROVE  Inv'
<1> DEFINE G == [geo EXCEPT !.params[w] = NULL, !.location[w] = Zero]
<1>1. geo' = G /\ careless' = careless
  BY DEF ei_geometrymanager_unmap
<1>2. geo \in Geometries
  BY DEF Inv
<1>3. Zero \in Rect
  BY DEF Zero, Rect
<1>4. /\ G \in Geometries
      /\ G.requested = geo.requested /\ G.border = geo.border /\ G.inner = geo.inner
      /\ G.cut = geo.cut
      /\ G.params[w] = NULL /\ G.location[w] = Zero
      /\ \A v \in Widget \ {w} : G.params[v] = geo.params[v] /\ G.location[v] = geo.location[v]
  BY <1>2, <1>3 DEF Geometries
<1> HIDE DEF G
<1>5. ~Managed(G, w) /\ \A v \in Widget \ {w} : Managed(G, v) <=> Managed(geo, v)
  BY <1>4 DEF Managed
<1>6. Hidden(geo) => Hidden(G)
  BY <1>4, <1>5 DEF Hidden
<1>7. ASSUME Settled(geo)
      PROVE  Settled(G)
  <2>1. Celled(G)
    <3> SUFFICES ASSUME NEW v \in Widget, Managed(G, v), G.location[v] # Zero
                 PROVE  Content(G.location[v], G.inner[v]) = Inside(G, v, G.location[v])
      BY DEF Celled
    <3>1. v # w /\ Managed(geo, v) /\ geo.location[v] = G.location[v]
      BY <1>4, <1>5
    <3>2. Content(geo.location[v], geo.inner[v]) = Inside(geo, v, geo.location[v])
      BY <1>7, <3>1 DEF Settled, Celled
    <3> QED BY <1>4, <3>1, <3>2 DEF Inside
  <2>2. Bare(G)
    BY <1>4, <1>7 DEF Settled, Bare
  <2>3. ASSUME NEW v \in Widget, Managed(G, v), Held(G, v)
        PROVE  G.location[v] = Placed(G.params[v], Above(G, v), G.requested[v])
    <3>1. v # w /\ Parent[v] # w
      BY <1>5, <2>3, ParentAssumption DEF Held
    <3>2. Parent[v] # Root => Parent[v] \in Widget \ {w}
      BY <3>1, ParentAssumption
    <3>3. Managed(geo, v) /\ Held(geo, v)
      BY <1>4, <1>5, <2>3, <3>1, <3>2 DEF Held
    <3>4. Above(G, v) = Above(geo, v)
      BY <1>4, <3>2 DEF Above
    <3>5. geo.location[v] = Placed(geo.params[v], Above(geo, v), geo.requested[v])
      BY <1>7, <3>3 DEF Settled, Fits
    <3> QED BY <1>4, <3>1, <3>4, <3>5
  <2> QED BY <2>1, <2>2, <2>3 DEF Settled, Fits
<1>8. ASSUME \A v \in Widget : Asked(geo, v)
      PROVE  \A v \in Widget : Asked(G, v)
  BY <1>4, <1>5, <1>8 DEF Asked
<1>9. G \in Geometries /\ (~G.cut => /\ Hidden(G)
                                     /\ "border" \notin careless => Settled(G)
                                     /\ "size" \notin careless => \A v \in Widget : Asked(G, v))
  BY <1>4, <1>6, <1>7, <1>8 DEF Inv
<1> QED BY <1>1, <1>9 DEF Inv

LEMMA ConfigureKeeps ==
  ASSUME Inv, NEW w \in Widget,
         NEW s \in Sizes[w] \cup {NULL}, NEW b \in Borders[w] \cup {NULL}, configure(w, s, b)
  PROVE  Inv'
<1> DEFINE size == Sized(s, w)
           F == [geo EXCEPT !.requested[w] = size]
           G == Bordered(F, w, b)
<1>1. geo' = Replaced(G, w)
  BY DEF configure
<1>2. /\ "border" \notin careless' => /\ "border" \notin careless
                                      /\ b # NULL => ~Managed(geo, w) /\ geo.inner[w] = NULL
      /\ "size" \notin careless' => /\ "size" \notin careless
                                    /\ Managed(geo, w) => size = geo.requested[w]
  BY DEF configure
<1>3. geo \in Geometries
  BY DEF Inv
<1>4. size \in Int /\ (b # NULL => b \in Nat)
  BY SizeAssumption DEF Sized
<1> HIDE DEF size
<1>5. /\ F \in Geometries
      /\ F.border = geo.border /\ F.location = geo.location
      /\ F.inner = geo.inner /\ F.cut = geo.cut /\ F.params = geo.params
      /\ F.requested[w] = size
      /\ \A v \in Widget \ {w} : F.requested[v] = geo.requested[v]
  BY <1>3, <1>4 DEF Geometries
<1> HIDE DEF F
<1>6. /\ G \in Geometries
      /\ G.requested = F.requested /\ G.location = F.location
      /\ G.cut = F.cut /\ G.params = F.params
      /\ \A v \in Widget \ {w} : G.border[v] = F.border[v] /\ G.inner[v] = F.inner[v]
      /\ b = NULL => G.border[w] = F.border[w] /\ G.inner[w] = F.inner[w]
      /\ F.inner[w] = NULL => G.inner[w] = NULL
  <2>1. CASE b = NULL
    <3>1. G = F
      BY <2>1 DEF Bordered
    <3> QED BY <1>5, <3>1
  <2>2. CASE b # NULL /\ (Class[w] = "toplevel" \/ F.inner[w] = NULL)
    <3>1. G = [F EXCEPT !.border[w] = b]
      BY <2>2 DEF Bordered
    <3> HIDE DEF G
    <3> QED BY <1>4, <1>5, <2>2, <3>1 DEF Geometries
  <2>3. CASE b # NULL /\ ~ (Class[w] = "toplevel" \/ F.inner[w] = NULL)
    <3>1. G = [F EXCEPT !.border[w] = b, !.inner[w] = Zero]
      BY <2>3 DEF Bordered
    <3>2. Zero \in Rect
      BY DEF Zero, Rect
    <3> HIDE DEF G
    <3> QED BY <1>4, <1>5, <2>3, <3>1, <3>2 DEF Geometries
  <2> QED BY <2>1, <2>2, <2>3
<1> HIDE DEF G
<1>7. \A v \in Widget : Managed(G, v) <=> Managed(geo, v)
  BY <1>5, <1>6 DEF Managed
<1>8. ~geo.cut => Hidden(G)
  BY <1>5, <1>6, <1>7 DEF Inv, Hidden
<1>9. ASSUME ~geo.cut, "border" \notin careless'
      PROVE  Celled(G) /\ Bare(G) /\ \A v \in Widget \ {w} : Fits(G, v)
  <2>1. Hidden(geo) /\ Settled(geo)
    BY <1>2, <1>9 DEF Inv
  <2>2. Managed(geo, w) => G.border[w] = geo.border[w] /\ G.inner[w] = geo.inner[w]
    BY <1>2, <1>5, <1>6, <1>9
  <2>3. Celled(G) /\ \A v \in Widget \ {w} : Fits(G, v)
    BY <1>3, <1>5, <1>6, <2>1, <2>2, TouchSettles
  <2>4. ASSUME NEW v \in Widget, Class[v] = "frame", G.border[v] = 0
        PROVE  G.inner[v] = NULL
    BY <1>2, <1>5, <1>6, <1>9, <2>1, <2>4 DEF Settled, Bare
  <2> QED BY <2>3, <2>4 DEF Bare
<1>10. ASSUME ~geo.cut, "size" \notin careless'
       PROVE  \A v \in Widget : Asked(G, v)
  BY <1>2, <1>5, <1>6, <1>7, <1>10 DEF Inv, Asked
<1>11. CASE Managed(G, w)
  <2>1. geo' = runplacer(G, w)
    BY <1>1, <1>11 DEF Replaced
  <2>2. ~G.cut => /\ Hidden(G)
                  /\ "border" \notin careless' =>
                       Celled(G) /\ Bare(G) /\ \A v \in Widget \ {w} : Fits(G, v)
                  /\ "size" \notin careless' =>
                       /\ \A v \in Widget \ {w} : Asked(G, v)
                       /\ Managed(G, w) => G.params[w].size \in {0, G.requested[w]}
    BY <1>5, <1>6, <1>8, <1>9, <1>10 DEF Asked
  <2>3. LET H == runplacer(G, w)
        IN  /\ H \in Geometries
            /\ ~H.cut => /\ Hidden(H)
                         /\ "border" \notin careless' => Settled(H)
                         /\ "size" \notin careless' => \A v \in Widget : Asked(H, v)
    BY <1>6, <2>2, RunKeeps
  <2> QED BY <2>1, <2>3 DEF Inv
<1>12. CASE ~Managed(G, w)
  <2>1. geo' = G
    BY <1>1, <1>12 DEF Replaced
  <2>2. ASSUME ~geo.cut, "border" \notin careless'
        PROVE  Settled(G)
    BY <1>9, <1>12, <2>2 DEF Settled, Fits
  <2>3. G \in Geometries /\ (~G.cut => /\ Hidden(G)
                                       /\ "border" \notin careless' => Settled(G)
                                       /\ "size" \notin careless' => \A v \in Widget : Asked(G, v))
    BY <1>5, <1>6, <1>8, <1>10, <2>2
  <2> QED BY <2>1, <2>3 DEF Inv
<1> QED BY <1>11, <1>12


-----------------------------------------------------------------------------
(* From a widget and its parent to the layout.                             *)
LEMMA ShownIs ==
  \A v \in Widget :
    Shown(v) <=> Managed(geo, v) /\ (Parent[v] = Root \/ (Parent[v] \in Widget /\ Shown(Parent[v])))
<1> SUFFICES ASSUME NEW v \in Widget
             PROVE  Shown(v) <=>
                      Managed(geo, v) /\ (Parent[v] = Root \/ (Parent[v] \in Widget /\ Shown(Parent[v])))
  OBVIOUS
<1>1. Line[v] = {v} \cup IF Parent[v] = Root THEN {} ELSE Line[Parent[v]]
  BY LineIs
<1>2. Parent[v] = Root \/ Parent[v] \in Widget
  BY ParentAssumption
<1> QED BY <1>1, <1>2 DEF Shown

LEMMA LayoutIs ==
  ASSUME geo \in Geometries
  PROVE  \A v \in Widget : Shown(v) =>
           Layout[v] = Placed(geo.params[v],
                              IF Parent[v] = Root THEN Window
                              ELSE Inside(geo, Parent[v], Layout[Parent[v]]),
                              geo.requested[v])
<1> DEFINE Laid(v, parent) == IF ~Shown(v) THEN Zero
                              ELSE Placed(geo.params[v], parent, geo.requested[v])
           At(h, v) == IF Parent[v] = Root THEN Laid(v, Window)
                       ELSE Laid(v, Inside(geo, Parent[v], h[Parent[v]]))
           step == [v \in Widget |-> [r \in Rect |->
                      IF Parent[v] = Root THEN Laid(v, Window)
                      ELSE Laid(v, Inside(geo, Parent[v], r))]]
           Body(h, v) ==
             LET p == Parent[v]
             IN  IF ~Shown(v) THEN Zero
                 ELSE Placed(geo.params[v], IF p = Root THEN Window ELSE Inside(geo, p, h[p]),
                             geo.requested[v])
           layout == CHOOSE h : h = [v \in Widget |-> Body(h, v)]
<1>1. Layout = layout
  BY DEF Layout
<1>2. ASSUME NEW h, NEW v \in Widget
      PROVE  Body(h, v) = At(h, v)
  <2>1. CASE Parent[v] = Root
    BY <2>1
  <2>2. CASE Parent[v] # Root
    BY <2>2
  <2> QED BY <2>1, <2>2
<1>3. \A v \in Widget : Parent[v] # Root => Parent[v] \in Widget
  BY ParentAssumption
<1>4. ASSUME NEW v \in Widget, NEW parent \in Rect
      PROVE  Laid(v, parent) \in Rect
  <2>1. Zero \in Rect
    BY DEF Zero, Rect
  <2>2. geo.requested[v] \in Int /\ geo.params[v] \in Params \cup {NULL}
    BY DEF Geometries
  <2>3. Shown(v) => geo.params[v] \in Params
    BY <2>2, ShownIs DEF Managed
  <2> QED BY <2>1, <2>2, <2>3, PlacedIs
<1>5. ASSUME NEW v \in Widget, NEW r \in Rect
      PROVE  Inside(geo, v, r) \in Rect
  <2>1. geo.border[v] \in Nat /\ r.at \in Int /\ r.size \in Int
    BY DEF Geometries, Rect
  <2> QED BY <2>1 DEF Inside, Rect
<1> HIDE DEF Laid, Body
<1>6. step \in [Widget -> [Rect -> Rect]]
  BY <1>3, <1>4, <1>5, WindowAssumption
<1>7. PICK f \in [Widget -> Rect] : \A v \in Widget : f[v] = step[v][Handed(f, v, Window)]
  <2> HIDE DEF step
  <2>1. \E f \in [Widget -> Rect] : \A v \in Widget : f[v] = step[v][Handed(f, v, Window)]
    BY <1>6, WindowAssumption, DownTheTree
  <2> QED BY <2>1
<1>8. ASSUME NEW v \in Widget
      PROVE  f[v] = At(f, v)
  <2>1. CASE Parent[v] = Root
    BY <1>7, <2>1, WindowAssumption DEF Handed
  <2>2. CASE Parent[v] # Root
    BY <1>3, <1>7, <2>2 DEF Handed
  <2> QED BY <2>1, <2>2
<1>9. f = [v \in Widget |-> Body(f, v)]
  <2> HIDE DEF At
  <2> QED BY <1>2, <1>7, <1>8
<1>10. layout = [v \in Widget |-> Body(layout, v)]
  BY <1>9
<1> HIDE DEF layout
<1>11. \A v \in Widget : Layout[v] = Body(Layout, v)
  BY <1>1, <1>10
<1> QED BY <1>11 DEF Body

(* In an undisturbed geometry every widget shown is where Layout has it.   *)
LEMMA InvLaysOut == Inv => LaidOut
<1> SUFFICES ASSUME Inv, "border" \notin careless, ~geo.cut,
                    \A v \in Widget : Shown(v) => Layout[v] # Zero
             PROVE  \A v \in Widget : Shown(v) => geo.location[v] = Layout[v]
  BY DEF LaidOut
<1>1. geo \in Geometries /\ Settled(geo)
  BY DEF Inv
<1> DEFINE S == {v \in Widget : Shown(v) => geo.location[v] = Layout[v]}
<1>2. ASSUME NEW v \in Widget, Parent[v] = Root \/ Parent[v] \in S, Shown(v)
      PROVE  geo.location[v] = Layout[v]
  <2> DEFINE p == Parent[v]
  <2>1. p = Root \/ (p \in Widget /\ Shown(p))
    BY <1>2, ShownIs
  <2>2. p # Root => Managed(geo, p) /\ geo.location[p] = Layout[p] /\ Layout[p] # Zero
    BY <1>2, <2>1, ShownIs
  <2>3. Managed(geo, v) /\ Held(geo, v)
    BY <1>2, <2>2, ShownIs DEF Held
  <2>4. geo.location[v] = Placed(geo.params[v], Above(geo, v), geo.requested[v])
    BY <1>1, <2>3 DEF Settled, Fits
  <2>5. Above(geo, v) = IF p = Root THEN Window ELSE Inside(geo, p, Layout[p])
    <3>1. CASE p = Root
      BY <3>1 DEF Above
    <3>2. CASE p # Root
      <4>1. Content(geo.location[p], geo.inner[p]) = Inside(geo, p, geo.location[p])
        BY <1>1, <2>1, <2>2, <3>2 DEF Settled, Celled
      <4> QED BY <2>2, <3>2, <4>1 DEF Above
    <3> QED BY <3>1, <3>2
  <2>6. Layout[v] = Placed(geo.params[v],
                           IF p = Root THEN Window ELSE Inside(geo, p, Layout[p]),
                           geo.requested[v])
    BY <1>1, <1>2, LayoutIs
  <2> QED BY <2>4, <2>5, <2>6
<1>3. \A v \in Widget : (Parent[v] = Root \/ Parent[v] \in S) => v \in S
  BY <1>2
<1> HIDE DEF S
<1>4. Widget \subseteq S
  BY <1>3, AllDown
<1> QED BY <1>4 DEF S

LEMMA InvIsInvariant == Spec => []Inv
<1>1. Init => Inv
  BY InitKeeps
<1>2. Inv /\ [Next]_vars => Inv'
  <2> SUFFICES ASSUME Inv, [Next]_vars
               PROVE  Inv'
    OBVIOUS
  <2>1. ASSUME NEW w \in Widget, NEW given \in Calls[w], ei_place(w, given)
        PROVE  Inv'
    BY <2>1, PlaceKeeps
  <2>2. ASSUME NEW w \in Widget, NEW s \in Sizes[w] \cup {NULL}, NEW b \in Borders[w] \cup {NULL},
               configure(w, s, b)
        PROVE  Inv'
    BY <2>2, ConfigureKeeps
  <2>3. ASSUME NEW w \in Widget, ei_geometrymanager_unmap(w)
        PROVE  Inv'
    BY <2>3, UnmapKeeps
  <2>4. ASSUME NEW w \in Widget, Draw(w)
        PROVE  Inv'
    BY <2>4, DrawKeeps
  <2>5. CASE UNCHANGED vars
    <3>1. geo' = geo /\ careless' = careless
      BY <2>5 DEF vars
    <3> QED BY <3>1 DEF Inv
  <2> QED BY <2>1, <2>2, <2>3, <2>4, <2>5 DEF Next
<1> QED BY <1>1, <1>2, PTL DEF Spec

(* Whatever the tree, the programs that place, configure, remove and draw  *)
(* its widgets, and the order they do it in, the placer run only where     *)
(* something moved puts every widget shown where a computation of the      *)
(* whole tree from the window down would.                                  *)
THEOREM LayoutIsComputed == Spec => []LaidOut
<1>1. Inv => LaidOut
  BY InvLaysOut
<1> QED BY <1>1, InvIsInvariant, PTL

(* A widget shown that was given no size, absolute or relative, has the    *)
(* one it requested.                                                       *)
THEOREM RequestIsHonoured == Spec => []RequestedHonoured
<1>1. Inv => RequestedHonoured
  <2> SUFFICES ASSUME Inv, "size" \notin careless, ~geo.cut,
                      NEW v \in Widget, Shown(v), geo.params[v]["rel_size"] = 0
               PROVE  geo.location[v].size = geo.requested[v]
    BY DEF RequestedHonoured
  <2>1. Managed(geo, v)
    BY ShownIs
  <2> QED BY <2>1 DEF Inv, Asked
<1> QED BY <1>1, InvIsInvariant, PTL

=============================================================================
