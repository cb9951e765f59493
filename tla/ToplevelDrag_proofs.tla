------------------------- MODULE ToplevelDrag_proofs -------------------------
(***************************************************************************)
(* Proofs about ToplevelDrag, for words, screens, decorations and          *)
(* placements of any size: the unsigned offsets lead back to the distances *)
(* they were made from, so that the toplevel follows the mouse.            *)
(***************************************************************************)
EXTENDS ToplevelDrag, TLAPS

LEMMA DivUnique ==
  ASSUME NEW d \in Nat \ {0}, NEW q \in Nat, NEW r \in 0 .. d - 1
  PROVE  (d * q + r) \div d = q /\ (d * q + r) % d = r
OBVIOUS

(* The remainder of a number less than one modulus away.                   *)
LEMMA Wraps ==
  ASSUME NEW m \in Nat \ {0}, NEW s \in -m .. m - 1
  PROVE  s % m = IF s >= 0 THEN s ELSE s + m
<1>1. CASE s >= 0
  <2>1. s \in 0 .. m - 1
    BY <1>1
  <2> QED BY <2>1
<1>2. CASE s < 0
  <2>1. s + m \in 0 .. m - 1
    BY <1>2
  <2> QED BY <1>2, <2>1
<1> QED BY <1>1, <1>2

LEMMA WrapsTwice ==
  ASSUME NEW m \in Nat \ {0}, NEW s \in -m .. m - 1
  PROVE  (s + m) % m = s % m
<1>1. CASE s >= 0
  <2>1. s \in 0 .. m - 1 /\ m * 1 + s = s + m /\ 1 \in Nat
    BY <1>1
  <2>2. (m * 1 + s) % m = s
    BY <2>1, DivUnique
  <2>3. s % m = s
    BY <1>1, Wraps
  <2> QED BY <2>1, <2>2, <2>3
<1>2. CASE s < 0
  <2>1. s + m \in 0 .. m - 1 /\ s + m \in -m .. m - 1
    BY <1>2
  <2>2. (s + m) % m = s + m
    BY <2>1, Wraps
  <2>3. s % m = s + m
    BY <1>2, <2>1
  <2> QED BY <2>2, <2>3
<1> QED BY <1>1, <1>2

-----------------------------------------------------------------------------
PlacementOK(p) ==
  /\ p.anchor \in Anchor
  /\ p.at \in Int_ /\ p.size \in Int_
  /\ p.rel_at \in 0 .. 2 /\ p.rel_size \in 0 .. 2

(* offsetptr holds the distance the gesture under way keeps.               *)
OffsetKept ==
  /\ resizing \/ moving => mouse # NoGrab /\ grab # NoGrab
  /\ resizing /\ ~moving => \A d \in Axis : /\ grab[d] \in 1 .. GripSize
                                            /\ offset[d] = Unsigned(grab[d] - Decor[d])
  /\ moving /\ ~resizing => \A d \in Axis : /\ grab[d] \in -(2 * Far) .. 0
                                            /\ offset[d] = Unsigned(-grab[d])

Inv ==
  /\ TypeOK
  /\ grab \in [Axis -> Int] \cup {NoGrab}
  /\ \A d \in Axis : TopLeft[d] \in -Far .. Far
  /\ OffsetKept

-----------------------------------------------------------------------------
(* The numbers there are.                                                  *)
LEMMA Constants ==
  ASSUME NEW d \in Axis
  PROVE  /\ Far \in Nat /\ HalfWord \in Nat \ {0}
         /\ GripSize \in Nat /\ Decor[d] \in Nat
         /\ Parent[d].at \in -Far .. Far /\ Parent[d].size \in Int
         /\ 3 * Far + GripSize + Decor[d] < HalfWord
BY ScreenAssumption

LEMMA MousePoint ==
  ASSUME NEW m \in [Axis -> Mouse]
  PROVE  /\ \A d \in Axis : m[d] \in 0 .. Far /\ m[d] \in Int
         /\ m # NoGrab
<1>1. \A d \in Axis : m[d] \in 0 .. Far
  BY ScreenAssumption
<1>2. Far \in Nat
  BY ScreenAssumption
<1>3. \A d \in Axis : m[d] \in Int
  BY <1>1, <1>2
<1>4. m \in [Axis -> Int]
  BY <1>3
<1> QED BY <1>1, <1>3, <1>4, GrabAssumption

LEMMA StateNumbers ==
  ASSUME Inv, NEW d \in Axis
  PROVE  offset[d] \in Int /\ TopLeft[d] \in Int
<1>1. Far \in Nat /\ HalfWord \in Nat
  BY ScreenAssumption
<1>2. offset[d] \in 0 .. 2 * HalfWord - 1 /\ TopLeft[d] \in -Far .. Far
  BY DEF Inv, TypeOK
<1> QED BY <1>1, <1>2

-----------------------------------------------------------------------------
(* Words.                                                                  *)
LEMMA UnsignedIs ==
  ASSUME NEW n \in Int_
  PROVE  Unsigned(n) = IF n >= 0 THEN n ELSE n + 2 * HalfWord
<1> DEFINE m == 2 * HalfWord
<1>1. m \in Nat \ {0} /\ n \in -m .. m - 1
  BY ScreenAssumption DEF Int_
<1>2. Unsigned(n) = n % m
  BY DEF Unsigned
<1> HIDE DEF m
<1>3. Unsigned(n) = IF n >= 0 THEN n ELSE n + m
  BY <1>1, <1>2, Wraps
<1> QED BY <1>3 DEF m

LEMMA SignedIs ==
  ASSUME NEW n \in Int_
  PROVE  Signed(n) = n
BY UnsignedIs, ScreenAssumption DEF Signed, Int_

LEMMA WordRanges ==
  ASSUME NEW n \in Int
  PROVE  Unsigned(n) \in 0 .. 2 * HalfWord - 1 /\ Signed(n) \in Int_
<1> DEFINE m == 2 * HalfWord
<1>1. m \in Nat \ {0} /\ HalfWord \in Nat \ {0}
  BY ScreenAssumption
<1>2. n % m \in 0 .. m - 1
  <2> HIDE DEF m
  <2> QED BY <1>1
<1> QED BY <1>1, <1>2 DEF Unsigned, Signed, Int_

(* A negative distance kept in an unsigned word comes back in a sum.       *)
LEMMA SumComesBack ==
  ASSUME NEW a \in Int, NEW b \in Int_, a + b \in Int_
  PROVE  Signed(a + Unsigned(b)) = a + b
<1> DEFINE m == 2 * HalfWord
<1>1. m \in Nat \ {0} /\ HalfWord \in Nat \ {0} /\ b \in Int /\ a + b \in Int
  BY ScreenAssumption DEF Int_
<1>2. CASE b >= 0
  BY <1>2, UnsignedIs, SignedIs
<1>3. CASE b < 0
  <2>1. Unsigned(b) = b + m
    BY <1>1, <1>3, UnsignedIs
  <2>2. a + Unsigned(b) = (a + b) + m
    BY <1>1, <2>1
  <2>3. ((a + b) + m) % m = (a + b) % m
    <3>1. a + b \in -m .. m - 1
      BY <1>1 DEF Int_
    <3> HIDE DEF m
    <3> QED BY <1>1, <3>1, WrapsTwice
  <2>4. Unsigned(a + Unsigned(b)) = Unsigned(a + b)
    BY <2>2, <2>3 DEF Unsigned
  <2> QED BY <2>4, SignedIs DEF Signed
<1> QED BY <1>1, <1>2, <1>3

-----------------------------------------------------------------------------
(* Placing.                                                                *)
LEMMA HalvedTwice ==
  ASSUME NEW n \in Int
  PROVE  Halved(2 * n) = n
<1>1. CASE n >= 0
  <2>1. (2 * n) \div 2 = n /\ 2 * n >= 0
    BY <1>1
  <2> QED BY <2>1 DEF Halved
<1>2. CASE n < 0
  <2>1. (-(2 * n)) \div 2 = -n /\ ~(2 * n >= 0)
    BY <1>2
  <2> QED BY <2>1 DEF Halved
<1> QED BY <1>1, <1>2

(* With no relative size and position, the anchor at the top left.         *)
LEMMA SizeIs ==
  ASSUME NEW p, NEW parent, NEW requested_,
         p.rel_size = 0, p.size \in Int, parent.size \in Int
  PROVE  PlacedSize(p, parent, requested_) = IF p.size = 0 THEN requested_ ELSE p.size
<1>1. parent.size * p.rel_size + 2 * p.size = 2 * p.size
  OBVIOUS
<1> QED BY <1>1, HalvedTwice DEF PlacedSize

LEMMA AtIs ==
  ASSUME NEW p, NEW parent, NEW requested_,
         p.rel_at = 0, p.anchor = "start", p.at \in Int,
         parent.size \in Int, parent.at \in Int
  PROVE  PlacedAt(p, parent, requested_) = p.at + parent.at
<1>1. parent.size * p.rel_at + 2 * (p.at + parent.at) = 2 * (p.at + parent.at)
  OBVIOUS
<1>2. AnchorShift(p.anchor, PlacedSize(p, parent, requested_)) = 0
  BY DEF AnchorShift
<1>3. p.at + parent.at \in Int
  OBVIOUS
<1> QED BY <1>1, <1>2, <1>3, HalvedTwice DEF PlacedAt

LEMMA FirstPlacedIs ==
  ASSUME NEW given, NEW size
  PROVE  LET p == FirstPlaced(given, size)
         IN  /\ p.anchor = IF "anchor" \in DOMAIN given THEN given["anchor"] ELSE "start"
             /\ p.at = IF "at" \in DOMAIN given THEN given["at"] ELSE 0
             /\ p.size = IF "size" \in DOMAIN given THEN given["size"]
                         ELSE IF "rel_size" \in DOMAIN given THEN 0 ELSE size
             /\ p.rel_at = IF "rel_at" \in DOMAIN given THEN given["rel_at"] ELSE 0
             /\ p.rel_size = IF "rel_size" \in DOMAIN given THEN given["rel_size"] ELSE 0
BY DEF FirstPlaced, Fields

LEMMA ResizedIs ==
  ASSUME NEW p, NEW s
  PROVE  LET q == PlacedAgain(p, [size |-> s, rel_size |-> 0])
         IN  /\ q.anchor = p.anchor /\ q.at = p.at /\ q.rel_at = p.rel_at
             /\ q.size = s /\ q.rel_size = 0
BY DEF PlacedAgain, Fields

LEMMA MovedIs ==
  ASSUME NEW p, NEW a
  PROVE  LET q == PlacedAgain(p, [anchor |-> "start", rel_at |-> 0, at |-> a])
         IN  /\ q.anchor = "start" /\ q.at = a /\ q.rel_at = 0
             /\ q.size = p.size /\ q.rel_size = p.rel_size
BY DEF PlacedAgain, Fields

-----------------------------------------------------------------------------
(* A step of the mouse.                                                    *)
Resized(m) == IF Resizes(m) THEN ResizedParams(m) ELSE params

LEMMA WantedType ==
  ASSUME Inv, NEW m \in [Axis -> Mouse], NEW d \in Axis
  PROVE  Wanted(m)[d] \in Int_
<1>1. m[d] - TopLeft[d] + offset[d] \in Int
  BY MousePoint, StateNumbers
<1> QED BY <1>1, WordRanges DEF Wanted

LEMMA ResizedType ==
  ASSUME Inv, NEW m \in [Axis -> Mouse], NEW d \in Axis
  PROVE  /\ PlacementOK(Resized(m)[d])
         /\ Resized(m)[d].anchor = params[d].anchor
         /\ Resized(m)[d].at = params[d].at /\ Resized(m)[d].rel_at = params[d].rel_at
<1>1. PlacementOK(params[d])
  BY DEF Inv, TypeOK, PlacementOK
<1>2. CASE Resizes(m)
  <2> DEFINE s == IF d \in Resizable \ Granted(m) THEN requested[d] ELSE Wanted(m)[d]
  <2>1. s \in Int_
    BY WantedType DEF Inv, TypeOK
  <2>2. Resized(m)[d] = PlacedAgain(params[d], [size |-> s, rel_size |-> 0])
    BY <1>2 DEF Resized, ResizedParams
  <2> HIDE DEF s
  <2> QED BY <1>1, <2>1, <2>2, ResizedIs DEF PlacementOK
<1>3. CASE ~Resizes(m)
  BY <1>1, <1>3 DEF Resized
<1> QED BY <1>2, <1>3

LEMMA MoveType ==
  ASSUME Inv, NEW m \in [Axis -> Mouse], MouseMove(m)
  PROVE  TypeOK' /\ grab' \in [Axis -> Int] \cup {NoGrab}
<1>1. requested' \in [Axis -> Int_]
  <2>1. requested' = [d \in Axis |-> IF Resizes(m) /\ d \in Granted(m)
                                     THEN Wanted(m)[d] ELSE requested[d]]
    BY DEF MouseMove
  <2> QED BY <2>1, WantedType DEF Inv, TypeOK
<1>2. ASSUME NEW d \in Axis
      PROVE  PlacementOK(params'[d])
  <2>1. CASE ~moving
    BY <2>1, ResizedType DEF MouseMove, Resized
  <2>2. CASE moving
    <3> DEFINE a == Signed(m[d] - offset[d] - Parent[d].at)
    <3>1. a \in Int_
      <4>1. m[d] - offset[d] - Parent[d].at \in Int
        <5>1. m[d] \in Int /\ offset[d] \in Int
          BY MousePoint, StateNumbers
        <5>2. Parent[d].at \in Int
          BY Constants
        <5> QED BY <5>1, <5>2
      <4> QED BY <4>1, WordRanges
    <3>2. params'[d] = PlacedAgain(Resized(m)[d], [anchor |-> "start", rel_at |-> 0, at |-> a])
      BY <2>2 DEF MouseMove, MovedParams, Resized
    <3> HIDE DEF a
    <3> QED BY <3>1, <3>2, MovedIs, ResizedType DEF PlacementOK, Anchor
  <2> QED BY <2>1, <2>2
<1> QED BY <1>1, <1>2 DEF MouseMove, Inv, TypeOK, PlacementOK, Int_

(* A move takes the title bar along: the placement it gives leads back to  *)
(* the mouse and the distance kept.                                        *)
LEMMA MoveFollows ==
  ASSUME Inv, NEW m \in [Axis -> Mouse], MouseMove(m), moving, ~resizing, NEW d \in Axis
  PROVE  TopLeft'[d] = m[d] + grab[d]
<1> DEFINE a == Signed(m[d] - offset[d] - Parent[d].at)
<1>1. /\ grab[d] \in -(2 * Far) .. 0 /\ offset[d] = Unsigned(-grab[d])
      /\ m[d] \in 0 .. Far /\ Parent[d].at \in -Far .. Far /\ Parent[d].size \in Int
      /\ Far \in Nat /\ HalfWord \in Nat /\ 3 * Far < HalfWord
  <2>1. grab[d] \in -(2 * Far) .. 0 /\ offset[d] = Unsigned(-grab[d])
    BY DEF Inv, OffsetKept
  <2>2. m[d] \in 0 .. Far
    BY MousePoint
  <2> QED BY <2>1, <2>2, Constants
<1>2. offset[d] = -grab[d]
  <2>1. -grab[d] \in Int_ /\ -grab[d] >= 0
    BY <1>1 DEF Int_
  <2> QED BY <1>1, <2>1, UnsignedIs
<1>3. a = m[d] + grab[d] - Parent[d].at /\ a \in Int
  <2>1. m[d] + grab[d] - Parent[d].at \in Int_
    BY <1>1 DEF Int_
  <2>2. m[d] - offset[d] - Parent[d].at = m[d] + grab[d] - Parent[d].at
    BY <1>1, <1>2
  <2> QED BY <2>1, <2>2, SignedIs DEF Int_
<1>4. params'[d] = PlacedAgain(Resized(m)[d], [anchor |-> "start", rel_at |-> 0, at |-> a])
  BY DEF MouseMove, MovedParams, Resized
<1> HIDE DEF a
<1>5. params'[d].anchor = "start" /\ params'[d].rel_at = 0 /\ params'[d].at = a
  BY <1>4, MovedIs
<1>6. TopLeft'[d] = PlacedAt(params'[d], Parent[d], requested'[d])
  BY DEF TopLeft
<1> QED BY <1>1, <1>3, <1>5, <1>6, AtIs

LEMMA MoveStep ==
  ASSUME Inv, NEW m \in [Axis -> Mouse], MouseMove(m)
  PROVE  Inv'
<1>1. TypeOK' /\ grab' \in [Axis -> Int] \cup {NoGrab}
  BY MoveType
<1>2. \A d \in Axis : TopLeft'[d] \in -Far .. Far
  BY DEF MouseMove
<1>3. mouse' # NoGrab
  BY MousePoint DEF MouseMove
<1>4. OffsetKept'
  BY <1>3 DEF Inv, OffsetKept, MouseMove, Unsigned
<1> QED BY <1>1, <1>2, <1>4 DEF Inv

(* A press on the resize button keeps a distance of at most its size, from *)
(* which the decoration is taken: negative as a rule.                      *)
LEMMA BegResizeStep ==
  ASSUME Inv, NEW m \in [Axis -> Mouse], mouse' = m, beg_resize(m)
  PROVE  Inv'
<1>1. \A d \in Axis : TopLeft'[d] = TopLeft[d]
  BY DEF beg_resize, TopLeft
<1>2. /\ offset' \in [Axis -> 0 .. 2 * HalfWord - 1]
      /\ grab' \in [Axis -> Int]
      /\ moving' = moving
      /\ \A d \in Axis : grab'[d] \in 1 .. GripSize /\ offset'[d] = Unsigned(grab'[d] - Decor[d])
  <2>1. ASSUME NEW d \in Axis
        PROVE  /\ Corner[d] - m[d] \in 1 .. GripSize
               /\ Unsigned(Corner[d] - m[d] - Decor[d]) \in 0 .. 2 * HalfWord - 1
    <3>1. Corner[d] - GripSize <= m[d] /\ m[d] < Corner[d]
      BY DEF beg_resize, OnGrip, Between
    <3>2. Size[d] \in Int
      <4>1. /\ params[d].size \in Int /\ params[d].rel_size \in Int
            /\ requested[d] \in Int /\ Parent[d].size \in Int
        BY Constants DEF Inv, TypeOK, Int_
      <4>2. Parent[d].size * params[d].rel_size + 2 * params[d].size \in Int
        BY <4>1
      <4>3. \A n \in Int : Halved(n) \in Int
        BY DEF Halved
      <4> QED BY <4>1, <4>2, <4>3 DEF Size, PlacedSize
    <3>3. Corner[d] \in Int
      <4>1. Corner[d] = TopLeft[d] + Decor[d] + Size[d]
        BY DEF Corner
      <4> QED BY <4>1, <3>2, Constants, StateNumbers
    <3>4. m[d] \in Int /\ GripSize \in Nat /\ Decor[d] \in Nat
      BY Constants, MousePoint
    <3>5. Corner[d] - m[d] - Decor[d] \in Int
      BY <3>3, <3>4
    <3> QED BY <3>1, <3>3, <3>4, <3>5, WordRanges
  <2>2. \A d \in Axis : 1 .. GripSize \subseteq Int
    BY Constants
  <2>3. /\ grab' = [d \in Axis |-> Corner[d] - m[d]]
        /\ offset' = [d \in Axis |-> Unsigned(Corner[d] - m[d] - Decor[d])]
        /\ moving' = moving
    BY DEF beg_resize, From
  <2> QED BY <2>1, <2>2, <2>3
<1>3. TypeOK'
  BY <1>2 DEF Inv, TypeOK, beg_resize, Int_
<1>4. mouse' # NoGrab /\ grab' # NoGrab
  BY <1>2, MousePoint, GrabAssumption
<1>5. OffsetKept'
  BY <1>2, <1>4 DEF beg_resize, OffsetKept, Unsigned
<1> QED BY <1>1, <1>2, <1>3, <1>5 DEF Inv

(* One on the title bar keeps how far it is from the top left.             *)
LEMMA BegMoveStep ==
  ASSUME Inv, NEW m \in [Axis -> Mouse], mouse' = m, beg_move(m)
  PROVE  Inv'
<1>1. \A d \in Axis : TopLeft'[d] = TopLeft[d]
  BY DEF beg_move, TopLeft
<1>2. /\ offset' \in [Axis -> 0 .. 2 * HalfWord - 1]
      /\ grab' \in [Axis -> Int]
      /\ resizing' = resizing
      /\ \A d \in Axis : grab'[d] \in -(2 * Far) .. 0 /\ offset'[d] = Unsigned(-grab'[d])
  <2>1. ASSUME NEW d \in Axis
        PROVE  /\ TopLeft[d] - m[d] \in -(2 * Far) .. 0
               /\ m[d] - TopLeft[d] = -(TopLeft[d] - m[d])
               /\ Unsigned(m[d] - TopLeft[d]) \in 0 .. 2 * HalfWord - 1
    <3>1. TopLeft[d] <= m[d]
      BY DEF beg_move, OnFrame, Between
    <3>2. m[d] \in 0 .. Far /\ TopLeft[d] \in -Far .. Far /\ Far \in Nat
      BY MousePoint, Constants DEF Inv
    <3>3. m[d] - TopLeft[d] \in Int
      BY <3>2
    <3> QED BY <3>1, <3>2, <3>3, WordRanges
  <2>2. \A d \in Axis : -(2 * Far) .. 0 \subseteq Int
    BY Constants
  <2>3. /\ grab' = [d \in Axis |-> TopLeft[d] - m[d]]
        /\ offset' = [d \in Axis |-> Unsigned(m[d] - TopLeft[d])]
        /\ resizing' = resizing
    BY DEF beg_move, From
  <2> QED BY <2>1, <2>2, <2>3
<1>3. TypeOK'
  BY <1>2 DEF Inv, TypeOK, beg_move, Int_
<1>4. mouse' # NoGrab /\ grab' # NoGrab
  BY <1>2, MousePoint, GrabAssumption
<1>5. OffsetKept'
  BY <1>2, <1>4 DEF beg_move, OffsetKept, Unsigned
<1> QED BY <1>1, <1>2, <1>3, <1>5 DEF Inv

LEMMA MouseUpStep ==
  ASSUME Inv, MouseUp
  PROVE  Inv'
<1>1. \A d \in Axis : TopLeft'[d] = TopLeft[d]
  BY DEF MouseUp, TopLeft
<1>2. TypeOK' /\ OffsetKept'
  BY DEF Inv, TypeOK, OffsetKept, MouseUp, Int_
<1> QED BY <1>1, <1>2 DEF Inv, MouseUp

LEMMA InitInv ==
  ASSUME Init
  PROVE  Inv
<1>1. PICK given \in [Axis -> Start] : params = [d \in Axis |-> FirstPlaced(given[d], requested[d])]
  BY DEF Init
<1>2. 0 \in Int_ /\ 0 \in 0 .. 2 * HalfWord - 1
  BY ScreenAssumption DEF Int_
<1>3. ASSUME NEW d \in Axis
      PROVE  PlacementOK(params[d]) /\ TopLeft[d] \in -Far .. Far
  <2>1. given[d] \in Start /\ requested[d] \in Asked
    BY DEF Init
  <2>2. requested[d] \in Int_
    BY <2>1, StartAssumption DEF Int_
  <2>3. params[d] = FirstPlaced(given[d], requested[d])
    BY <1>1
  <2>4. PlacementOK(params[d])
    BY <1>2, <2>1, <2>2, <2>3, FirstPlacedIs, StartAssumption DEF PlacementOK, Anchor, Int_
  <2>5. TopLeft[d] = PlacedAt(params[d], Parent[d], requested[d])
    BY DEF TopLeft
  <2> QED BY <2>1, <2>3, <2>4, <2>5, StartAssumption
<1>4. requested \in [Axis -> Int_]
  BY StartAssumption DEF Init, Int_
<1>5. TypeOK
  BY <1>2, <1>3, <1>4 DEF Init, TypeOK, PlacementOK
<1> QED BY <1>3, <1>5 DEF Init, Inv, OffsetKept

LEMMA NextInv ==
  ASSUME Inv, [Next]_vars
  PROVE  Inv'
<1>1. ASSUME NEW m \in [Axis -> Mouse], NEW left \in BOOLEAN, MouseDown(m, left)
      PROVE  Inv'
  BY <1>1, BegResizeStep, BegMoveStep DEF MouseDown
<1>2. ASSUME NEW m \in [Axis -> Mouse], MouseMove(m)
      PROVE  Inv'
  BY <1>2, MoveStep
<1>3. CASE UNCHANGED vars
  <2>1. \A d \in Axis : TopLeft'[d] = TopLeft[d]
    BY <1>3 DEF vars, TopLeft
  <2> QED BY <1>3, <2>1 DEF Inv, TypeOK, OffsetKept, vars, Int_
<1> QED BY <1>1, <1>2, <1>3, MouseUpStep DEF Next

LEMMA Invariance == Spec => []Inv
BY InitInv, NextInv, PTL DEF Spec

(* Placements and offsets are of the range of their C types.               *)
THEOREM TypeCorrect == Spec => []TypeOK
<1>1. Inv => TypeOK
  BY DEF Inv
<1> QED BY <1>1, Invariance, PTL

-----------------------------------------------------------------------------
(* move: the title bar stays where it is relative to the mouse, however    *)
(* the program had placed the toplevel.                                    *)
THEOREM TitleFollows == Spec => []TitleHeld
<1>1. Init => TitleHeld
  BY DEF Init, TitleHeld
<1>2. ASSUME Inv, TitleHeld, [Next]_vars
      PROVE  TitleHeld'
  <2>1. ASSUME NEW m \in [Axis -> Mouse], NEW left \in BOOLEAN, MouseDown(m, left)
        PROVE  TitleHeld'
    <3>1. CASE beg_resize(m)
      <4>1. resizing'
        BY <3>1 DEF beg_resize
      <4> QED BY <4>1 DEF TitleHeld
    <3>2. CASE beg_move(m)
      <4>1. \A d \in Axis : TopLeft'[d] = TopLeft[d]
        BY <3>2 DEF beg_move, TopLeft
      <4>2. mouse' = m /\ grab' = From(m, TopLeft)
        BY <2>1, <3>2 DEF beg_move, MouseDown
      <4> QED BY <4>1, <4>2 DEF TitleHeld, From
    <3> QED BY <2>1, <3>1, <3>2 DEF MouseDown
  <2>2. CASE MouseUp
    BY <2>2 DEF MouseUp, TitleHeld
  <2>3. ASSUME NEW m \in [Axis -> Mouse], MouseMove(m)
        PROVE  TitleHeld'
    <3> SUFFICES ASSUME moving, ~resizing PROVE From(mouse, TopLeft)' = grab'
      BY <2>3 DEF MouseMove, TitleHeld
    <3>1. mouse' = m /\ grab' = grab
      BY <2>3 DEF MouseMove
    <3>2. grab \in [Axis -> Int]
      BY <1>2 DEF Inv, OffsetKept
    <3>3. ASSUME NEW d \in Axis PROVE TopLeft'[d] - m[d] = grab[d]
      <4>1. TopLeft'[d] = m[d] + grab[d]
        BY <1>2, <2>3, MoveFollows
      <4>2. m[d] \in Int /\ grab[d] \in Int
        BY <3>2, MousePoint
      <4> QED BY <4>1, <4>2
    <3> QED BY <3>1, <3>2, <3>3 DEF From
  <2>4. CASE UNCHANGED vars
    <3>1. \A d \in Axis : TopLeft'[d] = TopLeft[d]
      BY <2>4 DEF vars, TopLeft
    <3> QED BY <1>2, <2>4, <3>1 DEF TitleHeld, From, vars
  <2> QED BY <1>2, <2>1, <2>2, <2>3, <2>4 DEF Next
<1> QED BY <1>1, <1>2, Invariance, PTL DEF Spec

-----------------------------------------------------------------------------
(* The program leaves the anchor at the top left, or says so.              *)
Anchored == \A given \in Start : "anchor" \in DOMAIN given => given["anchor"] = "start"

AtStart == \A d \in Axis : params[d].anchor = "start"

LEMMA StaysAnchored ==
  ASSUME Anchored
  PROVE  Spec => []AtStart
<1>1. ASSUME Init
      PROVE  AtStart
  <2>1. PICK given \in [Axis -> Start] :
            params = [d \in Axis |-> FirstPlaced(given[d], requested[d])]
    BY <1>1 DEF Init
  <2> QED BY <2>1, FirstPlacedIs DEF Anchored, AtStart
<1>2. ASSUME Inv, AtStart, [Next]_vars
      PROVE  AtStart'
  <2>1. ASSUME NEW m \in [Axis -> Mouse], MouseMove(m), NEW d \in Axis
        PROVE  params'[d].anchor = "start"
    <3>1. CASE moving
      <4>1. params'[d] = PlacedAgain(Resized(m)[d],
                           [anchor |-> "start", rel_at |-> 0,
                            at |-> Signed(m[d] - offset[d] - Parent[d].at)])
        BY <2>1, <3>1 DEF MouseMove, MovedParams, Resized
      <4> QED BY <4>1, MovedIs
    <3>2. CASE ~moving
      BY <1>2, <2>1, <3>2, ResizedType DEF MouseMove, Resized, AtStart
    <3> QED BY <3>1, <3>2
  <2>2. ASSUME NEW m \in [Axis -> Mouse], NEW left \in BOOLEAN, MouseDown(m, left)
        PROVE  params' = params
    BY <2>2 DEF MouseDown, beg_resize, beg_move
  <2>3. CASE MouseUp \/ UNCHANGED vars
    BY <1>2, <2>3 DEF MouseUp, vars, AtStart
  <2> QED BY <1>2, <2>1, <2>2, <2>3 DEF Next, AtStart
<1> QED BY <1>1, <1>2, Invariance, PTL DEF Spec

(* What a granted size does to a toplevel, and a refused one does not.     *)
LEMMA ResizeFollows ==
  ASSUME Inv, AtStart, NEW m \in [Axis -> Mouse], MouseMove(m), resizing, ~moving,
         NEW d \in Resizable
  PROVE  /\ TopLeft'[d] = TopLeft[d]
         /\ Wanted(m)[d] = m[d] + grab[d] - TopLeft[d] - Decor[d]
         /\ d \in Granted(m) => Size'[d] = Wanted(m)[d]
<1>1. d \in Axis
  BY AxisAssumption
<1>2. /\ grab[d] \in 1 .. GripSize /\ offset[d] = Unsigned(grab[d] - Decor[d])
      /\ m[d] \in 0 .. Far /\ TopLeft[d] \in -Far .. Far
      /\ GripSize \in Nat /\ Decor[d] \in Nat /\ Far \in Nat /\ HalfWord \in Nat
      /\ 3 * Far + GripSize + Decor[d] < HalfWord
      /\ Parent[d].size \in Int
  BY <1>1, Constants, MousePoint DEF Inv, OffsetKept
<1>3. Wanted(m)[d] = m[d] + grab[d] - TopLeft[d] - Decor[d]
  <2> DEFINE a == m[d] - TopLeft[d]
             b == grab[d] - Decor[d]
  <2>1. a \in Int /\ b \in Int_ /\ a + b \in Int_
    BY <1>2 DEF Int_
  <2>2. a + b = m[d] + grab[d] - TopLeft[d] - Decor[d]
    BY <1>2
  <2>3. Wanted(m)[d] = Signed(a + Unsigned(b))
    BY <1>1, <1>2 DEF Wanted
  <2> HIDE DEF a, b
  <2> QED BY <2>1, <2>2, <2>3, SumComesBack
<1>4. params' = Resized(m)
  BY DEF MouseMove, Resized
<1>5. /\ Resized(m)[d].anchor = "start" /\ params[d].anchor = "start"
      /\ Resized(m)[d].at = params[d].at /\ Resized(m)[d].rel_at = params[d].rel_at
  BY <1>1, ResizedType DEF AtStart
<1>6. TopLeft'[d] = TopLeft[d]
  <2>1. TopLeft'[d] = PlacedAt(params'[d], Parent[d], requested'[d])
        /\ TopLeft[d] = PlacedAt(params[d], Parent[d], requested[d])
    BY <1>1 DEF TopLeft
  <2> QED BY <1>4, <1>5, <2>1 DEF PlacedAt, AnchorShift
<1>7. ASSUME d \in Granted(m)
      PROVE  Size'[d] = Wanted(m)[d]
  <2>1. Resizes(m)
    BY <1>7 DEF Resizes
  <2>2. params'[d] = PlacedAgain(params[d], [size |-> Wanted(m)[d], rel_size |-> 0])
    BY <1>1, <1>4, <1>7, <2>1 DEF Resized, ResizedParams
  <2>3. params'[d].size = Wanted(m)[d] /\ params'[d].rel_size = 0
    BY <2>2, ResizedIs
  <2>4. requested'[d] = Wanted(m)[d]
    BY <1>1, <1>7, <2>1 DEF MouseMove
  <2>5. Wanted(m)[d] \in Int
    BY <1>1, WantedType DEF Int_
  <2>6. Size'[d] = PlacedSize(params'[d], Parent[d], requested'[d])
    BY <1>1 DEF Size
  <2> QED BY <1>2, <2>3, <2>4, <2>5, <2>6, SizeIs
<1> QED BY <1>3, <1>6, <1>7

(* resize: the corner stays where it is relative to the mouse, down to the *)
(* minimum, for a toplevel placed by its top left.                         *)
THEOREM CornerFollows ==
  ASSUME Anchored
  PROVE  Spec => []CornerHeld
<1>1. Init => CornerHeld
  BY DEF Init, CornerHeld
<1>2. ASSUME Inv, AtStart, CornerHeld, [Next]_vars
      PROVE  CornerHeld'
  <2>1. ASSUME NEW m \in [Axis -> Mouse], NEW left \in BOOLEAN, MouseDown(m, left)
        PROVE  CornerHeld'
    <3>1. CASE beg_resize(m)
      <4>1. \A d \in Axis : Corner'[d] = Corner[d]
        BY <3>1 DEF beg_resize, Corner, Size, TopLeft
      <4>2. mouse' = m /\ grab' = From(m, Corner)
        BY <2>1, <3>1 DEF beg_resize, MouseDown
      <4> QED BY <4>1, <4>2, AxisAssumption DEF CornerHeld, From
    <3>2. CASE beg_move(m)
      BY <3>2 DEF beg_move, CornerHeld
    <3> QED BY <2>1, <3>1, <3>2 DEF MouseDown
  <2>2. CASE MouseUp
    BY <2>2 DEF MouseUp, CornerHeld
  <2>3. ASSUME NEW m \in [Axis -> Mouse], MouseMove(m)
        PROVE  CornerHeld'
    <3> SUFFICES ASSUME resizing, ~moving, NEW d \in Resizable
                 PROVE  \/ From(mouse, Corner)'[d] = grab'[d]
                        \/ mouse'[d] + grab'[d] < TopLeft'[d] + Decor[d] + MinSize
      BY <2>3 DEF MouseMove, CornerHeld
    <3>1. mouse' = m /\ grab' = grab /\ d \in Axis
      BY <2>3, AxisAssumption DEF MouseMove
    <3>2. /\ TopLeft'[d] = TopLeft[d]
          /\ Wanted(m)[d] = m[d] + grab[d] - TopLeft[d] - Decor[d]
          /\ d \in Granted(m) => Size'[d] = Wanted(m)[d]
      BY <1>2, <2>3, ResizeFollows
    <3>3. m[d] \in Int /\ grab[d] \in Int /\ TopLeft[d] \in Int /\ Decor[d] \in Int
      BY <1>2, <3>1, MousePoint, StateNumbers, Constants DEF Inv, OffsetKept
    <3>4. CASE d \in Granted(m)
      <4>1. Corner'[d] = TopLeft'[d] + Decor[d] + Size'[d]
        BY <3>1 DEF Corner
      <4>2. From(mouse, Corner)'[d] = Corner'[d] - m[d]
        BY <3>1 DEF From
      <4> QED BY <3>1, <3>2, <3>3, <3>4, <4>1, <4>2
    <3>5. CASE d \notin Granted(m)
      <4>1. ~(Wanted(m)[d] >= MinSize)
        BY <3>5 DEF Granted
      <4>2. MinSize \in Int
        BY StartAssumption DEF Asked
      <4> QED BY <3>1, <3>2, <3>3, <4>1, <4>2
    <3> QED BY <3>4, <3>5
  <2>4. CASE UNCHANGED vars
    <3>1. \A d \in Axis : TopLeft'[d] = TopLeft[d] /\ Corner'[d] = Corner[d]
      BY <2>4 DEF vars, TopLeft, Corner, Size
    <3> QED BY <1>2, <2>4, <3>1, AxisAssumption DEF CornerHeld, From, vars
  <2> QED BY <1>2, <2>1, <2>2, <2>3, <2>4 DEF Next
<1> QED BY <1>1, <1>2, Invariance, StaysAnchored, PTL DEF Spec

-----------------------------------------------------------------------------
(* The program places the toplevel with at least its minimum size.         *)
Roomy ==
  \A given \in Start, size \in Asked, d \in Axis :
    PlacedSize(FirstPlaced(given, size), Parent[d], size) >= MinSize

EnoughAsked == \A d \in Axis : requested[d] >= MinSize

(* The size a step of the mouse leaves on an axis.                         *)
LEMMA ResizedSize ==
  ASSUME Inv, NEW m \in [Axis -> Mouse], MouseMove(m), NEW d \in Resizable
  PROVE  \/ /\ Size'[d] = Wanted(m)[d] /\ Wanted(m)[d] >= MinSize
            /\ requested'[d] = Wanted(m)[d]
         \/ Size'[d] = requested[d] /\ requested'[d] = requested[d]
         \/ Size'[d] = Size[d] /\ requested'[d] = requested[d]
<1>1. d \in Axis
  BY AxisAssumption
<1>2. /\ params'[d].size = Resized(m)[d].size
      /\ params'[d].rel_size = Resized(m)[d].rel_size
  <2>1. CASE moving
    <3>1. params'[d] = PlacedAgain(Resized(m)[d],
                         [anchor |-> "start", rel_at |-> 0,
                          at |-> Signed(m[d] - offset[d] - Parent[d].at)])
      BY <1>1, <2>1 DEF MouseMove, MovedParams, Resized
    <3> QED BY <3>1, MovedIs
  <2>2. CASE ~moving
    BY <2>2 DEF MouseMove, Resized
  <2> QED BY <2>1, <2>2
<1>3. Size'[d] = PlacedSize(params'[d], Parent[d], requested'[d])
      /\ Size[d] = PlacedSize(params[d], Parent[d], requested[d])
  BY <1>1 DEF Size
<1>4. /\ Parent[d].size \in Int /\ Wanted(m)[d] \in Int /\ requested[d] \in Int
  BY <1>1, Constants, WantedType DEF Inv, TypeOK, Int_
<1>5. requested'[d] = IF Resizes(m) /\ d \in Granted(m) THEN Wanted(m)[d] ELSE requested[d]
  BY <1>1 DEF MouseMove
<1>6. CASE Resizes(m)
  <2> DEFINE s == IF d \in Granted(m) THEN Wanted(m)[d] ELSE requested[d]
  <2>1. Resized(m)[d] = PlacedAgain(params[d], [size |-> s, rel_size |-> 0])
    BY <1>1, <1>6 DEF Resized, ResizedParams
  <2>2. s \in Int /\ requested'[d] = s
    BY <1>4, <1>5, <1>6
  <2>3. d \in Granted(m) => Wanted(m)[d] >= MinSize
    BY DEF Granted
  <2> HIDE DEF s
  <2>4. params'[d].size = s /\ params'[d].rel_size = 0
    BY <1>2, <2>1, ResizedIs
  <2>5. Size'[d] = s
    BY <1>3, <1>4, <2>2, <2>4, SizeIs
  <2> QED BY <1>5, <1>6, <2>2, <2>3, <2>5 DEF s
<1>7. CASE ~Resizes(m)
  <2>1. Resized(m) = params
    BY <1>7 DEF Resized
  <2> QED BY <1>2, <1>3, <1>5, <1>7, <2>1 DEF PlacedSize
<1> QED BY <1>6, <1>7

(* min_size is respected by a toplevel placed with at least that and       *)
(* resizable on both axes, the only kind for which resize looks at it on   *)
(* both.                                                                   *)
THEOREM MinimumRespected ==
  ASSUME Roomy, Resizable = Axis
  PROVE  Spec => []MinRespected
<1> DEFINE I == MinRespected /\ EnoughAsked
<1>1. ASSUME Init
      PROVE  I
  <2>1. PICK given \in [Axis -> Start] :
            params = [d \in Axis |-> FirstPlaced(given[d], requested[d])]
    BY <1>1 DEF Init
  <2>2. ASSUME NEW d \in Axis
        PROVE  Size[d] >= MinSize /\ requested[d] >= MinSize
    <3>1. given[d] \in Start /\ requested[d] \in Asked
      BY <1>1 DEF Init
    <3>2. Size[d] = PlacedSize(FirstPlaced(given[d], requested[d]), Parent[d], requested[d])
      BY <2>1 DEF Size
    <3>3. MinSize \in Int
      BY StartAssumption DEF Asked
    <3> QED BY <3>1, <3>2, <3>3 DEF Roomy, Asked
  <2> QED BY <2>2 DEF MinRespected, EnoughAsked
<1>2. ASSUME Inv, I, [Next]_vars
      PROVE  I'
  <2>1. ASSUME NEW m \in [Axis -> Mouse], MouseMove(m)
        PROVE  I'
    <3>1. ASSUME NEW d \in Axis
          PROVE  Size'[d] >= MinSize /\ requested'[d] >= MinSize
      <4>1. requested[d] >= MinSize /\ Size[d] >= MinSize
        BY <1>2 DEF MinRespected, EnoughAsked
      <4> QED BY <1>2, <2>1, <4>1, ResizedSize
    <3> QED BY <3>1 DEF MinRespected, EnoughAsked
  <2>2. CASE UNCHANGED <<params, requested>>
    <3>1. \A d \in Axis : Size'[d] = Size[d]
      BY <2>2 DEF Size
    <3> QED BY <1>2, <2>2, <3>1 DEF MinRespected, EnoughAsked
  <2>3. ASSUME NEW m \in [Axis -> Mouse], NEW left \in BOOLEAN, MouseDown(m, left)
        PROVE  UNCHANGED <<params, requested>>
    BY <2>3 DEF MouseDown, beg_resize, beg_move
  <2>4. CASE MouseUp \/ UNCHANGED vars
    BY <2>4, <2>2 DEF MouseUp, vars
  <2> QED BY <1>2, <2>1, <2>2, <2>3, <2>4 DEF Next
<1>3. I => MinRespected
  OBVIOUS
<1> QED BY <1>1, <1>2, <1>3, Invariance, PTL DEF Spec

=============================================================================
