------------------------------- MODULE Placer -------------------------------
(***************************************************************************)
(* runplacer, ei_place and normalize_rect, one axis at a time: the two axes*)
(* are treated alike and never mixed.  Relative parameters are counted in  *)
(* halves of the parent, so that the truncation of a float to an int has   *)
(* something to truncate.                                                  *)
(***************************************************************************)
EXTENDS Integers, FiniteSetsExt

Axis == {"x", "y"}

(* An anchor, on one axis: west or north, centre, east or south.           *)
Anchor == {"start", "middle", "end"}

(* ei_placer_param_t on one axis: anchor, x, width, rel_x, rel_width.      *)
Fields == {"anchor", "at", "size", "rel_at", "rel_size"}

(* The conversion to int of a number of halves, and the division by 2.     *)
Halved(n) == IF n >= 0 THEN n \div 2 ELSE -((-n) \div 2)

(* Mutant: a widget without a size fills its parent.                       *)
PlacedSize_fills(p, parent, requested) ==
  LET size == Halved(parent.size * p.rel_size + 2 * p.size)
  IN  IF size = 0 THEN parent.size ELSE size

(* The size runplacer gives a widget; parent is [at, size].                *)
PlacedSize(p, parent, requested) ==
  LET size == Halved(parent.size * p.rel_size + 2 * p.size)
  IN  IF size = 0 THEN requested ELSE size

(* The position, from the one the anchor designates.                       *)
AnchorShift(anchor, size) ==
  CASE anchor = "start"  -> 0
    [] anchor = "middle" -> Halved(size)
    [] anchor = "end"    -> size

PlacedAt(p, parent, requested) ==
  Halved(parent.size * p.rel_at + 2 * (p.at + parent.at))
    - AnchorShift(p.anchor, PlacedSize(p, parent, requested))

(* ei_place on a widget never placed before: what is not given in the      *)
(* function "given" has a default value, for the size the requested one    *)
(* unless a relative size is given.                                        *)
FirstPlaced(given, requested) ==
  [f \in Fields |->
     CASE f \in DOMAIN given -> given[f]
       [] f \notin DOMAIN given /\ f = "anchor" -> "start"
       [] f \notin DOMAIN given /\ f = "size" /\ "rel_size" \notin DOMAIN given -> requested
       [] OTHER -> 0]

(* ei_place again: what is not given keeps its value.                      *)
PlacedAgain(p, given) ==
  [f \in Fields |-> IF f \in DOMAIN given THEN given[f] ELSE p[f]]

(* Mutant: clipped at 0 only.                                              *)
Clipped_upper(at, size, limit) == [at |-> Max({0, at}), size |-> size + Min({0, at})]

(* On one axis: clipped at 0, then at the size of the window; what lies    *)
(* outside is left with a negative size.                                   *)
Clipped(at, size, limit) ==
  LET from == Max({0, at})
      rest == size + Min({0, at})
  IN  [at |-> from, size |-> Min({rest, limit - from})]

=============================================================================
