---------------------------- MODULE EventBinding ----------------------------
(***************************************************************************)
(* What the list of event bindings of ei_event.c promises its callers.     *)
(*                                                                         *)
(* A binding is named by the rank at which ei_bind registered it.  ei_bind *)
(* only ever appends, so the list, read from its top, is the set of linked *)
(* ranks in increasing order, and the "next" field of a node is the least  *)
(* linked rank above its own.  BindingMemory models the nodes and pointers *)
(* themselves and is shown to implement this module.                       *)
(***************************************************************************)
EXTENDS Naturals, Sequences, Functions

CONSTANTS
  Widget,      \* widget instances; an instance is never reused
  Tag,         \* the tags: "all" and the names of the widget classes
  EventType,   \* ei_eventtype_t
  Callback,    \* a callback function together with its user_param
  MaxBind,     \* a natural: bound on the number of ei_bind calls of a run
  NULL         \* the null pointer, neither a widget nor a tag

VARIABLES
  bindings,    \* the linked nodes: rank -> ei_linked_binded_event
  registered,  \* how many bindings ei_bind has made so far
  fault        \* the first read or write of freed memory, or "none"

bindingVars == <<bindings, registered, fault>>

NIL == 0
Rank == 1 .. MaxBind

Binding == [eventtype : EventType, widget : Widget \cup {NULL},
            tag : Tag \cup {NULL}, callback : Callback]

(* Exactly one of widget and tag is given; ei_bind refuses the others.     *)
ValidTarget(b) == (b.widget = NULL) # (b.tag = NULL)

Linked == DOMAIN bindings

(* Node n is the one the next field of node m points to; with m = NIL, the *)
(* one the list starts with.                                               *)
Follows(m, n) ==
  /\ n \in Linked
  /\ n > m
  /\ \A k \in Linked : k > m => n <= k

LastLinked(m) == \A k \in Linked : k <= m

Matching(b) == {n \in Linked : bindings[n] = b}
BoundTo(w) == {n \in Linked : bindings[n].widget = w}

(***************************************************************************)
(* Two neighbours of the list are bound to w.                              *)
(***************************************************************************)
Adjacent(w) == \E m, n \in BoundTo(w) : Follows(m, n)

-----------------------------------------------------------------------------

Init ==
  /\ bindings = [n \in {} |-> NULL]
  /\ registered = 0
  /\ fault = "none"

(* Appends the bindings of the sequence bs, in this order.                 *)
Register(bs) ==
  /\ registered + Len(bs) <= MaxBind
  /\ registered' = registered + Len(bs)
  /\ bindings' = [n \in Linked \cup {registered + i : i \in DOMAIN bs} |->
                    IF n \in Linked THEN bindings[n] ELSE bs[n - registered]]

Unlink(S) == bindings' = Restrict(bindings, Linked \ S)

(* A call ei_bind rejects changes nothing.                                 *)
ei_bind(b) ==
  /\ ValidTarget(b)
  /\ Register(<<b>>)
  /\ UNCHANGED fault

(* Removes the first binding equal to b in every field, if there is one.   *)
ei_unbind(b) ==
  /\ \/ \E n \in Matching(b) :
          /\ \A k \in Matching(b) : n <= k
          /\ Unlink({n})
     \/ Matching(b) = {} /\ UNCHANGED bindings
  /\ UNCHANGED <<registered, fault>>

(* The node just freed stays the "last" one of the walk, so a second node  *)
(* of w right behind it is unlinked by a write into freed memory.          *)
destroy_event_binded_to_widget(w) ==
  /\ \/ /\ Adjacent(w)
        /\ fault' = "freed_predecessor"
        /\ UNCHANGED bindings
     \/ /\ ~Adjacent(w)
        /\ Unlink(BoundTo(w))
        /\ UNCHANGED fault
  /\ UNCHANGED registered

Next ==
  /\ fault = "none"
  /\ \/ \E b \in Binding : ei_bind(b) \/ ei_unbind(b)
     \/ \E w \in Widget : destroy_event_binded_to_widget(w)

Spec == Init /\ [][Next]_bindingVars

-----------------------------------------------------------------------------

TypeOK ==
  /\ registered \in 0 .. MaxBind
  /\ Linked \subseteq 1 .. registered
  /\ \A n \in Linked : bindings[n] \in Binding
  /\ fault \in {"none", "freed_predecessor"}

=============================================================================
