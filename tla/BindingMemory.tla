--------------------------- MODULE BindingMemory ---------------------------
(***************************************************************************)
(* The nodes of ei_event.c in memory: the three functions that walk the    *)
(* list, one loop iteration per step, over nodes that are allocated and    *)
(* freed.  A node freed by the code leaves the domain of "node"; the step  *)
(* that would read or write it afterwards sets "fault" and the model       *)
(* stops there, since nothing is known of what the program does next.      *)
(***************************************************************************)
EXTENDS Naturals, Functions

CONSTANTS Widget, Tag, EventType, Callback, MaxBind, NULL  \* see EventBinding

ASSUME NullAssumption == NULL \notin Widget \cup Tag
ASSUME MaxBindAssumption == MaxBind \in Nat

VARIABLES
  top,         \* top_event_bind
  node,        \* the allocated nodes: rank of registration -> data and next
  registered,  \* ei_bind calls so far
  call,        \* the function being executed and its argument
  last,        \* last_bind of the walk
  curr,        \* curr_bind / current_bind / current_event of the walk
  fault,
  before       \* history: the list the running call began with

vars == <<top, node, registered, call, last, curr, fault, before>>

NIL == 0
Empty == [n \in {} |-> NULL]
Idle == [op |-> "none"]

Binding == [eventtype : EventType, widget : Widget \cup {NULL},
            tag : Tag \cup {NULL}, callback : Callback]

ValidTarget(b) == (b.widget = NULL) # (b.tag = NULL)

(* The nodes met by following next from node n: the least set that holds n *)
(* and the next node of each of its nodes.                                 *)
FollowsNext(S, n) ==
  /\ n \in DOMAIN node => n \in S
  /\ \A k \in S : node[k].next \in DOMAIN node => node[k].next \in S

ChainFrom(n) ==
  {m \in DOMAIN node : \A S \in SUBSET DOMAIN node : FollowsNext(S, n) => m \in S}

List == [n \in ChainFrom(top) |-> node[n].data]

Free(n) == Restrict(node, DOMAIN node \ {n})
SetNext(m, n) == [node EXCEPT ![m].next = n]

Init ==
  /\ top = NIL /\ node = Empty /\ registered = 0
  /\ call = Idle /\ last = NIL /\ curr = NIL
  /\ fault = "none" /\ before = Empty

Begin(op, arg) ==
  /\ call' = [op |-> op, arg |-> arg]
  /\ last' = NIL
  /\ curr' = top
  /\ before' = List

Return == call' = Idle /\ last' = NIL /\ curr' = NIL /\ before' = Empty

-----------------------------------------------------------------------------
(* ei_bind: the new node, then the walk to the last one.                   *)
Malloc(b) ==
  /\ ValidTarget(b)
  /\ registered < MaxBind
  /\ registered' = registered + 1
  /\ node' = [n \in DOMAIN node \cup {registered + 1} |->
                IF n \in DOMAIN node THEN node[n] ELSE [data |-> b, next |-> NIL]]

BindFirst(b) ==
  /\ call = Idle /\ top = NIL
  /\ Malloc(b)
  /\ top' = registered'
  /\ UNCHANGED <<call, last, curr, fault, before>>

BeginBind(b) ==
  /\ call = Idle /\ top # NIL
  /\ Malloc(b)
  /\ Begin("ei_bind", registered')
  /\ UNCHANGED <<top, fault>>

BindWalk ==
  /\ call.op = "ei_bind" /\ node[curr].next # NIL
  /\ curr' = node[curr].next
  /\ UNCHANGED <<top, node, registered, call, last, fault, before>>

(* Mutant: the new node is linked in front of the list.                    *)
BindLink_front ==
  /\ call.op = "ei_bind" /\ node[curr].next = NIL
  /\ node' = SetNext(call.arg, top)
  /\ top' = call.arg
  /\ Return
  /\ UNCHANGED <<registered, fault>>

BindLink ==
  /\ call.op = "ei_bind" /\ node[curr].next = NIL
  /\ node' = SetNext(curr, call.arg)
  /\ Return
  /\ UNCHANGED <<top, registered, fault>>

-----------------------------------------------------------------------------
(* ei_unbind: stops at the first node equal in every field.                *)
BeginUnbind(b) ==
  /\ call = Idle
  /\ Begin("ei_unbind", b)
  /\ UNCHANGED <<top, node, registered, fault>>

UnbindWalk ==
  /\ call.op = "ei_unbind" /\ curr # NIL /\ node[curr].data # call.arg
  /\ last' = curr
  /\ curr' = node[curr].next
  /\ UNCHANGED <<top, node, registered, call, fault, before>>

(* Mutant: the node at the top of the list is unlinked and not freed.      *)
UnbindFound_leaks ==
  /\ call.op = "ei_unbind" /\ curr # NIL /\ node[curr].data = call.arg
  /\ \/ /\ last = NIL
        /\ top' = node[curr].next
        /\ UNCHANGED node
     \/ /\ last # NIL
        /\ node' = Restrict(SetNext(last, node[curr].next), DOMAIN node \ {curr})
        /\ UNCHANGED top
  /\ Return
  /\ UNCHANGED <<registered, fault>>

(* Mutant: the walk goes on and removes every equal binding.               *)
UnbindFound_all ==
  /\ call.op = "ei_unbind" /\ curr # NIL /\ node[curr].data = call.arg
  /\ \/ /\ last = NIL
        /\ top' = node[curr].next
        /\ node' = Free(curr)
     \/ /\ last # NIL
        /\ node' = Restrict(SetNext(last, node[curr].next), DOMAIN node \ {curr})
        /\ UNCHANGED top
  /\ curr' = node[curr].next
  /\ UNCHANGED <<registered, call, last, fault, before>>

UnbindFound ==
  /\ call.op = "ei_unbind" /\ curr # NIL /\ node[curr].data = call.arg
  /\ \/ /\ last = NIL
        /\ top' = node[curr].next
        /\ node' = Free(curr)
     \/ /\ last # NIL
        /\ node' = Restrict(SetNext(last, node[curr].next), DOMAIN node \ {curr})
        /\ UNCHANGED top
  /\ Return
  /\ UNCHANGED <<registered, fault>>

-----------------------------------------------------------------------------
(* destroy_event_binded_to_widget: every node is visited; last_bind follows *)
(* curr_bind even when curr_bind has just been freed.                       *)
BeginDestroy(w) ==
  /\ call = Idle
  /\ Begin("destroy", w)
  /\ UNCHANGED <<top, node, registered, fault>>

Advance == last' = curr /\ curr' = node[curr].next

(* Mutant: curr_bind does not advance past another widget's node.          *)
DestroyWalk_stays ==
  /\ call.op = "destroy" /\ curr # NIL /\ node[curr].data.widget # call.arg
  /\ last' = curr
  /\ UNCHANGED <<top, node, registered, call, curr, fault, before>>

DestroyWalk ==
  /\ call.op = "destroy" /\ curr # NIL /\ node[curr].data.widget # call.arg
  /\ Advance
  /\ UNCHANGED <<top, node, registered, call, fault, before>>

DestroyFound ==
  /\ call.op = "destroy" /\ curr # NIL /\ node[curr].data.widget = call.arg
  /\ \/ /\ last = NIL
        /\ top' = node[curr].next
        /\ node' = Free(curr)
        /\ Advance
        /\ UNCHANGED fault
     \/ /\ last \in DOMAIN node
        /\ node' = Restrict(SetNext(last, node[curr].next), DOMAIN node \ {curr})
        /\ Advance
        /\ UNCHANGED <<top, fault>>
     \/ /\ last # NIL /\ last \notin DOMAIN node
        /\ fault' = "freed_predecessor"
        /\ UNCHANGED <<top, node, last, curr>>
  /\ UNCHANGED <<registered, call, before>>

(* The walk of ei_unbind or of the destruction reached the end.            *)
WalkEnds ==
  /\ call.op \in {"ei_unbind", "destroy"} /\ curr = NIL
  /\ Return
  /\ UNCHANGED <<top, node, registered, fault>>

-----------------------------------------------------------------------------

Next ==
  /\ fault = "none"
  /\ \/ \E b \in Binding : BindFirst(b) \/ BeginBind(b) \/ BeginUnbind(b)
     \/ \E w \in Widget : BeginDestroy(w)
     \/ BindWalk \/ BindLink
     \/ UnbindWalk \/ UnbindFound
     \/ DestroyWalk \/ DestroyFound
     \/ WalkEnds

Spec == Init /\ [][Next]_vars /\ WF_vars(Next)

-----------------------------------------------------------------------------
(***************************************************************************)
(* Between calls the list is the one in memory; during a call the abstract *)
(* list is still the one the call found.                                   *)
(***************************************************************************)
Pending == call.op = "ei_bind"

Abstract == INSTANCE EventBinding WITH
  bindings <- IF call = Idle THEN List ELSE before,
  registered <- IF Pending THEN registered - 1 ELSE registered

(* The pointer walks implement the ordered list of EventBinding: ei_bind   *)
(* appends, ei_unbind removes the first equal binding, and the destruction *)
(* removes exactly the widget's bindings unless two are neighbours, when   *)
(* it writes through the node it has just freed.                           *)
ImplementsList == Abstract!Spec

(* No binding is lost: between two calls, the allocated nodes are exactly  *)
(* the ones the event loop reaches from top_event_bind.                    *)
NothingLeaked == call = Idle => DOMAIN node = ChainFrom(top)

(* The list keeps the order of registration, so that the event loop offers *)
(* an event to the callbacks in the order in which ei_bind was called.     *)
RegistrationOrder ==
  \A n \in ChainFrom(top) : node[n].next # NIL => node[n].next > n

(* Every walk ends, whatever calls came before it.                         *)
CallsReturn == (call # Idle) ~> (call = Idle \/ fault # "none")

=============================================================================
