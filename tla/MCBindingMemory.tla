-------------------------- MODULE MCBindingMemory --------------------------
EXTENDS BindingMemory

CONSTANTS w1, w2, all

MCWidget == {w1, w2}
MCTag == {all}
MCEventType == {"ei_ev_keydown"}
MCCallback == {"cb"}

(* destroy_event_binded_to_widget "destroys the events binded to" its      *)
(* widget (ei_event_more.h), for every list of bindings.                   *)
DestroyCompletes == fault # "freed_predecessor"

=============================================================================
