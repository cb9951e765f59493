------------------------------ MODULE Registry ------------------------------
(***************************************************************************)
(* The list of widget classes, and that of geometry managers, which is the *)
(* same code: structures linked through a field of theirs, found by name,  *)
(* put at the top.  A structure whose name is taken is freed instead,      *)
(* without a word to the caller, and without asking whether it is the one  *)
(* registered already.                                                     *)
(***************************************************************************)
EXTENDS Naturals, SequencesExt

CONSTANTS
  Structure,  \* the class structures the library and the program allocate
  Name,       \* structure -> its name
  NULL

ASSUME NameAssumption == NULL \notin Structure

VARIABLES
  registered,  \* the list, from its top
  freed        \* structures that were freed

registryVars == <<registered, freed>>

from_name(n) ==
  LET named == {i \in DOMAIN registered : Name[registered[i]] = n}
  IN  IF named = {} THEN NULL ELSE registered[CHOOSE i \in named : \A j \in named : i <= j]

(* Mutant: the latest one of a name is the one found.                      *)
register_always(s) == registered' = <<s>> \o registered /\ UNCHANGED freed

register(s) ==
  IF from_name(Name[s]) # NULL
  THEN freed' = freed \cup {s} /\ UNCHANGED registered
  ELSE registered' = <<s>> \o registered /\ UNCHANGED freed

=============================================================================
