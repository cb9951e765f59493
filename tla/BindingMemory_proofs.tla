----------------------- MODULE BindingMemory_proofs -----------------------
(***************************************************************************)
(* Proofs about BindingMemory: the walks over the pointers implement the   *)
(* ordered list of EventBinding, for any number of bindings, widgets and   *)
(* callbacks; between two calls no node is lost, and the order of the list *)
(* is the order of registration.                                           *)
(***************************************************************************)
EXTENDS BindingMemory, Sequences, SequencesExt, SequenceTheorems, WellFoundedInduction, TLAPS

NatLess == {p \in Nat \X Nat : p[1] < p[2]}

(* A set of naturals that is not empty has a least element.                *)
LEMMA Smallest ==
  ASSUME NEW S \in SUBSET Nat, S # {}
  PROVE  \E n \in S : \A m \in S : n <= m
<1>1. IsWellFoundedOn(NatLess, Nat)
  BY NatLessThanWellFounded DEF NatLess, OpToRel
<1>2. PICK n \in S : \A m \in S : ~ (<<m, n>> \in NatLess)
  BY <1>1, WFMin
<1>3. \A n_1, m \in Nat : <<m, n_1>> \in NatLess <=> m < n_1
  BY DEF NatLess
<1>4. \A m \in S : ~ (m < n)
  BY <1>2, <1>3
<1> QED BY <1>4

(* One that is also bounded has a greatest element.                        *)
LEMMA Greatest ==
  ASSUME NEW B \in Nat, NEW S \in SUBSET (0 .. B), S # {}
  PROVE  \E n \in S : \A m \in S : m <= n
<1> DEFINE T == {B - n : n \in S}
<1>1. T \in SUBSET Nat /\ T # {}
  <2>1. \A n \in S : B - n \in Nat
    OBVIOUS
  <2>2. PICK n \in S : TRUE
    OBVIOUS
  <2>3. B - n \in T
    OBVIOUS
  <2> QED BY <2>1, <2>3
<1>2. PICK t \in T : \A s \in T : t <= s
  <2> HIDE DEF T
  <2> QED BY <1>1, Smallest
<1>3. PICK n \in S : t = B - n
  OBVIOUS
<1>4. \A m \in S : B - n <= B - m
  BY <1>2, <1>3
<1>5. \A m \in S : m <= n
  BY <1>4
<1> QED BY <1>5

-----------------------------------------------------------------------------
(* The nodes that are in the list: all that are allocated, except the one  *)
(* a running ei_bind has not linked yet.                                   *)
Listed == DOMAIN node \ (IF call.op = "ei_bind" THEN {call.arg} ELSE {})

(* n comes right behind m in the increasing list of L; NIL stands for both *)
(* ends.                                                                   *)
NextIn(L, m, n) ==
  \/ n \in L /\ n > m /\ \A k \in L : k > m => n <= k
  \/ n = NIL /\ \A k \in L : k <= m

Types ==
  /\ registered \in 0 .. MaxBind
  /\ top \in Nat /\ last \in Nat /\ curr \in Nat
  /\ DOMAIN node \subseteq 1 .. registered
  /\ \A n \in DOMAIN node : node[n] \in [data : Binding, next : Nat]
  /\ node = [n \in DOMAIN node |-> node[n]]
  /\ fault \in {"none", "freed_predecessor"}
  /\ DOMAIN before \subseteq 1 .. registered
  /\ before = [n \in DOMAIN before |-> before[n]]
  /\ \/ call = Idle
     \/ call = [op |-> "ei_bind", arg |-> registered] /\ registered \in DOMAIN node
     \/ \E b \in Binding : call = [op |-> "ei_unbind", arg |-> b]
     \/ \E w \in Widget : call = [op |-> "destroy", arg |-> w]

(* The list is the increasing one over Listed.                             *)
Chained ==
  /\ NextIn(Listed, NIL, top)
  /\ \A n \in Listed : NextIn(Listed, n, node[n].next)

BindInv == call.op = "ei_bind" =>
  /\ curr \in Listed
  /\ before = [n \in Listed |-> node[n].data]
  /\ node[call.arg].next = NIL /\ ValidTarget(node[call.arg].data)

UnbindInv == call.op = "ei_unbind" =>
  /\ before = [n \in Listed |-> node[n].data]
  /\ last \in Listed \cup {NIL}
  /\ NextIn(Listed, last, curr)
  /\ \A k \in Listed : k <= last => node[k].data # call.arg

(* The bindings the running destruction is to remove, and has removed.     *)
Bound == {n \in DOMAIN before : before[n].widget = call.arg}
Gone == {n \in Bound : n <= last}

DestroyInv == call.op = "destroy" =>
  /\ last \in DOMAIN before \cup {NIL}
  /\ NextIn(DOMAIN before, last, curr)
  /\ DOMAIN node = DOMAIN before \ Gone
  /\ \A n \in DOMAIN node : node[n].data = before[n]
  /\ \A m, n \in Bound : NextIn(DOMAIN before, m, n) => n > last

Inv == Types /\ Chained /\ BindInv /\ UnbindInv /\ DestroyInv

-----------------------------------------------------------------------------
(* What next reaches from the top is the whole list: a listed node that it *)
(* does not reach would have a least one, which is the next of the one     *)
(* before it.                                                              *)
LEMMA Predecessor ==
  ASSUME NEW B \in Nat, NEW L \in SUBSET (1 .. B), NEW n \in L
  PROVE  \E m \in L \cup {NIL} : m < n /\ NextIn(L, m, n)
<1>1. CASE \A k \in L : n <= k
  BY <1>1 DEF NextIn, NIL
<1>2. CASE \E k \in L : ~ (n <= k)
  <2> DEFINE S == {k \in L : k < n}
  <2>1. S \in SUBSET (0 .. B) /\ S # {}
    <3>1. \A k \in L : k \in 1 .. B /\ k \in 0 .. B
      OBVIOUS
    <3>2. n \in Nat /\ \A k \in L : k \in Nat
      BY <3>1
    <3>3. \E k \in L : k < n
      BY <1>2, <3>2
    <3> QED BY <3>1, <3>3
  <2>2. PICK m \in S : \A k \in S : k <= m
    <3> HIDE DEF S
    <3> QED BY <2>1, Greatest
  <2>3. \A k \in L : k > m => n <= k
    BY <2>2
  <2> QED BY <2>2, <2>3 DEF NextIn
<1> QED BY <1>1, <1>2

LEMMA NextUnique ==
  ASSUME NEW L \in SUBSET Nat, NIL \notin L, NEW m \in Nat, NEW n \in Nat, NEW k \in Nat,
         NextIn(L, m, n), NextIn(L, m, k)
  PROVE  n = k
BY DEF NextIn

LEMMA ChainIsListed == ASSUME Types, Chained PROVE ChainFrom(top) = Listed
<1>0. /\ registered \in Nat /\ Listed \in SUBSET (1 .. registered) /\ Listed \subseteq DOMAIN node
      /\ \A n \in DOMAIN node : node[n].next \in Nat /\ n \in Nat /\ n # NIL
  BY MaxBindAssumption DEF Types, Listed, NIL
<1>1. ChainFrom(top) \subseteq Listed
  <2>1. top \in DOMAIN node => top \in Listed
    BY <1>0 DEF Chained, NextIn
  <2>2. \A k \in Listed : node[k].next \in DOMAIN node => node[k].next \in Listed
    BY <1>0 DEF Chained, NextIn
  <2>3. Listed \in SUBSET DOMAIN node /\ FollowsNext(Listed, top)
    BY <1>0, <2>1, <2>2 DEF FollowsNext
  <2> QED BY <2>3 DEF ChainFrom
<1>2. ASSUME NEW n \in Listed, NEW S \in SUBSET DOMAIN node, FollowsNext(S, top), n \notin S
      PROVE  FALSE
  <2> DEFINE T == Listed \ S
  <2>1. PICK x \in T : \A y \in T : x <= y
    <3>1. T \in SUBSET Nat /\ T # {}
      BY <1>0, <1>2
    <3> HIDE DEF T
    <3> QED BY <3>1, Smallest
  <2>2. PICK m \in Listed \cup {NIL} : m < x /\ NextIn(Listed, m, x)
    BY <1>0, Predecessor
  <2>3. CASE m = NIL
    <3>1. NextIn(Listed, NIL, top) /\ NextIn(Listed, NIL, x)
      BY <2>2, <2>3 DEF Chained
    <3>2. Listed \in SUBSET Nat /\ NIL \notin Listed /\ x \in Nat /\ top \in Nat /\ NIL \in Nat
      BY <1>0 DEF Types, NIL
    <3>3. top = x
      BY <3>1, <3>2, NextUnique
    <3> QED BY <1>0, <1>2, <3>3 DEF FollowsNext
  <2>4. CASE m \in Listed
    <3>1. m \in S
      BY <1>0, <2>1, <2>2, <2>4
    <3>2. node[m].next = x
      BY <1>0, <2>2, <2>4 DEF Chained, NextIn, NIL
    <3> QED BY <1>0, <1>2, <3>1, <3>2 DEF FollowsNext
  <2> QED BY <2>2, <2>3, <2>4
<1> QED BY <1>0, <1>1, <1>2 DEF ChainFrom

(* So the list in memory is the function from the listed nodes.            *)
LEMMA ListIs == ASSUME Types, Chained PROVE List = [n \in Listed |-> node[n].data]
BY ChainIsListed DEF List

-----------------------------------------------------------------------------
(* The invariant is kept, operation by operation.                          *)
LEMMA InitInv == Init => Inv
<1> SUFFICES ASSUME Init PROVE Inv
  OBVIOUS
<1>1. /\ DOMAIN node = {} /\ node = [n \in {} |-> node[n]]
      /\ DOMAIN before = {} /\ before = [n \in {} |-> before[n]]
  BY DEF Init, Empty
<1>2. Types
  BY <1>1, MaxBindAssumption DEF Init, Types, NIL
<1>3. Listed = {}
  BY <1>1 DEF Listed
<1>4. Chained
  BY <1>3 DEF Init, Chained, NextIn
<1> QED BY <1>2, <1>4 DEF Init, Inv, BindInv, UnbindInv, DestroyInv, Idle

(* Facts about a state of the invariant that every step uses.              *)
LEMMA Shape ==
  ASSUME Types
  PROVE  /\ registered \in Nat /\ MaxBind \in Nat /\ registered <= MaxBind
         /\ \A n \in DOMAIN node : /\ n \in Nat /\ n > NIL /\ n <= registered
                                  /\ node[n].next \in Nat /\ node[n].data \in Binding
         /\ \A n \in DOMAIN before : n \in Nat /\ n > NIL /\ n <= registered
         /\ call.op # "ei_bind" => Listed = DOMAIN node
         /\ call.op = "ei_bind" => /\ Listed = DOMAIN node \ {registered}
                                   /\ call.arg = registered /\ registered \in DOMAIN node
         /\ NIL = 0
<1>1. registered \in Nat /\ MaxBind \in Nat /\ registered <= MaxBind /\ NIL = 0
  BY MaxBindAssumption DEF Types, NIL
<1>2. \A n \in DOMAIN node : /\ n \in Nat /\ n > NIL /\ n <= registered
                             /\ node[n].next \in Nat /\ node[n].data \in Binding
  BY <1>1 DEF Types
<1>3. \A n \in DOMAIN before : n \in Nat /\ n > NIL /\ n <= registered
  BY <1>1 DEF Types
<1>4. call.op = "ei_bind" => call.arg = registered /\ registered \in DOMAIN node
  BY DEF Types, Idle
<1> QED BY <1>1, <1>2, <1>3, <1>4 DEF Listed

LEMMA MallocList ==
  ASSUME Types, NEW b \in Binding, Malloc(b)
  PROVE  /\ registered' = registered + 1 /\ registered' \in 0 .. MaxBind
         /\ DOMAIN node' = DOMAIN node \cup {registered'} /\ registered' \notin DOMAIN node
         /\ node'[registered'] = [data |-> b, next |-> NIL]
         /\ \A n \in DOMAIN node : node'[n] = node[n]
         /\ node' = [n \in DOMAIN node' |-> node'[n]]
         /\ DOMAIN node' \subseteq 1 .. registered'
         /\ \A n \in DOMAIN node' : node'[n] \in [data : Binding, next : Nat]
<1>1. registered' = registered + 1 /\ registered' \in 0 .. MaxBind
  BY Shape DEF Malloc
<1>2. node' = [n \in DOMAIN node \cup {registered'} |->
                 IF n \in DOMAIN node THEN node[n] ELSE [data |-> b, next |-> NIL]]
  BY <1>1 DEF Malloc
<1>3. DOMAIN node' = DOMAIN node \cup {registered'} /\ registered' \notin DOMAIN node
  BY <1>1, <1>2, Shape
<1>4. DOMAIN node' \subseteq 1 .. registered'
  BY <1>1, <1>3, Shape DEF Types
<1>5. [data |-> b, next |-> NIL] \in [data : Binding, next : Nat]
  BY DEF NIL
<1> QED BY <1>1, <1>2, <1>3, <1>4, <1>5 DEF Types

LEMMA BindInvariant ==
  ASSUME Inv, \/ \E b \in Binding : BindFirst(b) \/ BeginBind(b)
              \/ BindWalk \/ BindLink
  PROVE  Inv'
<1> USE DEF Inv
<1>0. Types
  OBVIOUS
<1>1. ASSUME NEW b \in Binding, BindFirst(b) PROVE Inv'
  <2>1. call = Idle /\ call' = Idle /\ top = NIL /\ top' = registered' /\ Malloc(b)
        /\ UNCHANGED <<last, curr, fault, before>>
    BY <1>0, Shape, <1>1 DEF BindFirst
  <2>2. DOMAIN node = {}
    <3>1. Listed = DOMAIN node /\ NIL = 0 /\ \A n \in DOMAIN node : n \in Nat /\ n > NIL
      BY <1>0, Shape, <2>1 DEF Idle
    <3>2. \A k \in DOMAIN node : k <= 0
      BY <1>0, <2>1, <3>1 DEF Chained, NextIn
    <3>3. \A k \in DOMAIN node : FALSE
      BY <3>1, <3>2
    <3> QED BY <3>3
  <2>3. DOMAIN node' = {registered'} /\ node'[registered'].next = NIL /\ registered' > NIL
    <3>1. /\ DOMAIN node' = DOMAIN node \cup {registered'} /\ registered' = registered + 1
          /\ node'[registered'] = [data |-> b, next |-> NIL]
      BY <1>0, <2>1, MallocList
    <3> QED BY <1>0, <2>2, <3>1, Shape
  <2>4. Listed' = {registered'}
    BY <1>0, Shape, <2>1, <2>3 DEF Listed, Idle
  <2>5. Types'
    <3>1. registered' = registered + 1 /\ registered' \in 0 .. MaxBind /\ registered \in Nat
      BY <1>0, <2>1, MallocList, Shape
    <3>2. DOMAIN before' \subseteq 1 .. registered' /\ before' = [n \in DOMAIN before' |-> before'[n]]
      BY <1>0, <2>1, <3>1 DEF Types
    <3>3. top' \in Nat /\ last' \in Nat /\ curr' \in Nat /\ call' = Idle /\ fault' = fault
      BY <1>0, <2>1, <3>1 DEF Types
    <3>4. /\ DOMAIN node' \subseteq 1 .. registered'
          /\ \A n \in DOMAIN node' : node'[n] \in [data : Binding, next : Nat]
          /\ node' = [n \in DOMAIN node' |-> node'[n]]
      BY <1>0, <2>1, MallocList
    <3> QED BY <1>0, <3>1, <3>2, <3>3, <3>4 DEF Types
  <2>6. Chained'
    BY <1>0, Shape, <2>1, <2>3, <2>4, <2>5 DEF Chained, NextIn, Types
  <2> QED BY <1>0, Shape, <2>1, <2>5, <2>6 DEF BindInv, UnbindInv, DestroyInv, Idle
<1>2. ASSUME NEW b \in Binding, BeginBind(b) PROVE Inv'
  <2>1. /\ call = Idle /\ call' = [op |-> "ei_bind", arg |-> registered'] /\ top # NIL
        /\ Malloc(b) /\ last' = NIL /\ curr' = top /\ before' = List /\ UNCHANGED <<top, fault>>
    BY <1>0, Shape, <1>2 DEF BeginBind, Begin
  <2>2. Listed' = Listed /\ Listed = DOMAIN node
    BY <1>0, Shape, <2>1, MallocList DEF Listed, Idle
  <2>3. List = [n \in Listed |-> node[n].data]
    BY <1>0, Shape, ListIs
  <2>4. before' = [n \in Listed' |-> node'[n].data]
    BY <1>0, Shape, <2>1, <2>2, <2>3, MallocList
  <2>5. Types'
    <3>1. DOMAIN before' \subseteq 1 .. registered'
      BY <1>0, Shape, <2>1, <2>2, <2>4, MallocList
    <3>2. before' = [n \in DOMAIN before' |-> before'[n]]
      BY <1>0, Shape, <2>4
    <3> QED BY <1>0, Shape, <2>1, <3>1, <3>2, MallocList DEF Types, NIL
  <2>6. Chained'
    BY <1>0, Shape, <2>1, <2>2, MallocList DEF Chained
  <2>7. curr' \in Listed'
    BY <1>0, Shape, <2>1, <2>2 DEF Chained, NextIn
  <2>8. BindInv'
    <3>1. node'[registered'] = [data |-> b, next |-> NIL] /\ ValidTarget(b)
      BY <1>0, Shape, <2>1, MallocList DEF Malloc
    <3> QED BY <1>0, Shape, <2>1, <2>4, <2>7, <3>1 DEF BindInv
  <2> QED BY <1>0, Shape, <2>1, <2>5, <2>6, <2>8 DEF UnbindInv, DestroyInv
<1>3. CASE BindWalk
  <2>1. call.op = "ei_bind" /\ curr' = node[curr].next /\ curr' # NIL /\ curr \in Listed
        /\ UNCHANGED <<top, node, registered, call, last, fault, before>>
    BY <1>0, Shape, <1>3 DEF BindWalk, BindInv
  <2>2. Listed' = Listed /\ curr' \in Listed
    BY <1>0, Shape, <2>1 DEF Listed, Chained, NextIn
  <2>3. Types'
    BY <1>0, Shape, <2>1, <2>2 DEF Types, Listed
  <2> QED BY <1>0, Shape, <2>1, <2>2, <2>3 DEF Chained, BindInv, UnbindInv, DestroyInv
<1>4. CASE BindLink
  <2>1. /\ call.op = "ei_bind" /\ node[curr].next = NIL /\ curr \in Listed
        /\ node' = [node EXCEPT ![curr].next = registered]
        /\ call' = Idle /\ last' = NIL /\ curr' = NIL /\ before' = Empty
        /\ UNCHANGED <<top, registered, fault>>
    BY <1>0, Shape, <1>4 DEF BindLink, SetNext, Return, BindInv
  <2>2. Listed = DOMAIN node \ {registered} /\ Listed' = DOMAIN node /\ registered \in DOMAIN node
        /\ DOMAIN node' = DOMAIN node
    BY <1>0, Shape, <2>1 DEF Listed, Idle
  <2>3. /\ \A n \in DOMAIN node : n # curr => node'[n] = node[n]
        /\ node'[curr].next = registered /\ node'[curr].data = node[curr].data
        /\ node'[curr] \in [data : Binding, next : Nat]
    BY <1>0, Shape, <2>1, <2>2 DEF Types
  <2>4. Types'
    <3>1. DOMAIN before' = {} /\ before' = [n \in {} |-> before'[n]]
      BY <1>0, Shape, <2>1 DEF Empty
    <3>2. node' = [n \in DOMAIN node' |-> node'[n]]
      BY <1>0, Shape, <2>1, <2>2
    <3>3. \A n \in DOMAIN node' : node'[n] \in [data : Binding, next : Nat]
      BY <1>0, Shape, <2>2, <2>3 DEF Types
    <3> QED BY <1>0, Shape, <2>1, <2>2, <3>1, <3>2, <3>3 DEF Types, NIL
  <2>5. \A k \in Listed : k < registered /\ k <= curr
    BY <1>0, Shape, <2>1, <2>2 DEF Chained, NextIn
  <2>6. Chained'
    <3>1. NextIn(Listed', NIL, top)
      BY <1>0, Shape, <2>1, <2>2, <2>5 DEF Chained, NextIn
    <3>2. NextIn(Listed', curr, registered)
      BY <1>0, Shape, <2>1, <2>2, <2>5 DEF NextIn
    <3>3. NextIn(Listed', registered, NIL)
      BY <1>0, Shape, <2>2, <2>5 DEF NextIn
    <3>4. node'[registered].next = NIL
      BY <1>0, Shape, <2>1, <2>2, <2>3 DEF BindInv
    <3>5. \A n \in Listed : n # curr => NextIn(Listed', n, node[n].next)
      BY <1>0, Shape, <2>1, <2>2, <2>5 DEF Chained, NextIn
    <3> QED BY <1>0, Shape, <2>1, <2>2, <2>3, <3>1, <3>2, <3>3, <3>4, <3>5 DEF Chained
  <2> QED BY <1>0, Shape, <2>1, <2>4, <2>6 DEF BindInv, UnbindInv, DestroyInv, Idle
<1> QED BY <1>1, <1>2, <1>3, <1>4

(* The order of a list from which n, right behind l, is taken.             *)
LEMMA NextWithout ==
  ASSUME NEW L \in SUBSET Nat, NIL \notin L, NEW l \in L \cup {NIL}, NEW n \in L, NextIn(L, l, n)
  PROVE  /\ \A x \in Nat : NextIn(L, n, x) => NextIn(L \ {n}, l, x)
         /\ \A k \in L \cup {NIL}, x \in Nat : k \notin {l, n} /\ NextIn(L, k, x) => NextIn(L \ {n}, k, x)
<1>1. n \in Nat /\ l \in Nat /\ NIL = 0 /\ n > l /\ \A k \in L : k \in Nat /\ (k > l => n <= k)
  BY DEF NextIn, NIL
<1>2. ASSUME NEW x \in Nat, NextIn(L, n, x) PROVE NextIn(L \ {n}, l, x)
  <2>1. CASE x \in L /\ x > n /\ \A k \in L : k > n => x <= k
    <3>1. x \in L \ {n} /\ x > l /\ \A k \in L \ {n} : k > l => x <= k
      BY <1>1, <2>1
    <3> QED BY <3>1 DEF NextIn
  <2>2. CASE x = NIL /\ \A k \in L : k <= n
    <3>1. \A k \in L \ {n} : k <= l
      BY <1>1, <2>2
    <3> QED BY <2>2, <3>1 DEF NextIn
  <2> QED BY <1>2, <2>1, <2>2 DEF NextIn
<1>3. ASSUME NEW k \in L \cup {NIL}, NEW x \in Nat, k \notin {l, n}, NextIn(L, k, x)
      PROVE  NextIn(L \ {n}, k, x)
  <2>1. CASE x \in L /\ x > k /\ \A j \in L : j > k => x <= j
    <3>1. x # n
      BY <1>1, <1>3, <2>1
    <3> QED BY <2>1, <3>1 DEF NextIn
  <2>2. CASE x = NIL /\ \A j \in L : j <= k
    BY <2>2 DEF NextIn
  <2> QED BY <1>3, <2>1, <2>2 DEF NextIn
<1> QED BY <1>2, <1>3

(* Unlinking and freeing node n, which comes right behind l.               *)
Unlinks(l, n) ==
  \/ /\ l = NIL
     /\ top' = node[n].next
     /\ node' = Free(n)
  \/ /\ l \in DOMAIN node
     /\ node' = Restrict(SetNext(l, node[n].next), DOMAIN node \ {n})
     /\ UNCHANGED top

LEMMA UnlinkNode ==
  ASSUME Types, Chained, Listed = DOMAIN node, NEW n \in DOMAIN node, NEW l \in DOMAIN node \cup {NIL},
         NextIn(DOMAIN node, l, n), Unlinks(l, n)
  PROVE  /\ DOMAIN node' = DOMAIN node \ {n}
         /\ \A k \in DOMAIN node' : node'[k].data = node[k].data
         /\ \A k \in DOMAIN node' : node'[k] \in [data : Binding, next : Nat]
         /\ node' = [k \in DOMAIN node' |-> node'[k]]
         /\ top' \in Nat
         /\ NextIn(DOMAIN node', NIL, top')
         /\ \A k \in DOMAIN node' : NextIn(DOMAIN node', k, node'[k].next)
<1>0. /\ l < n /\ l \in Nat /\ n \in Nat /\ NIL = 0 /\ NIL \notin DOMAIN node
      /\ \A k \in DOMAIN node : k \in Nat /\ k > NIL /\ (k > l => n <= k)
      /\ \A k \in DOMAIN node : node[k] \in [data : Binding, next : Nat]
  BY Shape DEF NextIn, Types
<1>1. /\ NextIn(DOMAIN node, NIL, top)
      /\ \A k \in DOMAIN node : NextIn(DOMAIN node, k, node[k].next)
  BY DEF Chained
<1>2. /\ NextIn(DOMAIN node \ {n}, l, node[n].next)
      /\ \A k \in DOMAIN node \cup {NIL}, x \in Nat :
           k \notin {l, n} /\ NextIn(DOMAIN node, k, x) => NextIn(DOMAIN node \ {n}, k, x)
  <2>1. DOMAIN node \in SUBSET Nat /\ node[n].next \in Nat
    <3>1. \A k \in DOMAIN node : k \in Nat
      BY <1>0
    <3>2. node[n].next \in Nat
      BY Shape
    <3> QED BY <3>1, <3>2
  <2>2. /\ \A x \in Nat : NextIn(DOMAIN node, n, x) => NextIn(DOMAIN node \ {n}, l, x)
        /\ \A k \in DOMAIN node \cup {NIL}, x \in Nat :
             k \notin {l, n} /\ NextIn(DOMAIN node, k, x) => NextIn(DOMAIN node \ {n}, k, x)
    BY <1>0, <2>1, NextWithout
  <2> QED BY <1>1, <2>1, <2>2
<1>3. CASE l = NIL
  <2>1. top' = node[n].next /\ node' = [k \in DOMAIN node \ {n} |-> node[k]]
    BY <1>0, <1>3 DEF Unlinks, Free, Restrict
  <2>2. ASSUME NEW k \in DOMAIN node \ {n} PROVE NextIn(DOMAIN node \ {n}, k, node[k].next)
    BY <1>0, <1>1, <1>2, <1>3
  <2> QED BY <1>0, <1>2, <1>3, <2>1, <2>2
<1>4. CASE l \in DOMAIN node
  <2>1. /\ top' = top
        /\ node' = [k \in DOMAIN node \ {n} |-> SetNext(l, node[n].next)[k]]
    BY <1>0, <1>4 DEF Unlinks, Restrict
  <2>2. /\ \A k \in DOMAIN node \ {n, l} : node'[k] = node[k]
        /\ node'[l] = [data |-> node[l].data, next |-> node[n].next]
        /\ DOMAIN node' = DOMAIN node \ {n}
    BY <1>0, <1>4, <2>1 DEF SetNext
  <2>3. NextIn(DOMAIN node \ {n}, NIL, top)
    BY <1>0, <1>1, <1>2, <1>4 DEF Types
  <2>4. ASSUME NEW k \in DOMAIN node \ {n, l} PROVE NextIn(DOMAIN node \ {n}, k, node[k].next)
    BY <1>0, <1>1, <1>2, <1>4
  <2>5. node' = [k \in DOMAIN node' |-> node'[k]]
    BY <2>1
  <2>6. top' \in Nat
    BY <2>1 DEF Types
  <2>7. ASSUME NEW k \in DOMAIN node' 
        PROVE  /\ node'[k].data = node[k].data
               /\ node'[k] \in [data : Binding, next : Nat]
               /\ NextIn(DOMAIN node', k, node'[k].next)
    <3>1. CASE k = l
      BY <1>0, <1>2, <1>4, <2>2, <3>1
    <3>2. CASE k # l
      BY <1>0, <2>2, <2>4, <3>2
    <3> QED BY <3>1, <3>2
  <2> QED BY <2>1, <2>2, <2>3, <2>5, <2>6, <2>7
<1> QED BY <1>3, <1>4

(* A call that only reads, and the end of a call.                          *)
LEMMA BeginInvariant ==
  ASSUME Inv, \/ \E b \in Binding : BeginUnbind(b)
              \/ \E w \in Widget : BeginDestroy(w)
  PROVE  Inv'
<1> USE DEF Inv
<1>0. Types /\ Chained
  OBVIOUS
<1>1. /\ call = Idle /\ call'.op # "ei_bind" /\ last' = NIL /\ curr' = top /\ before' = List
      /\ UNCHANGED <<top, node, registered, fault>>
  BY DEF BeginUnbind, BeginDestroy, Begin
<1>2. (\E b \in Binding : call' = [op |-> "ei_unbind", arg |-> b])
      \/ (\E w \in Widget : call' = [op |-> "destroy", arg |-> w])
  BY DEF BeginUnbind, BeginDestroy, Begin
<1>3. Listed' = Listed /\ Listed = DOMAIN node
  BY <1>1 DEF Listed, Idle
<1>4. before' = [n \in DOMAIN node |-> node[n].data]
  BY <1>0, <1>1, <1>3, ListIs
<1>5. Types'
  <2>1. DOMAIN before' \subseteq 1 .. registered'
    BY <1>0, <1>1, <1>4 DEF Types
  <2>2. before' = [n \in DOMAIN before' |-> before'[n]]
    BY <1>4
  <2> QED BY <1>0, <1>1, <1>2, <2>1, <2>2 DEF Types, NIL
<1>6. Chained' /\ NextIn(Listed', last', curr')
  BY <1>0, <1>1, <1>3 DEF Chained
<1>7. \A n \in DOMAIN node : ~ (n <= last')
  BY <1>0, <1>1, Shape
<1>8. UnbindInv'
  BY <1>1, <1>3, <1>4, <1>6, <1>7 DEF UnbindInv
<1>9. DestroyInv'
  <2>1. DOMAIN before' = DOMAIN node /\ \A n \in DOMAIN node : before'[n] = node[n].data
    BY <1>4
  <2>2. Gone' = {} /\ \A n \in Bound' : ~ (n <= last')
    BY <1>7, <2>1 DEF Gone, Bound
  <2>3. \A n \in Bound' : n > last'
    BY <1>0, <1>1, <2>1, Shape DEF Bound
  <2> QED BY <1>1, <1>3, <1>6, <2>1, <2>2, <2>3 DEF DestroyInv
<1> QED BY <1>1, <1>5, <1>6, <1>8, <1>9 DEF BindInv

LEMMA ReturnInvariant ==
  ASSUME Types, call.op # "ei_bind", Return, UNCHANGED <<registered, fault>>,
         DOMAIN node' \subseteq DOMAIN node,
         \A k \in DOMAIN node' : node'[k] \in [data : Binding, next : Nat],
         node' = [k \in DOMAIN node' |-> node'[k]], top' \in Nat,
         NextIn(DOMAIN node', NIL, top'),
         \A k \in DOMAIN node' : NextIn(DOMAIN node', k, node'[k].next)
  PROVE  Inv'
<1>1. call' = Idle /\ Listed' = DOMAIN node' /\ last' = NIL /\ curr' = NIL /\ before' = Empty
  BY DEF Return, Listed, Idle
<1>2. DOMAIN before' = {} /\ before' = [n \in {} |-> before'[n]]
  BY <1>1 DEF Empty
<1>3. DOMAIN node' \subseteq 1 .. registered'
  BY DEF Types
<1>4. Types'
  BY <1>1, <1>2, <1>3 DEF Types, NIL
<1>5. Chained'
  BY <1>1 DEF Chained
<1> QED BY <1>1, <1>4, <1>5 DEF Inv, BindInv, UnbindInv, DestroyInv, Idle

LEMMA UnbindInvariant ==
  ASSUME Inv, UnbindWalk \/ UnbindFound
  PROVE  Inv'
<1> USE DEF Inv
<1>0. Types /\ Chained /\ call.op = "ei_unbind" /\ curr # NIL /\ Listed = DOMAIN node
      /\ curr \in DOMAIN node /\ last \in DOMAIN node \cup {NIL} /\ NextIn(DOMAIN node, last, curr)
      /\ \A k \in DOMAIN node : k <= last => node[k].data # call.arg
      /\ before = [n \in DOMAIN node |-> node[n].data]
  BY DEF UnbindWalk, UnbindFound, UnbindInv, NextIn, Listed
<1>1. CASE UnbindWalk
  <2>1. /\ node[curr].data # call.arg /\ last' = curr /\ curr' = node[curr].next
        /\ UNCHANGED <<top, node, registered, call, fault, before>>
    BY <1>1 DEF UnbindWalk
  <2>2. Types' /\ Chained' /\ Listed' = Listed
    <3>1. last' \in Nat /\ curr' \in Nat
      BY <1>0, <2>1, Shape
    <3> QED BY <2>1, <3>1 DEF Types, Chained, Listed
  <2>3. NextIn(Listed', last', curr')
    BY <1>0, <2>1, <2>2 DEF Chained
  <2>4. \A k \in Listed' : k <= last' => node'[k].data # call'.arg
    BY <1>0, <2>1, <2>2, Shape DEF NextIn
  <2> QED BY <1>0, <2>1, <2>2, <2>3, <2>4 DEF BindInv, UnbindInv, DestroyInv
<1>2. CASE UnbindFound
  <2>1. Unlinks(last, curr) /\ Return /\ UNCHANGED <<registered, fault>>
    BY <1>0, <1>2 DEF UnbindFound, Unlinks
  <2> QED BY <1>0, <2>1, UnlinkNode, ReturnInvariant
<1> QED BY <1>1, <1>2

LEMMA DestroyInvariant ==
  ASSUME Inv, fault = "none", DestroyWalk \/ DestroyFound
  PROVE  Inv'
<1> USE DEF Inv
<1> DEFINE L == DOMAIN before
<1>0. /\ Types /\ Chained /\ call.op = "destroy" /\ curr # NIL /\ Listed = DOMAIN node
      /\ last \in L \cup {NIL} /\ NextIn(L, last, curr) /\ DOMAIN node = L \ Gone
      /\ \A n \in DOMAIN node : node[n].data = before[n]
      /\ \A m, n \in Bound : NextIn(L, m, n) => n > last
  BY DEF DestroyWalk, DestroyFound, DestroyInv, Listed
<1>1. /\ last \in Nat /\ curr \in Nat /\ curr \in L /\ curr > last /\ NIL = 0 /\ NIL \notin L
      /\ \A k \in L : k \in Nat /\ (k > last => curr <= k)
      /\ \A k \in DOMAIN node : node[k].next \in Nat
  BY <1>0, Shape DEF NextIn, Types
<1>2. curr \in DOMAIN node /\ \A k \in L : k > last => k \in DOMAIN node
  BY <1>0, <1>1 DEF Gone, Bound
<1>3. NextIn(DOMAIN node, curr, node[curr].next)
  BY <1>0, <1>2 DEF Chained
<1>4. NextIn(L, curr, node[curr].next)
  BY <1>0, <1>1, <1>2, <1>3 DEF NextIn
<1>5. CASE DestroyWalk
  <2>1. /\ node[curr].data.widget # call.arg /\ last' = curr /\ curr' = node[curr].next
        /\ UNCHANGED <<top, node, registered, call, fault, before>>
    BY <1>5 DEF DestroyWalk, Advance
  <2>2. Types' /\ Chained' /\ Listed' = Listed /\ Bound' = Bound
    <3>1. last' \in Nat /\ curr' \in Nat
      BY <1>1, <1>2, <2>1
    <3> QED BY <2>1, <3>1 DEF Types, Chained, Listed, Bound
  <2>3. curr \notin Bound
    BY <1>0, <1>2, <2>1 DEF Bound
  <2>4. Gone' = Gone
    BY <1>1, <2>1, <2>2, <2>3 DEF Gone, Bound
  <2>5. \A m, n \in Bound : NextIn(L, m, n) => n > curr
    BY <1>0, <1>1, <2>3 DEF Bound
  <2> QED BY <1>0, <1>1, <1>4, <2>1, <2>2, <2>4, <2>5 DEF BindInv, UnbindInv, DestroyInv
<1>6. CASE DestroyFound /\ fault' # fault
  <2>1. UNCHANGED <<top, node, last, curr, registered, call, before>> /\ fault' = "freed_predecessor"
    BY <1>6 DEF DestroyFound
  <2>2. Types' /\ Listed' = Listed
    BY <2>1 DEF Types, Listed
  <2> QED BY <2>1, <2>2 DEF Chained, BindInv, UnbindInv, DestroyInv, Bound, Gone
<1>7. CASE DestroyFound /\ fault' = fault
  <2>1. /\ node[curr].data.widget = call.arg /\ last' = curr /\ curr' = node[curr].next
        /\ UNCHANGED <<registered, call, fault, before>>
        /\ last \in DOMAIN node \cup {NIL} /\ Unlinks(last, curr)
    <3>1. /\ node[curr].data.widget = call.arg /\ UNCHANGED <<registered, call, fault, before>>
      BY <1>7 DEF DestroyFound
    <3>2. CASE last = NIL /\ top' = node[curr].next /\ node' = Free(curr) /\ Advance
      BY <3>1, <3>2 DEF Unlinks, Advance
    <3>3. CASE /\ last \in DOMAIN node /\ Advance
               /\ node' = Restrict(SetNext(last, node[curr].next), DOMAIN node \ {curr})
               /\ UNCHANGED <<top, fault>>
      BY <3>1, <3>3 DEF Unlinks, Advance
    <3>4. CASE fault' = "freed_predecessor" /\ last # NIL /\ last \notin DOMAIN node
               /\ UNCHANGED <<top, node, last, curr>>
      BY <3>1, <3>4
    <3> QED BY <1>7, <3>2, <3>3, <3>4 DEF DestroyFound
  <2>2. NextIn(DOMAIN node, last, curr)
    <3>1. \A k \in DOMAIN node : k \in L
      BY <1>0
    <3>2. curr > last /\ \A k \in DOMAIN node : k > last => curr <= k
      BY <1>1, <3>1
    <3> QED BY <1>2, <3>2 DEF NextIn
  <2>3. /\ DOMAIN node' = DOMAIN node \ {curr}
        /\ \A k \in DOMAIN node' : node'[k].data = node[k].data
        /\ \A k \in DOMAIN node' : node'[k] \in [data : Binding, next : Nat]
        /\ node' = [k \in DOMAIN node' |-> node'[k]]
        /\ top' \in Nat
        /\ NextIn(DOMAIN node', NIL, top')
        /\ \A k \in DOMAIN node' : NextIn(DOMAIN node', k, node'[k].next)
    BY <1>0, <1>2, <2>1, <2>2, UnlinkNode
  <2>4. Types'
    <3>1. last' \in Nat /\ curr' \in Nat
      BY <1>1, <1>2, <2>1
    <3> QED BY <1>0, <2>1, <2>3, <3>1 DEF Types
  <2>5. Listed' = DOMAIN node' /\ Chained'
    <3>1. Listed' = DOMAIN node'
      BY <1>0, <2>1 DEF Listed
    <3> QED BY <2>3, <3>1 DEF Chained
  <2>6. curr \in Bound /\ Bound' = Bound
    BY <1>0, <1>1, <1>2, <2>1 DEF Bound
  <2>7. Gone' = Gone \cup {curr}
    BY <1>1, <2>1, <2>6 DEF Gone, Bound
  <2>8. \A m, n \in Bound : NextIn(L, m, n) => n > curr
    <3> SUFFICES ASSUME NEW m \in Bound, NEW n \in Bound, NextIn(L, m, n), ~ (n > curr) PROVE FALSE
      OBVIOUS
    <3>1. n > last /\ m \in L /\ n \in L
      BY <1>0 DEF Bound
    <3>2. n = curr
      BY <1>1, <3>1
    <3>3. m < curr
      BY <1>1, <3>1, <3>2 DEF NextIn
    <3>4. m = last
      <4>1. m <= last
        BY <1>1, <3>1, <3>3
      <4>2. last \in L => ~ (last > m)
        BY <1>1, <3>1, <3>2 DEF NextIn
      <4>3. last # NIL
        BY <1>1, <3>1, <4>1, Shape
      <4> QED BY <1>0, <1>1, <3>1, <4>1, <4>2, <4>3
    <3>5. last \in Gone
      BY <1>1, <3>4 DEF Gone, Bound
    <3> QED BY <1>0, <1>1, <2>1, <3>1, <3>4, <3>5
  <2>9. \A n \in DOMAIN node' : node'[n].data = before'[n]
    BY <1>0, <2>1, <2>3
  <2> QED
    BY <1>0, <1>1, <1>4, <2>1, <2>3, <2>4, <2>5, <2>6, <2>7, <2>8, <2>9 DEF BindInv, UnbindInv, DestroyInv
<1> QED BY <1>5, <1>6, <1>7

LEMMA InvStep == Inv /\ [Next]_vars => Inv'
<1>1. Inv /\ UNCHANGED vars => Inv'
  <2> SUFFICES ASSUME Inv, UNCHANGED vars PROVE Inv'
    OBVIOUS
  <2>1. Listed' = Listed /\ Bound' = Bound /\ Gone' = Gone
    BY DEF vars, Listed, Bound, Gone
  <2> QED BY <2>1 DEF vars, Inv, Types, Chained, BindInv, UnbindInv, DestroyInv
<1>2. Inv /\ WalkEnds => Inv'
  <2> SUFFICES ASSUME Inv, WalkEnds PROVE Inv'
    OBVIOUS
  <2>1. Types /\ Chained /\ call.op # "ei_bind" /\ Return /\ UNCHANGED <<top, node, registered, fault>>
    BY DEF Inv, WalkEnds
  <2>2. Listed = DOMAIN node
    BY <2>1 DEF Listed
  <2> QED BY <2>1, <2>2, ReturnInvariant DEF Types, Chained
<1> QED
  BY <1>1, <1>2, BindInvariant, BeginInvariant, UnbindInvariant, DestroyInvariant DEF Next

-----------------------------------------------------------------------------
(* The steps of the walks, seen from the list of EventBinding.             *)
ListInv == List = [n \in Listed |-> node[n].data]

AbstractStep == [Abstract!Next]_(Abstract!bindingVars)

(* The list of EventBinding: the one in memory between calls, the one the  *)
(* call began with during a call.                                          *)
Bindings == IF call = Idle THEN List ELSE before
Registered == IF Pending THEN registered - 1 ELSE registered

LEMMA Stutters ==
  ASSUME Bindings' = Bindings, Registered' = Registered, UNCHANGED fault
  PROVE  AbstractStep
BY DEF Bindings, Registered, AbstractStep, Abstract!bindingVars

LEMMA Appends ==
  ASSUME NEW b \in Binding, ValidTarget(b), fault = "none", UNCHANGED fault,
         Registered \in Nat, Registered' = Registered + 1, Registered' <= MaxBind,
         DOMAIN Bindings \subseteq 1 .. Registered,
         Bindings' = [n \in DOMAIN Bindings \cup {Registered'} |->
                        IF n \in DOMAIN Bindings THEN Bindings[n] ELSE b]
  PROVE  AbstractStep
<1>1. {Registered + i : i \in DOMAIN <<b>>} = {Registered'} /\ Len(<<b>>) = 1
  OBVIOUS
<1>2. \A n \in {Registered'} : <<b>>[n - Registered] = b
  OBVIOUS
<1>3. Registered' \notin DOMAIN Bindings
  OBVIOUS
<1>4. Bindings' = [n \in DOMAIN Bindings \cup {Registered + i : i \in DOMAIN <<b>>} |->
                     IF n \in DOMAIN Bindings THEN Bindings[n] ELSE <<b>>[n - Registered]]
  BY <1>1, <1>2, <1>3
<1>5. Abstract!Register(<<b>>)
  BY <1>1, <1>4 DEF Abstract!Register, Abstract!Linked, Bindings, Registered
<1>6. Abstract!ei_bind(b)
  BY <1>5 DEF Abstract!ei_bind, Abstract!ValidTarget, ValidTarget
<1> QED BY <1>6 DEF AbstractStep, Abstract!Next, Abstract!Binding, Binding

LEMMA BindSimulates ==
  ASSUME Inv, Inv', ListInv, ListInv', fault = "none",
         \/ \E b \in Binding : BindFirst(b) \/ BeginBind(b)
         \/ BindWalk \/ BindLink
  PROVE  AbstractStep
<1>0. Types /\ Types' /\ List = [n \in Listed |-> node[n].data] /\ List' = [n \in Listed' |-> node'[n].data]
  BY DEF Inv, ListInv
<1>1. ASSUME NEW b \in Binding, BindFirst(b) PROVE AbstractStep
  <2>1. call = Idle /\ call' = Idle /\ Malloc(b) /\ ValidTarget(b) /\ UNCHANGED fault
    BY <1>1 DEF BindFirst, Malloc
  <2>2. /\ registered' = registered + 1 /\ registered' \in 0 .. MaxBind
        /\ DOMAIN node' = DOMAIN node \cup {registered'}
        /\ node'[registered'] = [data |-> b, next |-> NIL]
        /\ \A n \in DOMAIN node : node'[n] = node[n]
    BY <1>0, <2>1, MallocList
  <2>3. Bindings = [n \in DOMAIN node |-> node[n].data] /\ Bindings' = [n \in DOMAIN node' |-> node'[n].data]
        /\ Registered = registered /\ Registered' = registered'
    BY <1>0, <2>1 DEF Bindings, Registered, Pending, Listed, Idle
  <2>4. Bindings' = [n \in DOMAIN Bindings \cup {Registered'} |->
                       IF n \in DOMAIN Bindings THEN Bindings[n] ELSE b]
    BY <2>2, <2>3
  <2>5. DOMAIN Bindings \subseteq 1 .. Registered
    BY <1>0, <2>3 DEF Types
  <2> QED BY <1>0, <2>1, <2>2, <2>3, <2>4, <2>5, Appends, Shape
<1>2. ASSUME NEW b \in Binding, BeginBind(b) PROVE AbstractStep
  <2>1. call = Idle /\ call' = [op |-> "ei_bind", arg |-> registered'] /\ before' = List
        /\ Malloc(b) /\ UNCHANGED fault
    BY <1>2 DEF BeginBind, Begin
  <2>2. registered' = registered + 1
    BY <2>1 DEF Malloc
  <2> QED BY <1>0, <2>1, <2>2, Shape, Stutters DEF Bindings, Registered, Pending, Idle
<1>3. CASE BindWalk
  BY <1>3, Stutters DEF BindWalk, Bindings, Registered, Pending, Idle
<1>4. CASE BindLink
  <2>1. /\ call.op = "ei_bind" /\ call.arg = registered /\ call' = Idle /\ UNCHANGED <<registered, fault>>
        /\ node' = [node EXCEPT ![curr].next = registered]
        /\ before = [n \in Listed |-> node[n].data] /\ curr \in Listed
        /\ ValidTarget(node[registered].data)
        /\ Listed = DOMAIN node \ {registered} /\ registered \in DOMAIN node
    BY <1>0, <1>4, Shape DEF BindLink, SetNext, Return, Inv, BindInv
  <2>2. DOMAIN node' = DOMAIN node /\ \A n \in DOMAIN node : node'[n].data = node[n].data
    BY <2>1
  <2>3. Listed' = DOMAIN node
    BY <2>1, <2>2 DEF Listed, Idle
  <2>4. /\ Bindings = [n \in DOMAIN node \ {registered} |-> node[n].data]
        /\ Bindings' = [n \in DOMAIN node |-> node[n].data]
        /\ Registered = registered - 1 /\ Registered' = registered
    BY <1>0, <2>1, <2>2, <2>3 DEF Bindings, Registered, Pending, Idle
  <2>5. registered \in Nat /\ registered > 0 /\ registered <= MaxBind /\ node[registered].data \in Binding
    BY <1>0, <2>1, Shape
  <2>6. DOMAIN Bindings \subseteq 1 .. Registered
    <3>1. \A n \in DOMAIN node \ {registered} : n \in 1 .. (registered - 1)
      BY <1>0, <2>5, Shape
    <3> QED BY <2>4, <3>1
  <2>7. Bindings' = [n \in DOMAIN Bindings \cup {Registered'} |->
                       IF n \in DOMAIN Bindings THEN Bindings[n] ELSE node[registered].data]
    BY <2>1, <2>4
  <2>8. Registered \in Nat /\ Registered' = Registered + 1 /\ Registered' <= MaxBind
    BY <2>4, <2>5
  <2> QED BY <2>1, <2>5, <2>6, <2>7, <2>8, Appends
<1> QED BY <1>1, <1>2, <1>3, <1>4

LEMMA UnbindSimulates ==
  ASSUME Inv, Inv', ListInv, ListInv', fault = "none",
         \/ \E b \in Binding : BeginUnbind(b)
         \/ UnbindWalk \/ UnbindFound
  PROVE  AbstractStep
<1>0. Types /\ Types' /\ List = [n \in Listed |-> node[n].data] /\ List' = [n \in Listed' |-> node'[n].data]
  BY DEF Inv, ListInv
<1>1. ASSUME NEW b \in Binding, BeginUnbind(b) PROVE AbstractStep
  BY <1>1, Stutters DEF BeginUnbind, Begin, Bindings, Registered, Pending, Idle
<1>2. CASE UnbindWalk
  BY <1>2, Stutters DEF UnbindWalk, Bindings, Registered, Pending, Idle
<1>3. CASE UnbindFound
  <2>1. /\ call.op = "ei_unbind" /\ call.arg \in Binding /\ curr # NIL /\ node[curr].data = call.arg
        /\ call' = Idle /\ UNCHANGED <<registered, fault>> /\ Listed = DOMAIN node
        /\ before = [n \in DOMAIN node |-> node[n].data]
        /\ last \in DOMAIN node \cup {NIL} /\ NextIn(DOMAIN node, last, curr)
        /\ \A k \in DOMAIN node : k <= last => node[k].data # call.arg
        /\ Unlinks(last, curr) /\ Chained
    <3>1. call.op = "ei_unbind" => call.arg \in Binding
      BY <1>0 DEF Types, Idle
    <3> QED BY <1>0, <1>3, <3>1 DEF UnbindFound, Return, Inv, UnbindInv, Unlinks, Listed
  <2>2. curr \in DOMAIN node
    BY <2>1 DEF NextIn
  <2>3. DOMAIN node' = DOMAIN node \ {curr} /\ \A k \in DOMAIN node' : node'[k].data = node[k].data
    BY <1>0, <2>1, <2>2, UnlinkNode
  <2>4. Bindings = before /\ Bindings' = [n \in DOMAIN node \ {curr} |-> node[n].data]
        /\ Registered' = registered /\ Registered = registered
    BY <1>0, <2>1, <2>3 DEF Bindings, Registered, Pending, Listed, Idle
  <2>5. \A k \in DOMAIN node : node[k].data = call.arg => curr <= k
    BY <1>0, <2>1, <2>2, Shape DEF NextIn
  <2>6. Bindings' = Restrict(Bindings, DOMAIN Bindings \ {curr})
    BY <2>1, <2>4 DEF Restrict
  <2>7. Abstract!ei_unbind(call.arg)
    <3>1. Abstract!Unlink({curr})
      BY <2>6 DEF Abstract!Unlink, Abstract!Linked, Bindings, Abstract!Restrict, Restrict
    <3>2. Abstract!Matching(call.arg) = {k \in DOMAIN Bindings : Bindings[k] = call.arg}
      BY DEF Abstract!Matching, Abstract!Linked, Bindings
    <3>3. curr \in Abstract!Matching(call.arg) /\ \A k \in Abstract!Matching(call.arg) : curr <= k
      BY <2>1, <2>2, <2>4, <2>5, <3>2
    <3> QED BY <2>1, <2>4, <3>1, <3>3 DEF Abstract!ei_unbind, Registered
  <2> QED BY <2>1, <2>7 DEF AbstractStep, Abstract!Next, Abstract!Binding, Binding
<1> QED BY <1>1, <1>2, <1>3

LEMMA DestroySimulates ==
  ASSUME Inv, Inv', ListInv, ListInv', fault = "none",
         \/ \E w \in Widget : BeginDestroy(w)
         \/ DestroyWalk \/ DestroyFound \/ WalkEnds
  PROVE  AbstractStep
<1>0. Types /\ Types' /\ List = [n \in Listed |-> node[n].data] /\ List' = [n \in Listed' |-> node'[n].data]
  BY DEF Inv, ListInv
<1>1. ASSUME NEW w \in Widget, BeginDestroy(w) PROVE AbstractStep
  BY <1>1, Stutters DEF BeginDestroy, Begin, Bindings, Registered, Pending, Idle
<1>2. CASE DestroyWalk \/ (DestroyFound /\ fault' = fault)
  BY <1>2, Stutters DEF DestroyWalk, DestroyFound, Bindings, Registered, Pending, Idle
<1>3. call.op = "destroy" =>
        /\ call.arg \in Widget /\ Bindings = before /\ DestroyInv
        /\ Registered = registered
        /\ Abstract!BoundTo(call.arg) = Bound
        /\ Abstract!Adjacent(call.arg) <=> \E m, n \in Bound : n > m /\ \A k \in DOMAIN before : k > m => n <= k
  <2>1. call.op = "destroy" => call.arg \in Widget /\ Bindings = before /\ DestroyInv /\ Registered = registered
    BY <1>0 DEF Types, Idle, Bindings, Registered, Pending, Inv
  <2>2. Abstract!BoundTo(call.arg) = {k \in DOMAIN Bindings : Bindings[k].widget = call.arg}
    BY DEF Abstract!BoundTo, Abstract!Linked, Bindings
  <2>3. \A m, n : Abstract!Follows(m, n) <=> n \in DOMAIN Bindings /\ n > m
                                             /\ \A k \in DOMAIN Bindings : k > m => n <= k
    BY DEF Abstract!Follows, Abstract!Linked, Bindings
  <2> QED BY <2>1, <2>2, <2>3 DEF Abstract!Adjacent, Bound
<1>4. CASE DestroyFound /\ fault' # fault
  <2>1. /\ call.op = "destroy" /\ curr # NIL /\ node[curr].data.widget = call.arg
        /\ last # NIL /\ last \notin DOMAIN node /\ fault' = "freed_predecessor"
        /\ UNCHANGED <<registered, call, before>>
    BY <1>4 DEF DestroyFound
  <2>2. last \in Bound /\ curr \in Bound /\ curr > last /\ \A k \in DOMAIN before : k > last => curr <= k
    BY <1>0, <1>3, <2>1, Shape DEF DestroyInv, NextIn, Gone, Bound
  <2>3. Abstract!Adjacent(call.arg)
    BY <1>3, <2>1, <2>2
  <2>4. Bindings' = Bindings /\ Registered' = Registered
    BY <2>1 DEF Bindings, Registered, Pending, Idle
  <2>5. Abstract!destroy_event_binded_to_widget(call.arg)
    BY <2>1, <2>3, <2>4 DEF Abstract!destroy_event_binded_to_widget, Bindings, Registered
  <2> QED BY <1>3, <2>1, <2>5 DEF AbstractStep, Abstract!Next
<1>5. CASE WalkEnds /\ call.op = "ei_unbind"
  <2>1. /\ call' = Idle /\ UNCHANGED <<node, registered, fault>> /\ Listed = DOMAIN node
        /\ before = [n \in Listed |-> node[n].data]
    BY <1>5 DEF WalkEnds, Return, Inv, UnbindInv, Listed
  <2>2. List' = before
    BY <1>0, <2>1 DEF Listed, Idle
  <2> QED BY <1>5, <2>1, <2>2, Stutters DEF Bindings, Registered, Pending, Idle
<1>6. CASE WalkEnds /\ call.op = "destroy"
  <2>1. /\ call' = Idle /\ curr = NIL /\ UNCHANGED <<node, registered, fault>>
    BY <1>6 DEF WalkEnds, Return
  <2>2. \A k \in DOMAIN before : k <= last
    BY <1>0, <1>3, <1>6, <2>1, Shape DEF DestroyInv, NextIn
  <2>3. Gone = Bound
    BY <2>2 DEF Gone, Bound
  <2>4. ~ \E m, n \in Bound : n > m /\ \A k \in DOMAIN before : k > m => n <= k
    <3> SUFFICES ASSUME NEW m \in Bound, NEW n \in Bound, n > m, \A k \in DOMAIN before : k > m => n <= k
                 PROVE  FALSE
      OBVIOUS
    <3>1. NextIn(DOMAIN before, m, n)
      BY DEF NextIn, Bound
    <3>2. n > last /\ n <= last
      BY <1>3, <1>6, <2>2, <3>1 DEF DestroyInv, Bound
    <3>3. n \in Nat /\ last \in Nat
      BY <1>0, Shape DEF Bound, Types
    <3> QED BY <3>2, <3>3
  <2>5. Bindings' = [n \in DOMAIN before \ Bound |-> before[n]]
    <3>1. List' = [n \in DOMAIN node |-> node[n].data]
      BY <1>0, <2>1 DEF Listed, Idle
    <3>2. DOMAIN node = DOMAIN before \ Bound /\ \A n \in DOMAIN node : node[n].data = before[n]
      BY <1>3, <1>6, <2>3 DEF DestroyInv
    <3> QED BY <2>1, <3>1, <3>2 DEF Bindings
  <2>6. Abstract!Unlink(Bound)
    BY <1>3, <1>6, <2>5 DEF Abstract!Unlink, Abstract!Linked, Abstract!Restrict, Bindings
  <2>7. Registered' = Registered
    BY <1>6, <2>1 DEF Registered, Pending, Idle
  <2>8. Abstract!destroy_event_binded_to_widget(call.arg)
    BY <1>3, <1>6, <2>1, <2>4, <2>6, <2>7 DEF Abstract!destroy_event_binded_to_widget, Registered
  <2> QED BY <1>3, <1>6, <2>8 DEF AbstractStep, Abstract!Next
<1> QED BY <1>1, <1>2, <1>4, <1>5, <1>6 DEF WalkEnds

LEMMA Simulates ==
  ASSUME Inv, Inv', ListInv, ListInv', [Next]_vars
  PROVE  AbstractStep
<1>1. CASE UNCHANGED vars
  <2>1. Listed' = Listed
    BY <1>1 DEF vars, Listed
  <2> QED BY <1>1, <2>1, Stutters DEF vars, ListInv, Bindings, Registered, Pending
<1>2. CASE Next
  BY <1>2, BindSimulates, UnbindSimulates, DestroySimulates DEF Next
<1> QED BY <1>1, <1>2

LEMMA InitSimulates == Init => Abstract!Init
<1> SUFFICES ASSUME Init PROVE Abstract!Init
  OBVIOUS
<1>1. Types /\ Chained /\ Listed = {}
  BY InitInv DEF Init, Inv, Listed, Empty
<1>2. List = [n \in {} |-> NULL]
  BY <1>1, ListIs
<1> QED BY <1>2 DEF Init, Abstract!Init, Pending, Idle

(* Every sequence of calls of ei_bind, ei_unbind and                       *)
(* destroy_event_binded_to_widget, walked node by node over any list of    *)
(* bindings, is a behaviour of the ordered list of EventBinding.           *)
THEOREM ListImplemented == Spec => ImplementsList
<1>1. Init => Inv /\ Abstract!Init
  BY InitInv, InitSimulates
<1>2. Inv => ListInv
  BY ListIs DEF Inv, ListInv
<1>3. Inv /\ Inv' /\ ListInv /\ ListInv' /\ [Next]_vars => [Abstract!Next]_(Abstract!bindingVars)
  BY Simulates DEF AbstractStep
<1> QED BY <1>1, <1>2, <1>3, InvStep, PTL DEF Spec, ImplementsList, Abstract!Spec

(* Between two calls every node that is allocated can be reached from the  *)
(* top of the list, so that no call loses a binding or leaves one behind.  *)
THEOREM NothingIsLeaked == Spec => []NothingLeaked
<1>1. Inv => NothingLeaked
  <2> SUFFICES ASSUME Inv, call = Idle PROVE DOMAIN node = ChainFrom(top)
    BY DEF NothingLeaked
  <2>1. Listed = DOMAIN node
    BY DEF Listed, Idle
  <2> QED BY <2>1, ChainIsListed DEF Inv
<1> QED BY <1>1, InitInv, InvStep, PTL DEF Spec

(* Whatever was unbound or destroyed in between, following next from the   *)
(* top meets the bindings in the order in which ei_bind made them.         *)
THEOREM OrderIsRegistration == Spec => []RegistrationOrder
<1>1. Inv => RegistrationOrder
  <2> SUFFICES ASSUME Inv, NEW n \in ChainFrom(top), node[n].next # NIL PROVE node[n].next > n
    BY DEF RegistrationOrder
  <2>1. n \in Listed
    BY ChainIsListed DEF Inv
  <2> QED BY <2>1 DEF Inv, Chained, NextIn
<1> QED BY <1>1, InitInv, InvStep, PTL DEF Spec

=============================================================================
