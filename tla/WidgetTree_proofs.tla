------------------------- MODULE WidgetTree_proofs --------------------------
(***************************************************************************)
(* Proofs about WidgetTree, for any widgets and toplevels.                 *)
(*                                                                         *)
(* The children of a widget are in the order of a number each widget is    *)
(* given, here called its place: the first child has the lowest, the last  *)
(* child the highest, and next_sibling leads to the next higher one.       *)
(* Nothing in the program holds these numbers; the proofs say that there   *)
(* are some after every call.                                              *)
(***************************************************************************)
EXTENDS WidgetTree, WellFoundedInduction, TLAPS

NatLess == {p \in Nat \X Nat : p[1] < p[2]}

(* A set of naturals that is not empty has a least element.                *)
LEMMA Smallest ==
  ASSUME NEW S \in SUBSET Nat, S # {}
  PROVE  \E n \in S : \A m \in S : n <= m
<1>1. IsWellFoundedOn(NatLess, Nat)
  BY NatLessThanWellFounded DEF NatLess, OpToRel
<1>2. PICK n \in S : \A m \in S : ~ (<<m, n>> \in NatLess)
  BY <1>1, WFMin
<1>3. \A n_1, m \in Nat : <<m, n_1>> \in NatLess <=> m < n_1
  BY DEF NatLess
<1>4. \A m \in S : ~ (m < n)
  BY <1>2, <1>3
<1> QED BY <1>4

-----------------------------------------------------------------------------
Pointer == [Widget -> Widget \cup {NULL}]
Links == [head : Pointer, tail : Pointer, next : Pointer]
Places == [Widget -> Int]

-----------------------------------------------------------------------------
(* What pointers reach: the least set that has n and is closed.            *)
Closed(S, n, fs) ==
  /\ S \subseteq Widget
  /\ n \in S \cup {NULL}
  /\ \A c \in S, f \in fs : f[c] \in S \cup {NULL}

LEMMA ReachedIs ==
  ASSUME NEW n \in Widget \cup {NULL}, NEW fs \in SUBSET Pointer
  PROVE  /\ Closed(Reached(n, fs), n, fs)
         /\ \A S : Closed(S, n, fs) => Reached(n, fs) \subseteq S
<1> DEFINE near == ({n} \cup UNION {{f[c] : c \in Widget} : f \in fs}) \ {NULL}
           closed == {S \in SUBSET near : /\ n \in S \cup {NULL}
                                          /\ \A c \in S, f \in fs : f[c] \in S \cup {NULL}}
           R == {c \in near : \A S \in closed : c \in S}
<1>1. Reached(n, fs) = R
  BY DEF Reached
<1>2. \A f \in fs, c \in Widget : f[c] \in Widget \cup {NULL} /\ f[c] \in near \cup {NULL}
  BY DEF Pointer
<1>3. near \subseteq Widget /\ n \in near \cup {NULL}
  BY DEF Pointer
<1> HIDE DEF near
<1>4. near \in closed
  BY <1>2, <1>3
<1>5. R \subseteq near
  OBVIOUS
<1>6. n \in R \cup {NULL}
  BY <1>3
<1>7. \A c \in R, f \in fs : f[c] \in R \cup {NULL}
  <2> SUFFICES ASSUME NEW c \in R, NEW f \in fs, f[c] # NULL PROVE f[c] \in R
    OBVIOUS
  <2>1. f[c] \in near
    BY <1>2, <1>3
  <2>2. \A S \in closed : f[c] \in S
    OBVIOUS
  <2> QED BY <2>1, <2>2
<1>8. ASSUME NEW S, Closed(S, n, fs) PROVE R \subseteq S
  <2>1. S \cap near \in closed
    BY <1>2, <1>3, <1>8 DEF Closed
  <2> QED BY <2>1
<1> HIDE DEF R
<1> QED BY <1>1, <1>3, <1>5, <1>6, <1>7, <1>8 DEF Closed

(* From n one reaches n, and what its pointer reaches.                     *)
LEMMA ReachedStep ==
  ASSUME NEW n \in Widget, NEW f \in Pointer
  PROVE  Reached(n, {f}) = {n} \cup Reached(f[n], {f})
<1> DEFINE R == Reached(n, {f})
           T == Reached(f[n], {f})
<1>1. f[n] \in Widget \cup {NULL}
  BY DEF Pointer
<1>2. /\ Closed(R, n, {f}) /\ Closed(T, f[n], {f})
      /\ \A S : Closed(S, n, {f}) => R \subseteq S
      /\ \A S : Closed(S, f[n], {f}) => T \subseteq S
  BY <1>1, ReachedIs
<1> HIDE DEF R, T
<1>3. Closed({n} \cup T, n, {f})
  BY <1>2 DEF Closed
<1>4. n \in R
  BY <1>2, NullAssumption DEF Closed
<1>5. Closed(R, f[n], {f})
  BY <1>2, <1>4 DEF Closed
<1> QED BY <1>2, <1>3, <1>4, <1>5 DEF R, T

(* What is reached does not depend on the pointers elsewhere.              *)
LEMMA ReachedSame ==
  ASSUME NEW n \in Widget \cup {NULL}, NEW f \in Pointer, NEW g \in Pointer,
         \A c \in Reached(n, {f}) : g[c] = f[c]
  PROVE  Reached(n, {g}) = Reached(n, {f})
<1> DEFINE R == Reached(n, {f})
           T == Reached(n, {g})
<1>1. /\ Closed(R, n, {f}) /\ Closed(T, n, {g})
      /\ \A S : Closed(S, n, {f}) => R \subseteq S
      /\ \A S : Closed(S, n, {g}) => T \subseteq S
  BY ReachedIs
<1> HIDE DEF T
<1>2. Closed(R, n, {g})
  BY <1>1 DEF Closed
<1>3. T \subseteq R
  BY <1>1, <1>2
<1>4. Closed(T, n, {f})
  BY <1>1, <1>3 DEF Closed
<1> QED BY <1>1, <1>3, <1>4 DEF T

LEMMA ReachedNull ==
  ASSUME NEW fs \in SUBSET Pointer
  PROVE  Reached(NULL, fs) = {}
<1>1. Closed({}, NULL, fs)
  BY DEF Closed
<1> QED BY <1>1, ReachedIs


-----------------------------------------------------------------------------
(* The children K of p, in the order of their places.                      *)
Sorted(L, K, p, at) ==
  /\ K = {} => L.head[p] = NULL /\ L.tail[p] = NULL
  /\ K # {} => L.head[p] \in K /\ L.tail[p] \in K
  /\ \A c \in K : at[L.head[p]] <= at[c] /\ at[c] <= at[L.tail[p]]
  /\ \A c \in K : L.next[c] # NULL => L.next[c] \in K /\ at[c] < at[L.next[c]]
  /\ \A c, d \in K : at[c] < at[d] => L.next[c] # NULL /\ at[L.next[c]] <= at[d]
  /\ \A c, d \in K : at[c] = at[d] => c = d

(* Of the elements of a set with places up to a bound, one is the nearest. *)
LEMMA Nearest ==
  ASSUME NEW at \in Places, NEW K \in SUBSET Widget, NEW e \in Int,
         \E d \in K : at[d] <= e
  PROVE  \E d \in K : at[d] <= e /\ \A c \in K : at[c] <= e => at[c] <= at[d]
<1> DEFINE far == {e - at[d] : d \in {c \in K : at[c] <= e}}
<1>1. \A d \in K : at[d] \in Int
  BY DEF Places
<1>2. far \in SUBSET Nat /\ far # {}
  <2>1. \A d \in K : at[d] <= e => e - at[d] \in Nat
    BY <1>1
  <2>2. PICK d \in K : at[d] <= e
    OBVIOUS
  <2>3. e - at[d] \in far
    BY <2>2
  <2> QED BY <2>1, <2>3
<1>3. PICK m \in far : \A n \in far : m <= n
  <2> HIDE DEF far
  <2> QED BY <1>2, Smallest
<1>4. PICK d \in K : at[d] <= e /\ m = e - at[d]
  BY <1>3
<1>5. ASSUME NEW c \in K, at[c] <= e PROVE at[c] <= at[d]
  <2>1. e - at[c] \in far
    BY <1>5
  <2>2. e - at[d] <= e - at[c]
    BY <1>3, <1>4, <2>1
  <2> QED BY <1>1, <2>2
<1> QED BY <1>4, <1>5

LEMMA SortedReach ==
  ASSUME NEW L \in Links, NEW K \in SUBSET Widget, NEW p \in Widget, NEW at \in Places,
         Sorted(L, K, p, at), NEW c \in K
  PROVE  SiblingsFrom(L, c) = {d \in K : at[c] <= at[d]}
<1> DEFINE R == SiblingsFrom(L, c)
           A == {d \in K : at[c] <= at[d]}
<1>1. L.next \in Pointer /\ NULL \notin K /\ \A d \in K : at[d] \in Int
  BY NullAssumption DEF Links, Places
<1>2. Closed(R, c, {L.next}) /\ \A S : Closed(S, c, {L.next}) => R \subseteq S
  BY <1>1, ReachedIs DEF SiblingsFrom
<1>3. Closed(A, c, {L.next})
  <2>1. ASSUME NEW d \in A PROVE L.next[d] \in A \cup {NULL}
    BY <1>1 DEF Sorted
  <2> QED BY <1>1, <2>1 DEF Closed
<1>4. R \subseteq A
  BY <1>2, <1>3
<1> HIDE DEF R
<1>5. ASSUME NEW e \in K, at[c] <= at[e], e \notin R PROVE FALSE
  <2>1. c \in R /\ R \subseteq K
    BY <1>1, <1>2, <1>4 DEF Closed
  <2>2. PICK d \in R : at[d] <= at[e] /\ \A x \in R : at[x] <= at[e] => at[x] <= at[d]
    <3>1. \E x \in R : at[x] <= at[e]
      BY <1>5, <2>1
    <3> QED BY <1>1, <2>1, <3>1, Nearest
  <2>3. at[d] < at[e]
    BY <1>1, <1>5, <2>1, <2>2 DEF Sorted
  <2>4. L.next[d] # NULL /\ at[L.next[d]] <= at[e] /\ at[d] < at[L.next[d]] /\ L.next[d] \in K
    BY <1>5, <2>1, <2>3 DEF Sorted
  <2>5. L.next[d] \in R
    BY <1>2, <2>4 DEF Closed
  <2>6. at[L.next[d]] <= at[d]
    BY <2>2, <2>4, <2>5
  <2> QED BY <1>1, <2>1, <2>4, <2>6
<1> QED BY <1>4, <1>5 DEF R

(* What WellLinked says of the children of one widget.                     *)
LEMMA SortedChildren ==
  ASSUME NEW L \in Links, NEW K \in SUBSET Widget, NEW p \in Widget, NEW at \in Places,
         Sorted(L, K, p, at)
  PROVE  /\ Children(L, p) = K
         /\ \A c \in K : c \notin SiblingsFrom(L, L.next[c])
         /\ K # {} => L.next[L.tail[p]] = NULL
         /\ \A c \in K : L.next[c] = NULL => c = L.tail[p]
<1>1. L.next \in Pointer /\ NULL \notin K /\ \A d \in K : at[d] \in Int
  BY NullAssumption DEF Links, Places
<1>2. Children(L, p) = K
  <2>1. CASE K = {}
    BY <1>1, <2>1, ReachedNull DEF Sorted, Children, SiblingsFrom
  <2>2. CASE K # {}
    <3>1. SiblingsFrom(L, L.head[p]) = {d \in K : at[L.head[p]] <= at[d]}
      <4>1. L.head[p] \in K
        BY <2>2 DEF Sorted
      <4> QED BY <4>1, SortedReach
    <3> QED BY <2>2, <3>1 DEF Sorted, Children
  <2> QED BY <2>1, <2>2
<1>3. ASSUME NEW c \in K PROVE c \notin SiblingsFrom(L, L.next[c])
  <2>1. CASE L.next[c] = NULL
    BY <1>1, <2>1, ReachedNull DEF SiblingsFrom
  <2>2. CASE L.next[c] # NULL
    <3>1. L.next[c] \in K /\ at[c] < at[L.next[c]]
      BY <2>2 DEF Sorted
    <3>2. SiblingsFrom(L, L.next[c]) = {d \in K : at[L.next[c]] <= at[d]}
      BY <3>1, SortedReach
    <3> QED BY <1>1, <3>1, <3>2
  <2> QED BY <2>1, <2>2
<1>4. K # {} => L.next[L.tail[p]] = NULL
  <2> SUFFICES ASSUME K # {}, L.next[L.tail[p]] # NULL PROVE FALSE
    OBVIOUS
  <2>1. L.tail[p] \in K /\ L.next[L.tail[p]] \in K
    BY DEF Sorted
  <2>2. at[L.tail[p]] < at[L.next[L.tail[p]]] /\ at[L.next[L.tail[p]]] <= at[L.tail[p]]
    BY <2>1 DEF Sorted
  <2> QED BY <1>1, <2>1, <2>2
<1>5. ASSUME NEW c \in K, L.next[c] = NULL PROVE c = L.tail[p]
  <2>1. L.tail[p] \in K /\ at[c] <= at[L.tail[p]]
    BY DEF Sorted
  <2>2. ~(at[c] < at[L.tail[p]])
    BY <1>5, <2>1 DEF Sorted
  <2>3. at[c] = at[L.tail[p]]
    BY <1>1, <2>1, <2>2
  <2> QED BY <2>1, <2>3 DEF Sorted
<1> QED BY <1>2, <1>3, <1>4, <1>5

(* The child before another one.                                           *)
LEMMA BeforeIs ==
  ASSUME NEW L \in Links, NEW K \in SUBSET Widget, NEW p \in Widget, NEW at \in Places,
         Sorted(L, K, p, at), NEW w \in K, w # L.head[p]
  PROVE  Before(L, p, w) \in K /\ L.next[Before(L, p, w)] = w
<1>1. L.next \in Pointer /\ NULL \notin K /\ \A d \in K : at[d] \in Int
  BY NullAssumption DEF Links, Places
<1>2. L.head[p] \in K /\ at[L.head[p]] < at[w]
  <2>1. L.head[p] \in K /\ at[L.head[p]] <= at[w] /\ at[L.head[p]] # at[w]
    BY DEF Sorted
  <2> QED BY <1>1, <2>1
<1> DEFINE B == {c \in K : at[c] < at[w]}
<1>3. PICK d \in B : \A x \in B : at[x] <= at[d]
  <2>1. \E x \in B : at[x] <= at[w]
    BY <1>1, <1>2
  <2>2. PICK d \in B : at[d] <= at[w] /\ \A x \in B : at[x] <= at[w] => at[x] <= at[d]
    <3>1. B \in SUBSET Widget /\ at[w] \in Int
      BY <1>1
    <3> HIDE DEF B
    <3> QED BY <2>1, <3>1, Nearest
  <2>3. \A x \in B : at[x] <= at[w]
    BY <1>1
  <2> QED BY <2>2, <2>3
<1>4. L.next[d] # NULL /\ at[L.next[d]] <= at[w] /\ at[d] < at[L.next[d]] /\ L.next[d] \in K
  BY <1>3 DEF Sorted
<1>5. ~(at[L.next[d]] < at[w])
  <2> SUFFICES ASSUME at[L.next[d]] < at[w] PROVE FALSE
    OBVIOUS
  <2>1. at[L.next[d]] <= at[d]
    BY <1>3, <1>4
  <2> QED BY <1>1, <1>3, <1>4, <2>1
<1>6. L.next[d] = w
  BY <1>1, <1>4, <1>5 DEF Sorted
<1>7. Children(L, p) = K
  BY SortedChildren
<1> QED BY <1>3, <1>6, <1>7 DEF Before


-----------------------------------------------------------------------------
(* Children that come and go.                                              *)

(* The order of one widget's children does not depend on other pointers.   *)
LEMMA SortedSame ==
  ASSUME NEW L, NEW M, NEW K, NEW q, NEW at, NEW bt, Sorted(L, K, q, at),
         M.head[q] = L.head[q], M.tail[q] = L.tail[q],
         \A c \in K : M.next[c] = L.next[c] /\ bt[c] = at[c]
  PROVE  Sorted(M, K, q, bt)
<1>1. CASE K = {}
  BY <1>1 DEF Sorted
<1>2. CASE K # {}
  <2>1. L.head[q] \in K /\ L.tail[q] \in K
    BY <1>2 DEF Sorted
  <2>2. \A c \in K : M.next[c] # NULL => M.next[c] \in K /\ bt[c] < bt[M.next[c]]
    BY DEF Sorted
  <2>3. \A c, d \in K : bt[c] < bt[d] => M.next[c] # NULL /\ bt[M.next[c]] <= bt[d]
    BY DEF Sorted
  <2>4. \A c \in K : bt[M.head[q]] <= bt[c] /\ bt[c] <= bt[M.tail[q]]
    BY <2>1 DEF Sorted
  <2>5. \A c, d \in K : bt[c] = bt[d] => c = d
    BY DEF Sorted
  <2> QED BY <1>2, <2>1, <2>2, <2>3, <2>4, <2>5 DEF Sorted
<1> QED BY <1>1, <1>2

(* What a list of children becomes with w in it: pointers and places of    *)
(* the others stay, but for the next sibling of a child of p, and for      *)
(* places above that of w, which keep their order.                         *)
Joined(L, M, K, w, p, at, bt) ==
  /\ M \in Links /\ bt \in Places
  /\ Sorted(M, K \cup {w}, p, bt)
  /\ \A q \in Widget \ {p} : M.head[q] = L.head[q] /\ M.tail[q] = L.tail[q]
  /\ \A c \in Widget \ (K \cup {w}) : M.next[c] = L.next[c] /\ bt[c] = at[c]
  /\ \A c, d \in K : bt[c] <= bt[d] <=> at[c] <= at[d]

LEMMA AtTailJoins ==
  ASSUME NEW L \in Links, NEW K \in SUBSET Widget, NEW p \in Widget, NEW at \in Places,
         Sorted(L, K, p, at), NEW w \in Widget \ K, L.next[w] = NULL
  PROVE  \E bt : /\ Joined(L, AtTail(L, w, p), K, w, p, at, bt)
                 /\ AtTail(L, w, p).tail[p] = w
<1> DEFINE M == AtTail(L, w, p)
           top == IF K = {} THEN 0 ELSE at[L.tail[p]] + 1
           bt == [at EXCEPT ![w] = top]
<1>1. NULL \notin Widget /\ \A d \in Widget : at[d] \in Int
  BY NullAssumption DEF Places
<1>2. /\ M \in Links
      /\ M.head[p] = (IF L.head[p] = NULL THEN w ELSE L.head[p]) /\ M.tail[p] = w
      /\ \A q \in Widget \ {p} : M.head[q] = L.head[q] /\ M.tail[q] = L.tail[q]
      /\ \A c \in Widget : M.next[c] = (IF c = L.tail[p] THEN w ELSE L.next[c])
  BY DEF AtTail, Links, Pointer
<1> HIDE DEF M
<1>3. /\ top \in Int /\ \A c \in K : at[c] < top
      /\ K # {} => L.head[p] \in K /\ L.tail[p] \in K
  <2>1. K # {} => L.head[p] \in K /\ L.tail[p] \in K /\ \A c \in K : at[c] <= at[L.tail[p]]
    BY DEF Sorted
  <2> QED BY <1>1, <2>1
<1>4. bt \in Places /\ bt[w] = top /\ \A c \in Widget \ {w} : bt[c] = at[c]
  BY <1>3 DEF Places
<1> HIDE DEF top, bt
<1>5. M.next[w] = NULL
  <2>1. w # L.tail[p]
    BY <1>1, <1>3 DEF Sorted
  <2> QED BY <1>2, <2>1
<1>6. Sorted(M, K \cup {w}, p, bt)
  <2>1. \A c \in K : bt[c] = at[c] /\ bt[c] < bt[w] /\ bt[c] \in Int
    BY <1>1, <1>3, <1>4
  <2>2. M.head[p] \in K \cup {w} /\ M.tail[p] = w
    BY <1>1, <1>2, <1>3 DEF Sorted
  <2>3. \A c \in K \cup {w} : bt[M.head[p]] <= bt[c] /\ bt[c] <= bt[w]
    <3>1. CASE K = {}
      <4>1. M.head[p] = w /\ bt[w] \in Int
        BY <1>2, <1>3, <1>4, <3>1 DEF Sorted
      <4> QED BY <3>1, <4>1
    <3>2. CASE K # {}
      <4>0. bt[w] \in Int
        BY <1>3, <1>4
      <4>1. M.head[p] = L.head[p] /\ L.head[p] \in K /\ \A c \in K : at[L.head[p]] <= at[c]
        BY <1>1, <1>2, <1>3, <3>2 DEF Sorted
      <4>2. \A c \in K : bt[M.head[p]] <= bt[c]
        BY <2>1, <4>1
      <4>3. \A c \in K : bt[c] <= bt[w]
        BY <2>1, <4>0
      <4> QED BY <4>0, <4>1, <4>2, <4>3
    <3> QED BY <3>1, <3>2
  <2>4. \A c \in K : c # L.tail[p] => L.next[c] # NULL
    BY SortedChildren
  <2>5. \A c \in K \cup {w} : M.next[c] # NULL => M.next[c] \in K \cup {w} /\ bt[c] < bt[M.next[c]]
    BY <1>2, <1>5, <2>1 DEF Sorted
  <2>6. \A c, d \in K \cup {w} : bt[c] < bt[d] => M.next[c] # NULL /\ bt[M.next[c]] <= bt[d]
    <3> SUFFICES ASSUME NEW c \in K \cup {w}, NEW d \in K \cup {w}, bt[c] < bt[d]
                 PROVE  M.next[c] # NULL /\ bt[M.next[c]] <= bt[d]
      OBVIOUS
    <3>1. c \in K
      BY <1>3, <1>4, <2>1
    <3>2. CASE d \in K
      <4>1. at[c] < at[d]
        BY <2>1, <3>1, <3>2
      <4>2. L.next[c] # NULL /\ at[L.next[c]] <= at[d] /\ L.next[c] \in K
        BY <3>1, <3>2, <4>1 DEF Sorted
      <4>3. c # L.tail[p]
        BY <1>1, <3>1, <3>2, <4>1 DEF Sorted
      <4> QED BY <1>2, <2>1, <3>1, <3>2, <4>2, <4>3
    <3>3. CASE d = w
      <4>1. CASE c = L.tail[p]
        BY <1>1, <1>2, <1>3, <1>4, <3>1, <3>3, <4>1
      <4>2. CASE c # L.tail[p]
        <5>1. L.next[c] # NULL /\ L.next[c] \in K /\ M.next[c] = L.next[c]
          BY <1>2, <2>4, <3>1, <4>2 DEF Sorted
        <5> QED BY <1>3, <1>4, <2>1, <3>3, <5>1
      <4> QED BY <4>1, <4>2
    <3> QED BY <3>1, <3>2, <3>3
  <2>7. \A c, d \in K \cup {w} : bt[c] = bt[d] => c = d
    BY <1>1, <1>3, <1>4, <2>1 DEF Sorted
  <2> QED BY <2>2, <2>3, <2>5, <2>6, <2>7 DEF Sorted
<1>7. \A c \in Widget \ (K \cup {w}) : M.next[c] = L.next[c] /\ bt[c] = at[c]
  <2>1. L.tail[p] \in K \cup {NULL}
    BY <1>3 DEF Sorted
  <2> SUFFICES ASSUME NEW c \in Widget \ (K \cup {w})
               PROVE  M.next[c] = L.next[c] /\ bt[c] = at[c]
    OBVIOUS
  <2>2. c # L.tail[p]
    BY <1>1, <2>1
  <2> QED BY <1>2, <1>4, <2>2
<1>8. \A c, d \in K : bt[c] <= bt[d] <=> at[c] <= at[d]
  BY <1>4
<1>9. Joined(L, M, K, w, p, at, bt)
  BY <1>2, <1>4, <1>6, <1>7, <1>8 DEF Joined
<1> QED BY <1>2, <1>9 DEF M


LEMMA AtHeadJoins ==
  ASSUME NEW L \in Links, NEW K \in SUBSET Widget, K # {}, NEW p \in Widget,
         NEW at \in Places, Sorted(L, K, p, at), NEW w \in Widget \ K
  PROVE  \E bt : /\ Joined(L, AtHead(L, w, p), K, w, p, at, bt)
                 /\ AtHead(L, w, p).tail[p] = L.tail[p]
<1> DEFINE M == AtHead(L, w, p)
           low == at[L.head[p]] - 1
           bt == [at EXCEPT ![w] = low]
<1>1. NULL \notin Widget /\ \A d \in Widget : at[d] \in Int
  BY NullAssumption DEF Places
<1>2. L.head[p] \in K /\ L.tail[p] \in K /\ L.head[p] \in Widget
  BY DEF Sorted
<1>3. /\ M \in Links /\ M.head[p] = w /\ M.tail = L.tail /\ M.next[w] = L.head[p]
      /\ \A q \in Widget \ {p} : M.head[q] = L.head[q]
      /\ \A c \in Widget \ {w} : M.next[c] = L.next[c]
  BY <1>2 DEF AtHead, Links, Pointer
<1> HIDE DEF M
<1>4. low \in Int /\ \A c \in K : low < at[c]
  <2>1. \A c \in K : at[L.head[p]] <= at[c]
    BY DEF Sorted
  <2> QED BY <1>1, <1>2, <2>1
<1>5. bt \in Places /\ bt[w] = low /\ \A c \in Widget \ {w} : bt[c] = at[c]
  BY <1>4 DEF Places
<1> HIDE DEF low, bt
<1>6. \A c \in K : bt[c] = at[c] /\ bt[w] < bt[c] /\ bt[c] \in Int /\ M.next[c] = L.next[c]
  BY <1>1, <1>3, <1>4, <1>5
<1>7. Sorted(M, K \cup {w}, p, bt)
  <2>1. M.head[p] = w /\ M.tail[p] \in K /\ bt[w] \in Int
    BY <1>2, <1>3, <1>4, <1>5
  <2>2. \A c \in K \cup {w} : bt[w] <= bt[c] /\ bt[c] <= bt[M.tail[p]]
    <3>1. \A c \in K : bt[c] <= bt[M.tail[p]]
      BY <1>2, <1>3, <1>6 DEF Sorted
    <3>2. bt[w] < bt[M.tail[p]] /\ bt[M.tail[p]] \in Int
      BY <1>6, <2>1
    <3>3. \A c \in K : bt[w] <= bt[c]
      BY <1>6, <2>1
    <3> QED BY <2>1, <3>1, <3>2, <3>3
  <2>3. \A c \in K \cup {w} : M.next[c] # NULL => M.next[c] \in K \cup {w} /\ bt[c] < bt[M.next[c]]
    <3>1. \A c \in K : M.next[c] # NULL => M.next[c] \in K /\ bt[c] < bt[M.next[c]]
      BY <1>6 DEF Sorted
    <3>2. M.next[w] \in K /\ bt[w] < bt[M.next[w]]
      BY <1>2, <1>3, <1>6
    <3> QED BY <3>1, <3>2
  <2>4. \A c, d \in K \cup {w} : bt[c] < bt[d] => M.next[c] # NULL /\ bt[M.next[c]] <= bt[d]
    <3>1. \A c, d \in K : bt[c] < bt[d] => M.next[c] # NULL /\ bt[M.next[c]] <= bt[d]
      <4> SUFFICES ASSUME NEW c \in K, NEW d \in K, bt[c] < bt[d]
                   PROVE  M.next[c] # NULL /\ bt[M.next[c]] <= bt[d]
        OBVIOUS
      <4>1. L.next[c] # NULL /\ at[L.next[c]] <= at[d] /\ L.next[c] \in K
        BY <1>6 DEF Sorted
      <4> QED BY <1>6, <4>1
    <3>2. \A d \in K : M.next[w] # NULL /\ bt[M.next[w]] <= bt[d]
      <4>1. \A d \in K : at[L.head[p]] <= at[d]
        BY DEF Sorted
      <4>2. M.next[w] \in K /\ M.next[w] # NULL /\ bt[M.next[w]] = at[L.head[p]]
        BY <1>1, <1>2, <1>3, <1>6
      <4> QED BY <1>6, <4>1, <4>2
    <3>3. \A c \in K \cup {w} : ~(bt[c] < bt[w])
      BY <1>6, <2>1
    <3> QED BY <3>1, <3>2, <3>3
  <2>5. \A c, d \in K \cup {w} : bt[c] = bt[d] => c = d
    <3>1. \A c, d \in K : bt[c] = bt[d] => c = d
      BY <1>6 DEF Sorted
    <3>2. \A c \in K : bt[c] # bt[w]
      BY <1>6, <2>1
    <3> QED BY <3>1, <3>2
  <2> QED BY <2>1, <2>2, <2>3, <2>4, <2>5 DEF Sorted
<1>8. \A c, d \in K : bt[c] <= bt[d] <=> at[c] <= at[d]
  BY <1>6
<1>9. Joined(L, M, K, w, p, at, bt)
  BY <1>3, <1>5, <1>7, <1>8 DEF Joined
<1> QED BY <1>3, <1>9 DEF M

(* w goes between the last child and the one before it, which takes a      *)
(* higher place.                                                           *)
LEMMA BetweenJoins ==
  ASSUME NEW L \in Links, NEW K \in SUBSET Widget, NEW p \in Widget, NEW at \in Places,
         Sorted(L, K, p, at), NEW w \in Widget \ K,
         NEW b \in K, NEW e \in K, L.next[b] = e, e = L.tail[p]
  PROVE  \E bt : /\ Joined(L, Between(L, w, b, e), K, w, p, at, bt)
                 /\ Between(L, w, b, e).tail[p] = L.tail[p]
<1> DEFINE M == Between(L, w, b, e)
           bt == [at EXCEPT ![w] = at[e], ![e] = at[e] + 1]
<1>1. NULL \notin Widget /\ \A d \in Widget : at[d] \in Int
  BY NullAssumption DEF Places
<1>2. L.head[p] \in K /\ at[b] < at[e] /\ b # e /\ w # e /\ w # b /\ L.next[e] = NULL
  <2>1. L.head[p] \in K /\ at[b] < at[e]
    BY <1>1 DEF Sorted
  <2>2. L.next[e] = NULL
    BY SortedChildren
  <2> QED BY <1>1, <2>1, <2>2
<1>3. /\ M \in Links /\ M.head = L.head /\ M.tail = L.tail
      /\ M.next[b] = w /\ M.next[w] = e
      /\ \A c \in Widget \ {b, w} : M.next[c] = L.next[c]
  BY <1>2 DEF Between, Links, Pointer
<1> HIDE DEF M
<1>4. /\ bt \in Places /\ bt[w] = at[e] /\ bt[e] = at[e] + 1
      /\ \A c \in Widget \ {w, e} : bt[c] = at[c]
  BY <1>1, <1>2 DEF Places
<1> HIDE DEF bt
<1>5. \A c \in K : at[c] <= at[e] /\ (c # e => at[c] < at[e])
  <2>1. \A c \in K : at[c] <= at[e] /\ (at[c] = at[e] => c = e)
    BY DEF Sorted
  <2> QED BY <1>1, <2>1
<1>6. /\ \A c \in K \ {e} : bt[c] = at[c] /\ bt[c] < bt[w] /\ bt[c] \in Int
      /\ bt[w] < bt[e] /\ bt[w] \in Int /\ bt[e] \in Int
  BY <1>1, <1>4, <1>5
<1>7. Sorted(M, K \cup {w}, p, bt)
  <2>1. L.head[p] # e
    BY <1>1, <1>2 DEF Sorted
  <2>2. \A c \in K \cup {w} : bt[L.head[p]] <= bt[c] /\ bt[c] <= bt[e]
    <3>1. \A c \in K \ {e} : bt[L.head[p]] <= bt[c] /\ bt[c] <= bt[e]
      BY <1>2, <1>6, <2>1 DEF Sorted
    <3>2. bt[L.head[p]] < bt[w] /\ bt[L.head[p]] \in Int
      BY <1>2, <1>6, <2>1
    <3> QED BY <1>6, <3>1, <3>2
  <2>3. \A c \in K \ {e, b} : /\ M.next[c] = L.next[c] /\ L.next[c] \in K \ {e}
                              /\ bt[c] < bt[L.next[c]]
    <3> SUFFICES ASSUME NEW c \in K \ {e, b}
                 PROVE  /\ M.next[c] = L.next[c] /\ L.next[c] \in K \ {e}
                        /\ bt[c] < bt[L.next[c]]
      OBVIOUS
    <3>1. L.next[c] # NULL /\ L.next[c] \in K /\ at[c] < at[L.next[c]]
      BY <1>5 DEF Sorted
    <3>2. L.next[c] # e
      <4>1. at[c] # at[b]
        BY DEF Sorted
      <4>2. CASE at[c] < at[b]
        <5>1. at[L.next[c]] <= at[b]
          BY <4>2 DEF Sorted
        <5> QED BY <1>1, <1>2, <5>1
      <4>3. CASE at[b] < at[c]
        <5>1. at[e] <= at[c]
          BY <4>3 DEF Sorted
        <5> QED BY <1>1, <1>5, <5>1
      <4> QED BY <1>1, <4>1, <4>2, <4>3
    <3> QED BY <1>3, <1>6, <3>1, <3>2
  <2>4. \A c \in K \cup {w} : M.next[c] # NULL => M.next[c] \in K \cup {w} /\ bt[c] < bt[M.next[c]]
    <3>1. M.next[e] = NULL /\ M.next[w] = e /\ M.next[b] = w /\ bt[b] < bt[w]
      BY <1>2, <1>3, <1>6
    <3> QED BY <1>6, <2>3, <3>1
  <2>5. \A c, d \in K \cup {w} : bt[c] < bt[d] => M.next[c] # NULL /\ bt[M.next[c]] <= bt[d]
    <3> SUFFICES ASSUME NEW c \in K \cup {w}, NEW d \in K \cup {w}, bt[c] < bt[d]
                 PROVE  M.next[c] # NULL /\ bt[M.next[c]] <= bt[d]
      OBVIOUS
    <3>1. c # e
      BY <1>6, <2>2
    <3>2. CASE c = w
      <4>1. d = e
        BY <1>6, <3>2
      <4> QED BY <1>1, <1>3, <1>6, <3>2, <4>1
    <3>3. CASE c = b
      <4>1. M.next[c] = w
        BY <1>3, <3>3
      <4>2. CASE d \in K \ {e}
        <5>1. at[b] < at[d]
          BY <1>2, <1>6, <3>3, <4>2
        <5>2. at[e] <= at[d]
          BY <4>2, <5>1 DEF Sorted
        <5> QED BY <1>1, <1>5, <4>2, <5>2
      <4>3. CASE d \in {w, e}
        BY <1>1, <1>6, <4>1, <4>3
      <4> QED BY <4>2, <4>3
    <3>4. CASE c \in K \ {e, b}
      <4>1. M.next[c] = L.next[c] /\ L.next[c] \in K \ {e} /\ M.next[c] # NULL
        BY <1>1, <2>3, <3>4
      <4>2. CASE d \in K \ {e}
        <5>1. at[c] < at[d]
          BY <1>6, <3>4, <4>2
        <5>2. at[L.next[c]] <= at[d]
          BY <3>4, <4>2, <5>1 DEF Sorted
        <5> QED BY <1>6, <4>1, <4>2, <5>2
      <4>3. CASE d \in {w, e}
        <5>1. bt[L.next[c]] < bt[w] /\ bt[L.next[c]] \in Int
          BY <1>6, <4>1
        <5> QED BY <1>6, <4>1, <4>3, <5>1
      <4> QED BY <4>2, <4>3
    <3> QED BY <3>1, <3>2, <3>3, <3>4
  <2>6. \A c, d \in K \cup {w} : bt[c] = bt[d] => c = d
    <3>1. \A c, d \in K \ {e} : bt[c] = bt[d] => c = d
      BY <1>6 DEF Sorted
    <3>2. \A c \in K \ {e} : bt[c] # bt[w] /\ bt[c] # bt[e]
      BY <1>6
    <3>3. bt[w] # bt[e]
      BY <1>6
    <3> QED BY <3>1, <3>2, <3>3
  <2> QED BY <1>2, <1>3, <2>2, <2>4, <2>5, <2>6 DEF Sorted
<1>8. \A c, d \in K : bt[c] <= bt[d] <=> at[c] <= at[d]
  <2>1. \A c \in K \ {e} : /\ bt[c] <= bt[e] /\ at[c] <= at[e]
                           /\ ~(bt[e] <= bt[c]) /\ ~(at[e] <= at[c])
    BY <1>1, <1>5, <1>6
  <2>2. \A c, d \in K \ {e} : bt[c] <= bt[d] <=> at[c] <= at[d]
    BY <1>6
  <2>3. bt[e] <= bt[e] /\ at[e] <= at[e]
    BY <1>1, <1>6
  <2> QED BY <2>1, <2>2, <2>3
<1>9. \A c \in Widget \ (K \cup {w}) : M.next[c] = L.next[c] /\ bt[c] = at[c]
  BY <1>3, <1>4
<1>10. Joined(L, M, K, w, p, at, bt)
  BY <1>3, <1>4, <1>7, <1>8, <1>9 DEF Joined
<1> QED BY <1>3, <1>10 DEF M


(* What a list of children becomes with w out of it.  What next_sibling is *)
(* left on in w does not matter.                                           *)
Cut(L, M, K, w, p) ==
  /\ M \in Links
  /\ M.head[p] = IF L.head[p] = w THEN L.next[w] ELSE L.head[p]
  /\ M.tail[p] = IF L.tail[p] # w THEN L.tail[p]
                 ELSE IF L.head[p] = w THEN NULL ELSE Before(L, p, w)
  /\ \A c \in K \ {w} : M.next[c] = IF L.next[c] = w THEN L.next[w] ELSE L.next[c]
  /\ \A q \in Widget \ {p} : M.head[q] = L.head[q] /\ M.tail[q] = L.tail[q]
  /\ \A c \in Widget \ K : M.next[c] = L.next[c]

LEMMA CutSorted ==
  ASSUME NEW L \in Links, NEW M \in Links, NEW K \in SUBSET Widget, NEW p \in Widget,
         NEW at \in Places, Sorted(L, K, p, at), NEW w \in K, Cut(L, M, K, w, p)
  PROVE  Sorted(M, K \ {w}, p, at)
<1> DEFINE N == K \ {w}
<1>1. NULL \notin Widget /\ \A d \in K : at[d] \in Int
  BY NullAssumption DEF Places
<1>2. \A c \in N : at[c] # at[w]
  BY DEF Sorted
<1>3. L.head[p] \in K /\ L.tail[p] \in K
  BY DEF Sorted
<1>4. L.next[w] # NULL => L.next[w] \in N /\ at[w] < at[L.next[w]]
  BY <1>1 DEF Sorted
<1>5. \A c \in N : at[w] < at[c] => L.next[w] # NULL /\ at[L.next[w]] <= at[c]
  BY DEF Sorted
<1>6. L.head[p] # w => Before(L, p, w) \in N /\ L.next[Before(L, p, w)] = w
  <2> SUFFICES ASSUME L.head[p] # w
               PROVE  Before(L, p, w) \in N /\ L.next[Before(L, p, w)] = w
    OBVIOUS
  <2>1. Before(L, p, w) \in K /\ L.next[Before(L, p, w)] = w
    BY BeforeIs
  <2>2. at[Before(L, p, w)] < at[w]
    BY <1>1, <2>1 DEF Sorted
  <2> QED BY <1>1, <2>1, <2>2
<1>7. N = {} => M.head[p] = NULL /\ M.tail[p] = NULL
  BY <1>3, <1>4 DEF Cut
<1>8. ASSUME NEW c \in N PROVE M.head[p] \in N /\ at[M.head[p]] <= at[c]
  <2>1. CASE L.head[p] = w
    <3>1. at[w] < at[c]
      <4>1. at[w] <= at[c]
        BY <2>1 DEF Sorted
      <4> QED BY <1>1, <1>2, <4>1
    <3> QED BY <1>4, <1>5, <2>1, <3>1 DEF Cut
  <2>2. CASE L.head[p] # w
    BY <1>3, <2>2 DEF Sorted, Cut
  <2> QED BY <2>1, <2>2
<1>9. ASSUME NEW c \in N PROVE M.tail[p] \in N /\ at[c] <= at[M.tail[p]]
  <2>1. CASE L.tail[p] = w
    <3>1. at[c] < at[w]
      <4>1. at[c] <= at[w]
        BY <2>1 DEF Sorted
      <4> QED BY <1>1, <1>2, <4>1
    <3>2. L.head[p] # w
      <4>1. at[L.head[p]] <= at[c]
        BY DEF Sorted
      <4> QED BY <1>1, <3>1, <4>1
    <3>3. M.tail[p] = Before(L, p, w)
      BY <2>1, <3>2 DEF Cut
    <3> DEFINE b == Before(L, p, w)
    <3>4. b \in N /\ L.next[b] = w
      BY <1>6, <3>2
    <3> HIDE DEF b
    <3>5. ~(at[b] < at[c])
      <4> SUFFICES ASSUME at[b] < at[c] PROVE FALSE
        OBVIOUS
      <4>1. at[w] <= at[c]
        BY <3>4 DEF Sorted
      <4> QED BY <1>1, <3>1, <4>1
    <3>6. at[c] <= at[b]
      BY <1>1, <3>4, <3>5
    <3> QED BY <3>3, <3>4, <3>6 DEF b
  <2>2. CASE L.tail[p] # w
    BY <1>3, <2>2 DEF Sorted, Cut
  <2> QED BY <2>1, <2>2
<1>10. ASSUME NEW c \in N, M.next[c] # NULL PROVE M.next[c] \in N /\ at[c] < at[M.next[c]]
  <2>1. CASE L.next[c] = w
    <3>1. M.next[c] = L.next[w] /\ at[c] < at[w]
      BY <1>1, <2>1 DEF Sorted, Cut
    <3> QED BY <1>1, <1>4, <1>10, <3>1
  <2>2. CASE L.next[c] # w
    <3>1. M.next[c] = L.next[c]
      BY <2>2 DEF Cut
    <3> QED BY <1>10, <2>2, <3>1 DEF Sorted
  <2> QED BY <2>1, <2>2
<1>11. ASSUME NEW c \in N, NEW d \in N, at[c] < at[d]
       PROVE  M.next[c] # NULL /\ at[M.next[c]] <= at[d]
  <2>0. L.next[c] # NULL /\ at[L.next[c]] <= at[d]
    BY <1>11 DEF Sorted
  <2>1. CASE L.next[c] = w
    <3>1. at[w] < at[d]
      BY <1>1, <1>2, <2>0, <2>1
    <3> QED BY <1>5, <2>1, <3>1 DEF Cut
  <2>2. CASE L.next[c] # w
    BY <2>0, <2>2 DEF Cut
  <2> QED BY <2>1, <2>2
<1>12. \A c, d \in N : at[c] = at[d] => c = d
  BY DEF Sorted
<1> HIDE DEF N
<1>13. N # {} => M.head[p] \in N /\ M.tail[p] \in N
  BY <1>8, <1>9
<1>14. Sorted(M, N, p, at)
  BY <1>7, <1>8, <1>9, <1>10, <1>11, <1>12, <1>13 DEF Sorted
<1> QED BY <1>14 DEF N

(* Only the child before w leads to it.                                    *)
LEMMA BeforeOnly ==
  ASSUME NEW L \in Links, NEW K \in SUBSET Widget, NEW p \in Widget, NEW at \in Places,
         Sorted(L, K, p, at), NEW w \in K, NEW c \in K, L.next[c] = w
  PROVE  L.head[p] # w /\ c = Before(L, p, w)
<1>1. NULL \notin Widget /\ \A d \in K : at[d] \in Int
  BY NullAssumption DEF Places
<1>2. at[c] < at[w]
  BY <1>1 DEF Sorted
<1>3. L.head[p] # w
  <2>1. at[L.head[p]] <= at[c]
    BY DEF Sorted
  <2> QED BY <1>1, <1>2, <2>1
<1> DEFINE b == Before(L, p, w)
<1>4. b \in K /\ L.next[b] = w
  BY <1>3, BeforeIs
<1> HIDE DEF b
<1>5. at[b] < at[w]
  BY <1>1, <1>4 DEF Sorted
<1>6. ~(at[b] < at[c])
  <2> SUFFICES ASSUME at[b] < at[c] PROVE FALSE
    OBVIOUS
  <2>1. at[w] <= at[c]
    BY <1>4 DEF Sorted
  <2> QED BY <1>1, <1>2, <2>1
<1>7. ~(at[c] < at[b])
  <2> SUFFICES ASSUME at[c] < at[b] PROVE FALSE
    OBVIOUS
  <2>1. at[w] <= at[b]
    BY <1>4 DEF Sorted
  <2> QED BY <1>1, <1>4, <1>5, <2>1
<1>8. at[b] = at[c]
  BY <1>1, <1>4, <1>6, <1>7
<1>9. b = c
  BY <1>4, <1>8 DEF Sorted
<1> QED BY <1>3, <1>9 DEF b


(* ei_widget_destroy takes w out of the children of its parent.            *)
LEMMA UnchainedCuts ==
  ASSUME NEW L \in Links, NEW K \in SUBSET Widget, NEW p \in Widget, NEW at \in Places,
         Sorted(L, K, p, at), NEW w \in K, parent[w] = p
  PROVE  Cut(L, Unchained(L, w), K, w, p) /\ ~LosesWay(L, w)
<1> DEFINE U == Unchained(L, w)
           b == Before(L, p, w)
<1>1. NULL \notin Widget /\ L.head[p] \in K /\ L.tail[p] \in K /\ L.next[w] \in Widget \cup {NULL}
  BY NullAssumption DEF Sorted, Links, Pointer
<1>2. L.tail[p] = w => L.next[w] = NULL
  BY SortedChildren
<1>3. \A c \in K : L.next[c] = w => L.head[p] # w /\ c = b
  BY BeforeOnly
<1>4. L.head[p] # w => b \in K /\ L.next[b] = w /\ b # w
  <2> SUFFICES ASSUME L.head[p] # w PROVE b \in K /\ L.next[b] = w /\ b # w
    OBVIOUS
  <2>1. b \in K /\ L.next[b] = w
    BY BeforeIs
  <2>2. at[b] < at[w] /\ at[b] \in Int
    BY <1>1, <2>1 DEF Sorted, Places
  <2> QED BY <2>1, <2>2
<1> HIDE DEF U, b
<1>5. ~LosesWay(L, w)
  <2>1. Children(L, p) = K
    BY SortedChildren
  <2> QED BY <1>1, <2>1 DEF LosesWay
<1>6. CASE L.head[p] = w /\ L.tail[p] = w
  <2>1. U = [L EXCEPT !.head[p] = NULL, !.tail[p] = NULL]
    BY <1>1, <1>6 DEF Unchained, U
  <2>2. /\ U \in Links
        /\ U.head[p] = NULL /\ U.tail[p] = NULL
        /\ U.next = L.next
        /\ \A q \in Widget \ {p} : /\ U.head[q] = L.head[q]
                                   /\ U.tail[q] = L.tail[q]
    BY <2>1 DEF Links, Pointer
  <2> QED BY <1>2, <1>3, <1>5, <1>6, <2>2 DEF Cut, U
<1>7. CASE L.head[p] = w /\ L.tail[p] # w
  <2>1. U = [L EXCEPT !.head[p] = L.next[w]]
    BY <1>1, <1>7 DEF Unchained, U
  <2>2. /\ U \in Links
        /\ U.head[p] = L.next[w] /\ U.tail = L.tail
        /\ U.next = L.next
        /\ \A q \in Widget \ {p} : U.head[q] = L.head[q]
    BY <1>1, <2>1 DEF Links, Pointer
  <2> QED BY <1>3, <1>5, <1>7, <2>2 DEF Cut, U
<1>8. CASE L.head[p] # w /\ L.tail[p] = w
  <2>1. U = [L EXCEPT !.next[b] = NULL, !.tail[p] = b]
    BY <1>1, <1>8 DEF Unchained, U, b
  <2>2. /\ U \in Links
        /\ U.head = L.head /\ U.tail[p] = b
        /\ U.next[b] = NULL
        /\ \A c \in Widget \ {b} : U.next[c] = L.next[c]
        /\ \A q \in Widget \ {p} : U.tail[q] = L.tail[q]
    BY <1>1, <1>4, <1>8, <2>1 DEF Links, Pointer
  <2> QED BY <1>2, <1>3, <1>4, <1>5, <1>8, <2>2 DEF Cut, U, b
<1>9. CASE L.head[p] # w /\ L.tail[p] # w
  <2>1. U = [L EXCEPT !.next[b] = L.next[w]]
    BY <1>1, <1>9 DEF Unchained, U, b
  <2>2. /\ U \in Links
        /\ U.head = L.head /\ U.tail = L.tail
        /\ U.next[b] = L.next[w]
        /\ \A c \in Widget \ {b} : U.next[c] = L.next[c]
    BY <1>1, <1>4, <1>9, <2>1 DEF Links, Pointer
  <2> QED BY <1>3, <1>4, <1>5, <1>9, <2>2 DEF Cut, U
<1> QED BY <1>6, <1>7, <1>8, <1>9 DEF U

(* ei_toplevel_configure takes the button b out first.  ei_widget_destroy  *)
(* then finds it only if it was the only child, or the last one.           *)
LEMMA WithdrawnCuts ==
  ASSUME NEW L \in Links, NEW K \in SUBSET Widget, NEW t \in Widget, NEW at \in Places,
         Sorted(L, K, t, at), NEW b \in K, parent[b] = t
  PROVE  LET M == Withdrawn(L, t, b)
         IN  /\ M \in Links /\ \A q \in Widget \ {t} : M.head[q] = L.head[q] /\ M.tail[q] = L.tail[q]
             /\ L.tail[t] # b => M.tail[t] = L.tail[t]
             /\ LosesWay(M, b) <=> L.next[b] # NULL
             /\ L.next[b] = NULL => /\ M.next = L.next
                                    /\ Cut(L, Unchained(M, b), K, b, t)
<1> DEFINE M == Withdrawn(L, t, b)
           U == Unchained(M, b)
           a == Before(L, t, b)
<1>1. NULL \notin Widget /\ L.head[t] \in K /\ L.tail[t] \in K /\ L.next[b] \in Widget \cup {NULL}
  BY NullAssumption DEF Sorted, Links, Pointer
<1>2. /\ L.tail[t] = b <=> L.next[b] = NULL
      /\ Children(L, t) = K
      /\ b \notin SiblingsFrom(L, L.next[b])
  BY SortedChildren
<1>3. \A c \in K : L.next[c] = b => L.head[t] # b /\ c = a
  BY BeforeOnly
<1>4. L.head[t] # b => a \in K /\ L.next[a] = b /\ a # b
  <2> SUFFICES ASSUME L.head[t] # b PROVE a \in K /\ L.next[a] = b /\ a # b
    OBVIOUS
  <2>1. a \in K /\ L.next[a] = b
    BY BeforeIs
  <2>2. at[a] < at[b] /\ at[a] \in Int
    BY <1>1, <2>1 DEF Sorted, Places
  <2> QED BY <2>1, <2>2
<1> HIDE DEF M, U, a
<1>5. CASE L.head[t] = b
  <2>1. M = [L EXCEPT !.head[t] = L.next[b], !.tail[t] = IF @ = b THEN NULL ELSE @]
    BY <1>5 DEF Withdrawn, M
  <2>2. /\ M \in Links /\ M.head[t] = L.next[b] /\ M.next = L.next
        /\ M.tail[t] = IF L.tail[t] = b THEN NULL ELSE L.tail[t]
        /\ \A q \in Widget \ {t} : M.head[q] = L.head[q] /\ M.tail[q] = L.tail[q]
    BY <1>1, <2>1 DEF Links, Pointer
  <2>3. LosesWay(M, b) <=> L.next[b] # NULL
    <3>1. Children(M, t) = SiblingsFrom(L, L.next[b])
      BY <2>2 DEF Children, SiblingsFrom
    <3> QED BY <1>1, <1>2, <2>2, <3>1 DEF LosesWay
  <2>4. L.next[b] = NULL => Cut(L, U, K, b, t)
    <3> SUFFICES ASSUME L.next[b] = NULL PROVE Cut(L, U, K, b, t)
      OBVIOUS
    <3>1. U = [M EXCEPT !.head[t] = NULL, !.tail[t] = NULL]
      BY <1>1, <1>2, <2>2 DEF Unchained, U
    <3>2. /\ U \in Links /\ U.head[t] = NULL /\ U.tail[t] = NULL /\ U.next = M.next
          /\ \A q \in Widget \ {t} : U.head[q] = M.head[q] /\ U.tail[q] = M.tail[q]
      BY <2>2, <3>1 DEF Links, Pointer
    <3> QED BY <1>2, <1>3, <1>5, <2>2, <3>2 DEF Cut
  <2> QED BY <2>2, <2>3, <2>4 DEF M, U
<1>6. CASE L.head[t] # b /\ L.next[b] # NULL
  <2>1. M = [L EXCEPT !.next[a] = L.next[b]]
    BY <1>6 DEF Withdrawn, M, a
  <2>2. /\ M \in Links /\ M.head = L.head /\ M.tail = L.tail /\ M.next[a] = L.next[b]
        /\ \A c \in Widget \ {a} : M.next[c] = L.next[c]
    BY <1>1, <1>4, <1>6, <2>1 DEF Links, Pointer
  <2>3. Cut(L, M, K, b, t)
    BY <1>2, <1>3, <1>4, <1>6, <2>2 DEF Cut
  <2>4. Sorted(M, K \ {b}, t, at)
    BY <2>2, <2>3, CutSorted
  <2>5. Children(M, t) = K \ {b}
    BY <2>2, <2>4, SortedChildren
  <2>6. LosesWay(M, b)
    BY <1>1, <2>2, <2>5 DEF LosesWay
  <2> QED BY <1>6, <2>2, <2>6 DEF M
<1>7. CASE L.head[t] # b /\ L.next[b] = NULL
  <2>1. M = [L EXCEPT !.tail[t] = a]
    BY <1>7 DEF Withdrawn, M, a
  <2>2. /\ M \in Links /\ M.head = L.head /\ M.next = L.next /\ M.tail[t] = a
        /\ \A q \in Widget \ {t} : M.tail[q] = L.tail[q]
    BY <1>4, <1>7, <2>1 DEF Links, Pointer
  <2>3. Children(M, t) = K /\ Before(M, t, b) = a
    BY <1>2, <2>2 DEF Before, Children, SiblingsFrom, a
  <2>4. ~LosesWay(M, b)
    BY <2>3 DEF LosesWay
  <2>5. U = [M EXCEPT !.next[a] = NULL]
    BY <1>1, <1>4, <1>7, <2>2, <2>3 DEF Unchained, U
  <2>6. /\ U \in Links /\ U.head = M.head /\ U.tail = M.tail /\ U.next[a] = NULL
        /\ \A c \in Widget \ {a} : U.next[c] = M.next[c]
    BY <1>4, <1>7, <2>2, <2>5 DEF Links, Pointer
  <2>7. Cut(L, U, K, b, t)
    BY <1>2, <1>3, <1>4, <1>7, <2>2, <2>6 DEF Cut, a
  <2> QED BY <1>2, <1>7, <2>2, <2>4, <2>7 DEF M, U
<1> QED BY <1>5, <1>6, <1>7 DEF M, U


-----------------------------------------------------------------------------
(* The tree as a whole: "up" gives each widget its parent.                 *)
Below(up, p) == {c \in Widget : up[c] = p}

Tree(L, up, at) ==
  /\ \A p \in Widget : Sorted(L, Below(up, p), p, at)
  /\ \A c \in Widget : up[c] = NULL => L.next[c] = NULL

(* No widget is below itself.                                              *)
Deep(up, depth) == \A c \in Widget : up[c] # NULL => depth[up[c]] < depth[c]

LEMMA TreeGrows ==
  ASSUME NEW L \in Links, NEW up \in Pointer, NEW at \in Places, Tree(L, up, at),
         NEW w \in Widget, up[w] = NULL, NEW p \in Widget,
         NEW M, NEW bt, Joined(L, M, Below(up, p), w, p, at, bt)
  PROVE  Tree(M, [up EXCEPT ![w] = p], bt)
<1> DEFINE up2 == [up EXCEPT ![w] = p]
<1>1. NULL \notin Widget /\ up2[w] = p /\ \A c \in Widget \ {w} : up2[c] = up[c]
  BY NullAssumption DEF Pointer
<1> HIDE DEF up2
<1>2. ASSUME NEW q \in Widget PROVE Sorted(M, Below(up2, q), q, bt)
  <2>1. CASE q = p
    <3>1. Below(up2, q) = Below(up, p) \cup {w}
      BY <1>1, <2>1 DEF Below
    <3> QED BY <2>1, <3>1 DEF Joined
  <2>2. CASE q # p
    <3>1. Below(up2, q) = Below(up, q) /\ w \notin Below(up, q)
      BY <1>1, <2>2 DEF Below
    <3>2. Sorted(L, Below(up, q), q, at)
      BY DEF Tree
    <3>3. M.head[q] = L.head[q] /\ M.tail[q] = L.tail[q]
      BY <2>2 DEF Joined
    <3>4. \A c \in Below(up, q) : M.next[c] = L.next[c] /\ bt[c] = at[c]
      <4>1. \A c \in Below(up, q) : c \in Widget \ (Below(up, p) \cup {w})
        BY <2>2, <3>1 DEF Below
      <4> QED BY <4>1 DEF Joined
    <3> QED BY <3>1, <3>2, <3>3, <3>4, SortedSame
  <2> QED BY <2>1, <2>2
<1>3. ASSUME NEW c \in Widget, up2[c] = NULL PROVE M.next[c] = NULL
  <2>1. c # w /\ up[c] = NULL
    BY <1>1, <1>3
  <2>2. c \in Widget \ (Below(up, p) \cup {w})
    BY <1>1, <2>1 DEF Below
  <2> QED BY <2>1, <2>2 DEF Joined, Tree
<1> QED BY <1>2, <1>3 DEF Tree, up2

(* w and everything below it.                                              *)
IsFamily(S, up, w) ==
  /\ S \subseteq Widget /\ w \in S
  /\ \A d \in Widget : up[d] \in S => d \in S
  /\ \A d \in S \ {w} : up[d] \in S
  /\ \A B \in SUBSET Widget :
       w \in B /\ (\A d \in Widget : up[d] \in B => d \in B) => S \subseteq B

LEMMA TreeLinks ==
  ASSUME NEW L \in Links, NEW up \in Pointer, NEW at \in Places, Tree(L, up, at),
         NEW q \in Widget
  PROVE  /\ L.head[q] # NULL => L.head[q] \in Widget /\ up[L.head[q]] = q
         /\ L.next[q] # NULL => /\ L.next[q] \in Widget /\ up[q] \in Widget
                                /\ up[L.next[q]] = up[q]
         /\ \A d \in Widget : up[d] = q => L.head[q] # NULL
<1>1. NULL \notin Widget /\ up[q] \in Widget \cup {NULL}
  BY NullAssumption DEF Pointer
<1>2. Sorted(L, Below(up, q), q, at)
  BY DEF Tree
<1>3. L.head[q] # NULL => L.head[q] \in Below(up, q)
  BY <1>2 DEF Sorted
<1>4. \A d \in Widget : up[d] = q => L.head[q] \in Below(up, q)
  BY <1>2 DEF Sorted, Below
<1>5. ASSUME L.next[q] # NULL
      PROVE  L.next[q] \in Widget /\ up[q] \in Widget /\ up[L.next[q]] = up[q]
  <2>1. up[q] \in Widget
    BY <1>1, <1>5 DEF Tree
  <2>2. Sorted(L, Below(up, up[q]), up[q], at) /\ q \in Below(up, up[q])
    BY <2>1 DEF Tree, Below
  <2>3. L.next[q] \in Below(up, up[q])
    BY <1>5, <2>2 DEF Sorted
  <2> QED BY <2>1, <2>3 DEF Below
<1> QED BY <1>1, <1>3, <1>4, <1>5 DEF Below

(* What ei_widget_destroy_recurs reaches, w out of its list or not.        *)
LEMMA SubtreeIsFamily ==
  ASSUME NEW L \in Links, NEW up \in Pointer, NEW at \in Places, Tree(L, up, at),
         NEW depth \in Places, Deep(up, depth), NEW w \in Widget,
         NEW M \in Links, M.next = L.next,
         \A q \in Widget : q # up[w] => M.head[q] = L.head[q]
  PROVE  /\ IsFamily(Subtree(M, w), up, w)
         /\ up[w] \notin Subtree(M, w)
         /\ \A d \in Subtree(M, w) : M.head[d] \in Subtree(M, w) \cup {NULL}
<1> DEFINE R == Reached(M.head[w], {M.head, M.next})
           S == {w} \cup R
           A == {d \in Widget : up[d] # NULL /\ depth[up[d]] >= depth[w]}
<1>1. /\ NULL \notin Widget /\ \A d \in Widget : depth[d] \in Int /\ up[d] \in Widget \cup {NULL}
      /\ M.head[w] \in Widget \cup {NULL} /\ {M.head, M.next} \in SUBSET Pointer
      /\ \A c \in Widget : up[c] # NULL => depth[up[c]] < depth[c]
  BY NullAssumption DEF Places, Pointer, Links, Deep
<1>2. Subtree(M, w) = S
  BY DEF Subtree
<1>3. Closed(R, M.head[w], {M.head, M.next}) /\ \A X : Closed(X, M.head[w], {M.head, M.next}) => R \subseteq X
  BY <1>1, ReachedIs
<1> HIDE DEF R
<1>4. \A q \in Widget : /\ L.head[q] # NULL => L.head[q] \in Widget /\ up[L.head[q]] = q
                        /\ L.next[q] # NULL => /\ L.next[q] \in Widget /\ up[q] \in Widget
                                               /\ up[L.next[q]] = up[q]
                        /\ \A d \in Widget : up[d] = q => L.head[q] # NULL
  BY TreeLinks
<1>5. w # up[w]
  BY <1>1
<1>6. up[w] \notin A
  <2> SUFFICES ASSUME up[w] \in A PROVE FALSE
    OBVIOUS
  <2>1. depth[up[w]] < depth[w] /\ depth[up[up[w]]] < depth[up[w]] /\ depth[up[up[w]]] >= depth[w]
    BY <1>1
  <2>2. depth[up[w]] \in Int /\ depth[w] \in Int /\ depth[up[up[w]]] \in Int
    BY <1>1
  <2> QED BY <2>1, <2>2
<1>7. Closed(A, M.head[w], {M.head, M.next})
  <2>1. M.head[w] \in A \cup {NULL}
    BY <1>1, <1>4, <1>5
  <2>2. ASSUME NEW c \in A PROVE M.head[c] \in A \cup {NULL} /\ M.next[c] \in A \cup {NULL}
    <3>1. M.head[c] = L.head[c]
      BY <1>6
    <3>2. depth[up[c]] < depth[c] /\ depth[up[c]] >= depth[w] /\ up[c] \in Widget
      BY <1>1
    <3>3. depth[c] >= depth[w]
      BY <1>1, <3>2
    <3> QED BY <1>1, <1>4, <3>1, <3>3
  <2> QED BY <2>1, <2>2 DEF Closed
<1>8. R \subseteq A /\ R \subseteq Widget
  BY <1>3, <1>7 DEF Closed
<1>9. up[w] \notin S
  BY <1>5, <1>6, <1>8
<1>10. \A d \in S : M.head[d] \in R \cup {NULL} /\ M.head[d] = L.head[d]
  BY <1>3, <1>8, <1>9 DEF Closed
<1>11. \A d \in Widget : up[d] \in S => d \in R
  <2> SUFFICES ASSUME NEW d \in Widget, NEW q \in S, up[d] = q PROVE d \in R
    OBVIOUS
  <2>1. q \in Widget
    BY <1>8
  <2>2. L.head[q] \in R
    BY <1>4, <1>10, <2>1
  <2>3. Sorted(L, Below(up, q), q, at)
    BY <2>1 DEF Tree
  <2>4. Children(L, q) = Below(up, q)
    <3>1. Below(up, q) \in SUBSET Widget
      BY DEF Below
    <3> QED BY <2>1, <2>3, <3>1, SortedChildren
  <2>5. Closed(R, L.head[q], {L.next})
    BY <1>3, <2>2 DEF Closed
  <2>6. Children(L, q) \subseteq R
    <3>1. L.head[q] \in Widget \cup {NULL} /\ {L.next} \in SUBSET Pointer
      BY <2>1 DEF Links, Pointer
    <3> QED BY <2>5, <3>1, ReachedIs DEF Children, SiblingsFrom
  <2> QED BY <2>4, <2>6 DEF Below
<1>12. \A d \in R : up[d] \in S
  <2> DEFINE B == {d \in R : up[d] \in S}
  <2>1. M.head[w] \in B \cup {NULL}
    BY <1>4, <1>10
  <2>2. ASSUME NEW c \in B PROVE M.head[c] \in B \cup {NULL} /\ M.next[c] \in B \cup {NULL}
    <3>1. c \in S /\ c \in Widget
      BY <1>8
    <3>2. M.head[c] \in B \cup {NULL}
      BY <1>4, <1>10, <3>1
    <3>3. M.next[c] \in R \cup {NULL}
      BY <1>3 DEF Closed
    <3>4. M.next[c] # NULL => up[M.next[c]] = up[c]
      BY <1>4, <3>1
    <3> QED BY <3>2, <3>3, <3>4
  <2>3. Closed(B, M.head[w], {M.head, M.next})
    BY <1>8, <2>1, <2>2 DEF Closed
  <2> QED BY <1>3, <2>3
<1>13. IsFamily(S, up, w)
  <2>1. ASSUME NEW B \in SUBSET Widget, w \in B, \A d \in Widget : up[d] \in B => d \in B
        PROVE  R \subseteq B
    <3> DEFINE D == {c \in R : up[c] \in B}
    <3>1. M.head[w] \in D \cup {NULL}
      BY <1>4, <1>10, <2>1
    <3>2. ASSUME NEW c \in D PROVE M.head[c] \in D \cup {NULL} /\ M.next[c] \in D \cup {NULL}
      <4>1. c \in S /\ c \in Widget /\ c \in B
        BY <1>8, <2>1
      <4>2. M.head[c] \in D \cup {NULL}
        BY <1>4, <1>10, <4>1
      <4>3. M.next[c] \in R \cup {NULL}
        BY <1>3 DEF Closed
      <4>4. M.next[c] # NULL => up[M.next[c]] = up[c]
        BY <1>4, <4>1
      <4> QED BY <4>2, <4>3, <4>4
    <3>3. Closed(D, M.head[w], {M.head, M.next})
      BY <1>8, <3>1, <3>2 DEF Closed
    <3>4. R \subseteq D
      BY <1>3, <3>3
    <3> QED BY <1>8, <2>1, <3>4
  <2> QED BY <1>8, <1>11, <1>12, <2>1 DEF IsFamily
<1>14. \A d \in S : M.head[d] \in S \cup {NULL}
  BY <1>10
<1> HIDE DEF S
<1> QED BY <1>2, <1>9, <1>13, <1>14

LEMMA TreeShrinks ==
  ASSUME NEW L \in Links, NEW up \in Pointer, NEW at \in Places, Tree(L, up, at),
         NEW w \in Widget, NEW S, IsFamily(S, up, w), up[w] \notin S,
         NEW U \in Links, up[w] = NULL => U = L,
         up[w] # NULL => Cut(L, U, Below(up, up[w]), w, up[w])
  PROVE  /\ Forgotten(U, S) \in Links /\ Without(up, S) \in Pointer
         /\ Tree(Forgotten(U, S), Without(up, S), at)
         /\ \A q \in Widget \ (S \cup {up[w]}) : Forgotten(U, S).tail[q] = L.tail[q]
<1> DEFINE M == Forgotten(U, S)
           up2 == Without(up, S)
           p == up[w]
<1>1. /\ NULL \notin Widget /\ S \subseteq Widget /\ p \in Widget \cup {NULL}
      /\ \A c \in Widget : L.next[c] \in Widget \cup {NULL}
  BY NullAssumption DEF IsFamily, Pointer, Links
<1>2. /\ M \in Links
      /\ \A q \in Widget \ S : /\ M.head[q] = U.head[q] /\ M.tail[q] = U.tail[q]
                               /\ M.next[q] = U.next[q]
      /\ \A q \in S : M.head[q] = NULL /\ M.tail[q] = NULL /\ M.next[q] = NULL
  BY <1>1 DEF Forgotten, Without, Links, Pointer
<1>3. /\ up2 \in Pointer /\ \A c \in Widget \ S : up2[c] = up[c]
      /\ \A c \in S : up2[c] = NULL
  BY <1>1 DEF Without, Pointer
<1> HIDE DEF M, up2
<1>4. /\ \A q \in Widget \ {p} : U.head[q] = L.head[q] /\ U.tail[q] = L.tail[q]
      /\ \A c \in Widget : up[c] # p \/ p = NULL => U.next[c] = L.next[c]
  <2>1. CASE p = NULL
    BY <2>1
  <2>2. CASE p # NULL
    BY <2>2 DEF Cut, Below
  <2> QED BY <2>1, <2>2
<1>5. ASSUME NEW q \in Widget PROVE Sorted(M, Below(up2, q), q, at)
  <2>1. CASE q \in S
    <3>1. Below(up2, q) = {}
      BY <1>1, <1>3, <2>1 DEF Below, IsFamily
    <3> QED BY <1>2, <2>1, <3>1 DEF Sorted
  <2>2. CASE q \notin S /\ q # p
    <3>1. Below(up2, q) = Below(up, q) /\ \A c \in Below(up, q) : c \notin S
      BY <1>1, <1>3, <2>2 DEF Below, IsFamily
    <3>2. M.head[q] = L.head[q] /\ M.tail[q] = L.tail[q]
      BY <1>2, <1>4, <2>2
    <3>3. \A c \in Below(up, q) : M.next[c] = L.next[c] /\ at[c] = at[c]
      <4>1. \A c \in Below(up, q) : c \in Widget \ S /\ up[c] # p
        BY <2>2, <3>1 DEF Below
      <4> QED BY <1>2, <1>4, <4>1
    <3>4. Sorted(L, Below(up, q), q, at)
      BY DEF Tree
    <3> QED BY <3>1, <3>2, <3>3, <3>4, SortedSame
  <2>3. CASE q = p
    <3> DEFINE K == Below(up, p)
    <3>1. /\ Below(up2, p) = K \ {w} /\ w \in K /\ K \in SUBSET Widget
          /\ \A c \in K \ {w} : c \notin S
      BY <1>1, <1>3, <2>3 DEF Below, IsFamily
    <3>2. Sorted(L, K, p, at) /\ Cut(L, U, K, w, p)
      BY <1>1, <2>3 DEF Tree
    <3> HIDE DEF K
    <3>3. Sorted(U, K \ {w}, p, at)
      BY <2>3, <3>1, <3>2, CutSorted
    <3>4. M.head[p] = U.head[p] /\ M.tail[p] = U.tail[p]
      BY <1>2, <2>3
    <3>5. \A c \in K \ {w} : M.next[c] = U.next[c] /\ at[c] = at[c]
      BY <1>2, <3>1
    <3>6. Sorted(M, K \ {w}, p, at)
      BY <3>3, <3>4, <3>5, SortedSame
    <3> QED BY <2>3, <3>1, <3>6
  <2> QED BY <2>1, <2>2, <2>3
<1>6. ASSUME NEW c \in Widget, up2[c] = NULL PROVE M.next[c] = NULL
  <2>1. CASE c \in S
    BY <1>2, <2>1
  <2>2. CASE c \notin S
    BY <1>2, <1>3, <1>4, <1>6, <2>2 DEF Tree
  <2> QED BY <2>1, <2>2
<1>7. \A q \in Widget \ (S \cup {p}) : M.tail[q] = L.tail[q]
  BY <1>2, <1>4
<1> QED BY <1>2, <1>3, <1>5, <1>6, <1>7 DEF Tree, M, up2


-----------------------------------------------------------------------------
(* The invariant.  While no null pointer has been followed the pointers    *)
(* form a tree; the parents are live; the buttons of a toplevel are made   *)
(* after it and are its children; one that cannot be resized has no resize *)
(* button.  What the theorems say holds in every state.                    *)
Standing ==
  /\ \A x \in Widget : parent[x] # NULL => x \in Live /\ parent[x] \in Live
  /\ \A t \in Toplevel : \A b \in {QuitButton[t], ResizeButton[t]} :
       /\ b \in Live => parent[b] = t
       /\ status[t] = "unborn" => status[b] = "unborn"
  /\ \A t \in Toplevel :
       /\ status[t] = "unborn" => resizable[t]
       /\ ResizeButton[t] \in Live => resizable[t]
  /\ \E depth \in Places : Deep(parent, depth)
  /\ \E at \in Places : Tree(links, parent, at)

Inv ==
  /\ TypeOK /\ links \in Links
  /\ GripLast /\ CallsComplete /\ DestructorsHonest
  /\ fault = "none" => Standing

(* The facts about constants that most steps use.                          *)
LEMMA Constants ==
  /\ NULL \notin Widget /\ NULL \notin BOOLEAN /\ Toplevel \subseteq Widget
  /\ \A t \in Toplevel : /\ QuitButton[t] \in Widget \cap Decoration
                         /\ ResizeButton[t] \in Widget \cap Decoration
                         /\ QuitButton[t] \notin Toplevel /\ ResizeButton[t] \notin Toplevel
  /\ \A s, t \in Toplevel : /\ QuitButton[s] # ResizeButton[t]
                            /\ QuitButton[s] = QuitButton[t] => s = t
                            /\ ResizeButton[s] = ResizeButton[t] => s = t
BY NullAssumption, ClassAssumption DEF Decoration

(* Where ei_widget_create puts w below p.                                  *)
LEMMA PlacedJoins ==
  ASSUME Inv, fault = "none", NEW at \in Places, Tree(links, parent, at),
         NEW w \in Widget, status[w] = "unborn", NEW p \in Live, ~WalksOff(p)
  PROVE  LET M == Placed(w, p)
         IN  /\ \E bt : Joined(links, M, Below(parent, p), w, p, at, bt)
             /\ p \in Toplevel /\ resizable[p] /\ ResizeButton[p] \in Live =>
                  M.tail[p] = ResizeButton[p]
             /\ HasGrip(p) => \A d \in SiblingsFrom(M, M.next[w]) :
                                p \in Toplevel /\ d = ResizeButton[p]
<1> DEFINE K == Below(parent, p)
           M == Placed(w, p)
           grip == ResizeButton[p]
           Gripped == p \in Toplevel /\ resizable[p] /\ grip \in Live
<1>1. /\ links \in Links /\ K \in SUBSET Widget /\ p \in Widget /\ w \notin Live
      /\ parent \in Pointer /\ parent[w] = NULL /\ w \in Widget \ K /\ links.next[w] = NULL
  <2>1. /\ links \in Links /\ K \in SUBSET Widget /\ p \in Widget /\ w \notin Live
        /\ parent \in Pointer /\ parent[w] = NULL
    BY DEF Inv, TypeOK, Standing, Live, Below, Pointer
  <2>2. w \notin K
    BY <2>1, Constants DEF Below
  <2> QED BY <2>1, <2>2 DEF Tree
<1>2. Sorted(links, K, p, at)
  BY <1>1 DEF Tree
<1>3. /\ Children(links, p) = K
      /\ K # {} => links.next[links.tail[p]] = NULL
      /\ \A c \in K : links.next[c] = NULL => c = links.tail[p]
  BY <1>1, <1>2, SortedChildren
<1>4. /\ K # {} => links.head[p] \in K /\ links.tail[p] \in K
      /\ K = {} => links.head[p] = NULL
  BY <1>2 DEF Sorted
<1>5. Gripped => grip \in K /\ links.tail[p] = grip
  BY DEF Inv, GripLast, HasGrip, Standing, Live, Below
<1>6. \A d \in K : IsGrip(d) => p \in Toplevel /\ d = grip /\ Gripped
  <2> SUFFICES ASSUME NEW d \in K, NEW t \in Toplevel, d = ResizeButton[t] PROVE t = p /\ Gripped
    BY DEF IsGrip
  <2>1. d \in Live /\ parent[d] = p
    BY <1>1, Constants DEF Below, Inv, Standing, Live
  <2>2. t = p
    BY <2>1 DEF Inv, Standing
  <2> QED BY <2>1, <2>2 DEF Inv, Standing
<1>7. HasGrip(p) /\ p \in Toplevel /\ resizable[p] => Gripped
  BY DEF HasGrip
<1>8. \A N \in Links, g \in Widget : N.next[g] = NULL => SiblingsFrom(N, g) = {g}
  <2> SUFFICES ASSUME NEW N \in Links, NEW g \in Widget, N.next[g] = NULL
               PROVE  SiblingsFrom(N, g) = {g}
    OBVIOUS
  <2>1. N.next \in Pointer
    BY DEF Links
  <2> QED BY <2>1, ReachedStep, ReachedNull DEF SiblingsFrom
<1> HIDE DEF K, M, grip
<1>9. CASE M = AtTail(links, w, p) /\ ~Gripped
  <2>1. PICK bt : Joined(links, M, K, w, p, at, bt) /\ M.tail[p] = w
    BY <1>1, <1>2, <1>9, AtTailJoins
  <2>2. Sorted(M, K \cup {w}, p, bt) /\ M \in Links /\ bt \in Places
    BY <2>1 DEF Joined
  <2>3. M.next[w] = NULL
    <3>1. K \cup {w} \in SUBSET Widget /\ K \cup {w} # {}
      BY <1>1
    <3> QED BY <1>1, <2>1, <2>2, <3>1, SortedChildren
  <2>4. SiblingsFrom(M, NULL) = {}
    BY <2>2, ReachedNull DEF SiblingsFrom, Links
  <2> QED BY <1>9, <2>1, <2>3, <2>4 DEF M, K, grip
<1>10. CASE ~KeepsGripLast(p)
  <2>1. M = AtTail(links, w, p)
    BY <1>10 DEF Placed, M
  <2>2. ~Gripped
    BY <1>4, <1>5, <1>10, <1>1, Constants DEF KeepsGripLast
  <2> QED BY <1>9, <2>1, <2>2
<1>11. CASE KeepsGripLast(p) /\ OnlyChild(p)
  <2>1. M = AtHead(links, w, p) /\ links.head[p] # NULL /\ K # {} /\ resizable[p] /\ p \in Toplevel
    BY <1>4, <1>11 DEF Placed, M, KeepsGripLast
  <2>2. PICK bt : Joined(links, M, K, w, p, at, bt) /\ M.tail[p] = links.tail[p]
    BY <1>1, <1>2, <2>1, AtHeadJoins
  <2>3. links.head[p] = links.tail[p] /\ links.head[p] \in K
    BY <1>3, <1>4, <1>11, <2>1 DEF OnlyChild
  <2>4. M.next[w] = links.tail[p]
    BY <1>1, <2>1, <2>3 DEF AtHead, Links, Pointer
  <2>5. Gripped => M.tail[p] = grip
    BY <1>5, <2>2
  <2>6. HasGrip(p) => \A d \in SiblingsFrom(M, M.next[w]) : p \in Toplevel /\ d = grip
    <3> SUFFICES ASSUME HasGrip(p) PROVE SiblingsFrom(M, M.next[w]) = {grip}
      BY <2>1
    <3>1. Gripped /\ links.tail[p] = grip /\ grip \in Widget
      BY <1>1, <1>5, <1>7, <2>1
    <3>2. M \in Links /\ M.next[grip] = NULL
      <4>1. Sorted(M, K \cup {w}, p, bt) /\ M \in Links /\ bt \in Places
        BY <2>2 DEF Joined
      <4>2. K \cup {w} \in SUBSET Widget /\ K \cup {w} # {}
        BY <1>1
      <4>3. M.next[M.tail[p]] = NULL
        BY <1>1, <4>1, <4>2, SortedChildren
      <4> QED BY <2>2, <3>1, <4>1, <4>3
    <3> QED BY <1>8, <2>4, <3>1, <3>2
  <2> QED BY <2>2, <2>5, <2>6 DEF M, K, grip
<1>12. CASE KeepsGripLast(p) /\ ~OnlyChild(p)
  <2> DEFINE g == FirstGrip(p)
             b == Before(links, p, g)
  <2>1. /\ M = IF links.next[g] = NULL /\ links.tail[p] = g
               THEN Between(links, w, b, g) ELSE AtTail(links, w, p)
        /\ links.head[p] # NULL /\ K # {} /\ resizable[p] /\ p \in Toplevel
    BY <1>4, <1>12 DEF Placed, M, KeepsGripLast
  <2>2. /\ Grips(p) # {}
        /\ \A c \in Grips(p) : c = grip /\ c \in K /\ c # links.head[p]
    BY <1>3, <1>6, <1>12 DEF WalksOff, Grips
  <2>3. PICK c \in Grips(p) : TRUE
    BY <2>2
  <2>4. c = grip /\ grip \in K /\ grip # links.head[p] /\ Gripped /\ Grips(p) = {grip}
    BY <1>6, <2>2, <2>3 DEF Grips
  <2>5. links.tail[p] = grip /\ links.next[grip] = NULL /\ grip \in Widget
    BY <1>1, <1>3, <1>5, <2>1, <2>4
  <2>6. g = grip
    <3>1. SiblingsFrom(links, grip) = {grip}
      BY <1>1, <1>8, <2>5
    <3> QED BY <2>4, <3>1 DEF FirstGrip
  <2>7. b \in K /\ links.next[b] = g
    <3>1. Before(links, p, grip) \in K /\ links.next[Before(links, p, grip)] = grip
      BY <1>1, <1>2, <2>4, BeforeIs
    <3> HIDE DEF g
    <3> QED BY <2>6, <3>1
  <2>8. M = Between(links, w, b, g)
    BY <2>1, <2>5, <2>6
  <2> HIDE DEF g, b
  <2>9. PICK bt : Joined(links, M, K, w, p, at, bt) /\ M.tail[p] = links.tail[p]
    BY <1>1, <1>2, <2>4, <2>5, <2>6, <2>7, <2>8, BetweenJoins
  <2>10. M.next[w] = grip
    <3>1. b # w
      BY <1>1, <2>7
    <3> QED BY <1>1, <2>5, <2>6, <2>8, <3>1 DEF Between, Links, Pointer
  <2>11. M \in Links /\ M.next[grip] = NULL
    <3>1. Sorted(M, K \cup {w}, p, bt) /\ M \in Links /\ bt \in Places
      BY <2>9 DEF Joined
    <3>2. K \cup {w} \in SUBSET Widget /\ K \cup {w} # {}
      BY <1>1
    <3>3. M.next[M.tail[p]] = NULL
      BY <1>1, <3>1, <3>2, SortedChildren
    <3> QED BY <2>5, <2>9, <3>1, <3>3
  <2>12. SiblingsFrom(M, M.next[w]) = {grip}
    BY <1>8, <2>5, <2>10, <2>11
  <2> QED BY <2>1, <2>5, <2>9, <2>12 DEF M, K, grip
<1> QED BY <1>10, <1>11, <1>12


(* The children of one parent stay in the same order.                      *)
OrderKept(up, at, bt) ==
  \A c, d \in Widget :
    up[c] = up[d] /\ up[c] # NULL => (bt[c] <= bt[d] <=> at[c] <= at[d])

(* One widget more.                                                        *)
LEMMA OneMore ==
  ASSUME NEW L \in Links, NEW up \in Pointer, NEW at \in Places, Tree(L, up, at),
         \E depth \in Places : Deep(up, depth),
         NEW w \in Widget, up[w] = NULL, \A c \in Widget : up[c] # w,
         NEW p \in Widget \ {w}, NEW M, NEW bt, Joined(L, M, Below(up, p), w, p, at, bt)
  PROVE  LET up2 == [up EXCEPT ![w] = p]
         IN  /\ M \in Links /\ bt \in Places /\ up2 \in Pointer
             /\ Tree(M, up2, bt) /\ OrderKept(up, at, bt)
             /\ \E depth \in Places : Deep(up2, depth)
<1> DEFINE up2 == [up EXCEPT ![w] = p]
<1>1. /\ NULL \notin Widget /\ up2 \in Pointer
      /\ up2[w] = p /\ \A c \in Widget \ {w} : up2[c] = up[c]
  BY NullAssumption DEF Pointer
<1>2. M \in Links /\ bt \in Places
  BY DEF Joined
<1>3. Tree(M, up2, bt)
  BY TreeGrows
<1>4. OrderKept(up, at, bt)
  <2> SUFFICES ASSUME NEW c \in Widget, NEW d \in Widget, up[c] = up[d], up[c] # NULL
               PROVE  bt[c] <= bt[d] <=> at[c] <= at[d]
    BY DEF OrderKept
  <2>1. CASE up[c] = p
    <3>1. c \in Below(up, p) /\ d \in Below(up, p)
      BY <2>1 DEF Below
    <3> QED BY <3>1 DEF Joined
  <2>2. CASE up[c] # p
    <3>1. c \in Widget \ (Below(up, p) \cup {w}) /\ d \in Widget \ (Below(up, p) \cup {w})
      BY <2>2 DEF Below
    <3> QED BY <3>1 DEF Joined
  <2> QED BY <2>1, <2>2
<1>5. \E depth \in Places : Deep(up2, depth)
  <2>1. PICK depth \in Places : Deep(up, depth)
    OBVIOUS
  <2> DEFINE deeper == [depth EXCEPT ![w] = depth[p] + 1]
  <2>2. /\ deeper \in Places /\ deeper[w] = depth[p] + 1
        /\ \A c \in Widget \ {w} : deeper[c] = depth[c]
    BY DEF Places
  <2> HIDE DEF deeper, up2
  <2>3. \A c \in Widget : up2[c] # NULL => deeper[up2[c]] < deeper[c]
    <3>1. deeper[up2[w]] < deeper[w]
      <4>1. deeper[p] = depth[p] /\ depth[p] \in Int
        BY <2>2 DEF Places
      <4> QED BY <1>1, <2>2, <4>1
    <3>2. ASSUME NEW c \in Widget \ {w}, up2[c] # NULL PROVE deeper[up2[c]] < deeper[c]
      <4>1. up2[c] = up[c] /\ up[c] \in Widget \ {w} /\ deeper[c] = depth[c]
        BY <1>1, <2>2, <3>2 DEF Pointer
      <4>2. depth[up[c]] < depth[c]
        BY <2>1, <4>1, <1>1 DEF Deep
      <4> QED BY <2>2, <4>1, <4>2
    <3> QED BY <3>1, <3>2
  <2> QED BY <2>2, <2>3 DEF Deep
<1> HIDE DEF up2
<1> QED BY <1>1, <1>2, <1>3, <1>4, <1>5 DEF up2

(* The pointers M and the parents up are a tree that has what the present  *)
(* one has, in the same order.                                             *)
GrownTo(M, up) ==
  /\ M \in Links /\ up \in Pointer
  /\ \E depth \in Places : Deep(up, depth)
  /\ \E at, bt \in Places : /\ Tree(links, parent, at) /\ Tree(M, up, bt)
                            /\ OrderKept(parent, at, bt)

(* A widget that is not live is nobody's parent and nobody's child.        *)
LEMMA Apart ==
  ASSUME Inv, fault = "none", NEW w \in Widget, status[w] = "unborn"
  PROVE  parent[w] = NULL /\ \A c \in Widget : parent[c] # w
<1>1. w \notin Live
  BY DEF Live
<1> QED BY <1>1, Constants DEF Inv, Standing

LEMMA PlainCreated ==
  ASSUME Inv, fault = "none", NEW w \in Widget, status[w] = "unborn", NEW p \in Live, ~WalksOff(p)
  PROVE  GrownTo(Placed(w, p), [parent EXCEPT ![w] = p])
<1>1. links \in Links /\ parent \in Pointer /\ p \in Widget \ {w}
  BY DEF Inv, TypeOK, Pointer, Live
<1>2. PICK at \in Places : Tree(links, parent, at)
  BY DEF Inv, Standing
<1>3. PICK bt : Joined(links, Placed(w, p), Below(parent, p), w, p, at, bt)
  BY <1>2, PlacedJoins
<1>4. parent[w] = NULL /\ \A c \in Widget : parent[c] # w
  BY Apart
<1>5. \E depth \in Places : Deep(parent, depth)
  BY DEF Inv, Standing
<1> DEFINE M == Placed(w, p)
<1> HIDE DEF M
<1>6. Joined(links, M, Below(parent, p), w, p, at, bt)
  BY <1>3 DEF M
<1>7. /\ M \in Links /\ bt \in Places /\ [parent EXCEPT ![w] = p] \in Pointer
      /\ Tree(M, [parent EXCEPT ![w] = p], bt) /\ OrderKept(parent, at, bt)
      /\ \E depth \in Places : Deep([parent EXCEPT ![w] = p], depth)
  BY <1>1, <1>2, <1>4, <1>5, <1>6, OneMore
<1> QED BY <1>2, <1>7 DEF GrownTo, M


LEMMA ToplevelCreated ==
  ASSUME Inv, fault = "none", NEW w \in Toplevel, status[w] = "unborn", NEW p \in Live, ~WalksOff(p)
  PROVE  LET M1 == Placed(w, p)
             M == WithButtons(M1, w)
         IN  /\ GrownTo(M, [[[parent EXCEPT ![w] = p] EXCEPT ![ResizeButton[w]] = w]
                                                      EXCEPT ![QuitButton[w]] = w])
             /\ M.tail[w] = ResizeButton[w]
             /\ \A t \in Widget \ {w} : M.tail[t] = M1.tail[t]
             /\ SiblingsFrom(M, M.next[w]) = SiblingsFrom(M1, M1.next[w])
<1> DEFINE g == ResizeButton[w]
           q == QuitButton[w]
           M1 == Placed(w, p)
           M2 == AtTail(M1, g, w)
           M3 == AtHead(M2, q, w)
           up1 == [parent EXCEPT ![w] = p]
           up2 == [up1 EXCEPT ![g] = w]
           up3 == [up2 EXCEPT ![q] = w]
<1>1. /\ NULL \notin Widget /\ g \in Widget /\ q \in Widget /\ w \in Widget
      /\ g # w /\ q # w /\ g # q
  BY Constants
<1>2. status[g] = "unborn" /\ status[q] = "unborn"
  BY DEF Inv, Standing
<1>3. /\ \A c \in {w, g, q} : parent[c] = NULL /\ \A d \in Widget : parent[d] # c
      /\ p \in Widget \ {w, g, q} /\ parent \in Pointer
  <2>1. p \in Widget \ {w, g, q} /\ parent \in Pointer
    BY <1>2 DEF Live, Inv, TypeOK, Pointer
  <2> HIDE DEF g, q
  <2> QED BY <1>1, <1>2, <2>1, Apart
<1>4. GrownTo(M1, up1)
  BY <1>1, PlainCreated
<1> HIDE DEF g, q, M1
<1>5. /\ up1 \in Pointer /\ up1[w] = p /\ up1[g] = NULL /\ up1[q] = NULL
      /\ \A c \in Widget : up1[c] # w /\ up1[c] # g /\ up1[c] # q
      /\ \A c \in Widget \ {w} : up1[c] = parent[c]
  BY <1>1, <1>3 DEF Pointer
<1> HIDE DEF up1
<1>6. /\ up2 \in Pointer /\ up2[w] = p /\ up2[g] = w /\ up2[q] = NULL
      /\ \A c \in Widget : up2[c] # g /\ up2[c] # q
      /\ \A c \in Widget \ {g} : up2[c] = up1[c]
  BY <1>1, <1>3, <1>5 DEF Pointer
<1> HIDE DEF up2
<1>7. /\ up3 \in Pointer
      /\ \A c \in Widget \ {q} : up3[c] = up2[c]
  BY <1>1, <1>3, <1>6 DEF Pointer
<1>8. PICK at, bt \in Places : /\ Tree(links, parent, at) /\ Tree(M1, up1, bt)
                               /\ OrderKept(parent, at, bt)
  BY <1>4 DEF GrownTo
<1>9. M1 \in Links /\ \E depth \in Places : Deep(up1, depth)
  BY <1>4 DEF GrownTo
<1>10. PICK bt2 : Joined(M1, M2, {}, g, w, bt, bt2) /\ M2.tail[w] = g
  <2>1. Below(up1, w) = {} /\ Sorted(M1, Below(up1, w), w, bt)
    BY <1>1, <1>5, <1>8 DEF Below, Tree
  <2>2. /\ Sorted(M1, {}, w, bt) /\ M1 \in Links /\ bt \in Places
        /\ g \in Widget \ {} /\ {} \in SUBSET Widget /\ w \in Widget /\ M1.next[g] = NULL
    BY <1>1, <1>5, <1>8, <1>9, <2>1 DEF Tree
  <2> HIDE DEF M2
  <2>3. \E bt2 : Joined(M1, AtTail(M1, g, w), {}, g, w, bt, bt2) /\ AtTail(M1, g, w).tail[w] = g
    BY <2>2, AtTailJoins
  <2> QED BY <2>3 DEF M2
<1> HIDE DEF M2
<1>11. /\ M2 \in Links /\ bt2 \in Places /\ Tree(M2, up2, bt2) /\ OrderKept(up1, bt, bt2)
       /\ \E depth \in Places : Deep(up2, depth)
  <2>1. Below(up1, w) = {}
    BY <1>5 DEF Below
  <2>2. Joined(M1, M2, Below(up1, w), g, w, bt, bt2) /\ w \in Widget \ {g}
    BY <1>1, <1>10, <2>1
  <2> QED BY <1>1, <1>5, <1>8, <1>9, <2>2, OneMore DEF up2
<1>12. PICK bt3 : Joined(M2, M3, {g}, q, w, bt2, bt3) /\ M3.tail[w] = M2.tail[w]
  <2>1. Below(up2, w) = {g} /\ Sorted(M2, Below(up2, w), w, bt2)
    BY <1>1, <1>3, <1>5, <1>6, <1>11 DEF Below, Tree
  <2>2. /\ Sorted(M2, {g}, w, bt2) /\ M2 \in Links /\ bt2 \in Places
        /\ q \in Widget \ {g} /\ {g} # {} /\ {g} \in SUBSET Widget /\ w \in Widget
    BY <1>1, <1>11, <2>1
  <2> HIDE DEF M3
  <2>3. \E bt3 : Joined(M2, AtHead(M2, q, w), {g}, q, w, bt2, bt3) /\ AtHead(M2, q, w).tail[w] = M2.tail[w]
    BY <2>2, AtHeadJoins
  <2> QED BY <2>3 DEF M3
<1> HIDE DEF M3
<1>13. /\ M3 \in Links /\ bt3 \in Places /\ Tree(M3, up3, bt3) /\ OrderKept(up2, bt2, bt3)
       /\ \E depth \in Places : Deep(up3, depth)
  <2>1. Below(up2, w) = {g}
    BY <1>1, <1>3, <1>5, <1>6 DEF Below
  <2>2. Joined(M2, M3, Below(up2, w), q, w, bt2, bt3) /\ w \in Widget \ {q}
    BY <1>1, <1>12, <2>1
  <2> QED BY <1>1, <1>6, <1>11, <2>2, OneMore DEF up3
<1> HIDE DEF up3
<1>14. OrderKept(parent, at, bt3)
  <2> SUFFICES ASSUME NEW c \in Widget, NEW d \in Widget, parent[c] = parent[d], parent[c] # NULL
               PROVE  bt3[c] <= bt3[d] <=> at[c] <= at[d]
    BY DEF OrderKept
  <2>1. c \notin {w, g, q} /\ d \notin {w, g, q}
    BY <1>3
  <2>2. /\ up1[c] = parent[c] /\ up1[d] = parent[d]
        /\ up2[c] = parent[c] /\ up2[d] = parent[d]
    BY <1>5, <1>6, <2>1
  <2>3. bt[c] <= bt[d] <=> at[c] <= at[d]
    BY <1>8 DEF OrderKept
  <2>4. bt2[c] <= bt2[d] <=> bt[c] <= bt[d]
    BY <1>11, <2>2 DEF OrderKept
  <2>5. bt3[c] <= bt3[d] <=> bt2[c] <= bt2[d]
    BY <1>13, <2>2 DEF OrderKept
  <2> QED BY <2>3, <2>4, <2>5
<1>15. GrownTo(M3, up3)
  BY <1>7, <1>8, <1>13, <1>14 DEF GrownTo
<1>16. /\ \A t \in Widget \ {w} : M3.tail[t] = M1.tail[t]
       /\ \A c \in Widget \ {g, q} : M3.next[c] = M1.next[c]
  BY <1>10, <1>12 DEF Joined
<1>17. SiblingsFrom(M3, M3.next[w]) = SiblingsFrom(M1, M1.next[w])
  <2> DEFINE T == {c \in Widget : up1[c] # NULL}
  <2>1. \A c \in Widget : M1.next[c] # NULL => /\ M1.next[c] \in Widget /\ up1[c] \in Widget
                                               /\ up1[M1.next[c]] = up1[c]
    BY <1>5, <1>8, <1>9, TreeLinks
  <2>2. /\ M1.next \in Pointer /\ M3.next \in Pointer
        /\ M1.next[w] \in Widget \cup {NULL} /\ {M1.next} \in SUBSET Pointer
    BY <1>1, <1>9, <1>13 DEF Links, Pointer
  <2>3. Closed(T, M1.next[w], {M1.next})
    BY <1>1, <2>1 DEF Closed
  <2>4. SiblingsFrom(M1, M1.next[w]) \subseteq T
    BY <2>2, <2>3, ReachedIs DEF SiblingsFrom
  <2>5. \A c \in Reached(M1.next[w], {M1.next}) : M3.next[c] = M1.next[c]
    BY <1>5, <1>16, <2>4 DEF SiblingsFrom
  <2>6. M3.next[w] = M1.next[w]
    BY <1>1, <1>16
  <2>7. Reached(M1.next[w], {M3.next}) = Reached(M1.next[w], {M1.next})
    BY <2>2, <2>5, ReachedSame
  <2> QED BY <2>6, <2>7 DEF SiblingsFrom
<1>18. WithButtons(M1, w) = M3
  BY DEF WithButtons, M3, M2, g, q
<1>19. up3 = [[[parent EXCEPT ![w] = p] EXCEPT ![ResizeButton[w]] = w]
                                        EXCEPT ![QuitButton[w]] = w]
  BY DEF up3, up2, up1, g, q
<1> QED BY <1>10, <1>12, <1>15, <1>16, <1>17, <1>18, <1>19 DEF M1, g


-----------------------------------------------------------------------------
(* ei_widget_create.                                                       *)
Newborn(w) == IF w \in Toplevel THEN {w, QuitButton[w], ResizeButton[w]} ELSE {w}

LEMMA CreateDoes ==
  ASSUME Inv, fault = "none", NEW w \in Widget, NEW p \in Widget,
         ei_widget_create(w, p), ~WalksOff(p)
  PROVE  /\ p \in Live /\ w \notin Decoration /\ fault' = "none"
         /\ w \in Newborn(w) /\ Newborn(w) \subseteq Widget
         /\ \A c \in Newborn(w) : status[c] = "unborn"
         /\ status' = [c \in Widget |-> IF c \in Newborn(w) THEN "live" ELSE status[c]]
         /\ parent'[w] = p /\ \A c \in Newborn(w) \ {w} : parent'[c] = w
         /\ \A c \in Widget \ Newborn(w) : parent'[c] = parent[c]
         /\ GrownTo(links', parent')
         /\ \A t \in Toplevel : resizable[t] /\ status'[t] = "live" /\ status'[ResizeButton[t]] = "live" =>
              links'.tail[t] = ResizeButton[t]
         /\ HasGrip(p) => \A d \in SiblingsFrom(links', links'.next[w]) : IsGrip(d)
<1> DEFINE M == Placed(w, p)
           up == [parent EXCEPT ![w] = p]
<1>1. /\ p \in Live /\ p \in Widget \ {w} /\ status[w] = "unborn" /\ w \notin Decoration
      /\ fault' = "none"
  BY DEF ei_widget_create, Live, Born
<1>2. PICK at \in Places : Tree(links, parent, at)
  BY DEF Inv, Standing
<1>3. /\ \E bt : Joined(links, M, Below(parent, p), w, p, at, bt)
      /\ p \in Toplevel /\ resizable[p] /\ ResizeButton[p] \in Live => M.tail[p] = ResizeButton[p]
      /\ HasGrip(p) => \A d \in SiblingsFrom(M, M.next[w]) : p \in Toplevel /\ d = ResizeButton[p]
  BY <1>1, <1>2, PlacedJoins
<1>4. GrownTo(M, up)
  BY <1>1, PlainCreated
<1>5. parent \in Pointer /\ parent[w] = NULL /\ status \in [Widget -> {"unborn", "live", "destroyed", "released"}]
  BY <1>1, Apart DEF Inv, TypeOK, Pointer
<1> HIDE DEF M
<1>6. ASSUME NEW t \in Toplevel, resizable[t], t \in Live, ResizeButton[t] \in Live
      PROVE  M.tail[t] = ResizeButton[t]
  <2>1. CASE t = p
    BY <1>3, <1>6, <2>1
  <2>2. CASE t # p
    <3>1. links.tail[t] = ResizeButton[t]
      BY <1>6 DEF Inv, GripLast, HasGrip
    <3>2. M.tail[t] = links.tail[t]
      BY <1>3, <2>2, Constants DEF Joined
    <3> QED BY <3>1, <3>2
  <2> QED BY <2>1, <2>2
<1>7. HasGrip(p) => \A d \in SiblingsFrom(M, M.next[w]) : IsGrip(d)
  BY <1>3 DEF IsGrip
<1>8. CASE w \notin Toplevel
  <2>1. /\ links' = M /\ Newborn(w) = {w}
        /\ status' = [c \in Widget |-> IF c \in DOMAIN [c_1 \in {w} |-> p] THEN "live" ELSE status[c]]
        /\ parent' = [c \in Widget |-> IF c \in DOMAIN [c_1 \in {w} |-> p]
                                       THEN [c_1 \in {w} |-> p][c] ELSE parent[c]]
    BY <1>8 DEF ei_widget_create, Born, Newborn, M
  <2>2. status' = [c \in Widget |-> IF c \in Newborn(w) THEN "live" ELSE status[c]]
    BY <2>1
  <2>3. parent' = up
    BY <1>5, <2>1 DEF Pointer
  <2>4. parent'[w] = p /\ \A c \in Widget \ {w} : parent'[c] = parent[c]
    BY <1>5, <2>3 DEF Pointer
  <2>5. ASSUME NEW t \in Toplevel, resizable[t], status'[t] = "live", status'[ResizeButton[t]] = "live"
        PROVE  links'.tail[t] = ResizeButton[t]
    <3>1. t # w /\ ResizeButton[t] # w /\ t \in Widget /\ ResizeButton[t] \in Widget
      BY <1>1, <1>8, Constants
    <3>2. t \in Live /\ ResizeButton[t] \in Live
      BY <2>1, <2>2, <2>5, <3>1 DEF Live
    <3> QED BY <1>6, <2>1, <2>5, <3>2
  <2> HIDE DEF up
  <2> QED BY <1>1, <1>4, <1>7, <2>1, <2>2, <2>3, <2>4, <2>5
<1>9. CASE w \in Toplevel
  <2> DEFINE g == ResizeButton[w]
             q == QuitButton[w]
             N == WithButtons(M, w)
             up3 == [[up EXCEPT ![g] = w] EXCEPT ![q] = w]
             under == [c \in {w, q, g} |-> IF c = w THEN p ELSE w]
  <2>1. /\ links' = N /\ Newborn(w) = {w, q, g}
        /\ status' = [c \in Widget |-> IF c \in DOMAIN under THEN "live" ELSE status[c]]
        /\ parent' = [c \in Widget |-> IF c \in DOMAIN under THEN under[c] ELSE parent[c]]
    BY <1>9 DEF ei_widget_create, Born, Newborn, M
  <2>2. status' = [c \in Widget |-> IF c \in Newborn(w) THEN "live" ELSE status[c]]
    BY <2>1
  <2>3. /\ g \in Widget /\ q \in Widget /\ g # w /\ q # w /\ g # q
        /\ status[g] = "unborn" /\ status[q] = "unborn"
    BY <1>1, <1>9, Constants DEF Inv, Standing
  <2>4. parent' = up3
    <3> HIDE DEF g, q
    <3> QED BY <1>5, <2>1, <2>3 DEF Pointer
  <2>5. /\ parent'[w] = p /\ parent'[g] = w /\ parent'[q] = w
        /\ \A c \in Widget \ {w, g, q} : parent'[c] = parent[c]
    <3> HIDE DEF g, q, up3
    <3> QED BY <2>1, <2>3
  <2>6. /\ GrownTo(N, up3) /\ N.tail[w] = g
        /\ \A t \in Widget \ {w} : N.tail[t] = M.tail[t]
        /\ SiblingsFrom(N, N.next[w]) = SiblingsFrom(M, M.next[w])
    BY <1>1, <1>9, ToplevelCreated DEF M
  <2> HIDE DEF N, up3, under
  <2>7. ASSUME NEW t \in Toplevel, resizable[t], status'[t] = "live", status'[ResizeButton[t]] = "live"
        PROVE  links'.tail[t] = ResizeButton[t]
    <3>1. CASE t = w
      BY <2>1, <2>6, <3>1
    <3>2. CASE t # w
      <4>1. /\ t \notin {w, q, g} /\ ResizeButton[t] \notin {w, q, g}
            /\ t \in Widget /\ ResizeButton[t] \in Widget
        BY <1>9, <3>2, Constants
      <4>2. t \in Live /\ ResizeButton[t] \in Live
        BY <2>1, <2>2, <2>7, <4>1 DEF Live
      <4> QED BY <1>6, <2>1, <2>6, <2>7, <3>2, <4>1, <4>2
    <3> QED BY <3>1, <3>2
  <2> HIDE DEF up, g, q
  <2>8. /\ w \in Newborn(w) /\ Newborn(w) \subseteq Widget
        /\ \A c \in Newborn(w) : status[c] = "unborn"
        /\ \A c \in Newborn(w) \ {w} : parent'[c] = w
        /\ \A c \in Widget \ Newborn(w) : parent'[c] = parent[c]
    BY <1>1, <2>1, <2>3, <2>5
  <2>9. GrownTo(links', parent')
    BY <2>1, <2>4, <2>6
  <2>10. HasGrip(p) => \A d \in SiblingsFrom(links', links'.next[w]) : IsGrip(d)
    BY <1>7, <2>1, <2>6
  <2> QED BY <1>1, <2>2, <2>5, <2>7, <2>8, <2>9, <2>10
<1> QED BY <1>8, <1>9


(* The walk to the resize button goes off the list only when there is none.*)
LEMMA WalksOffNoGrip ==
  ASSUME Inv, fault = "none", NEW p \in Live, WalksOff(p)
  PROVE  ~HasGrip(p)
<1> SUFFICES ASSUME HasGrip(p) PROVE FALSE
  OBVIOUS
<1> DEFINE K == Below(parent, p)
           g == ResizeButton[p]
<1>1. /\ p \in Toplevel /\ p \in Widget /\ resizable[p] /\ links.head[p] # NULL
      /\ links.next[links.head[p]] # NULL /\ Grips(p) = {}
  BY DEF WalksOff, KeepsGripLast, OnlyChild, Live
<1>2. g \in Live /\ links.tail[p] = g /\ g \in K
  <2>1. g \in Live
    BY <1>1 DEF HasGrip
  <2> QED BY <1>1, <2>1 DEF Inv, GripLast, Standing, HasGrip, Below, Live
<1>3. PICK at \in Places : Tree(links, parent, at)
  BY DEF Inv, Standing
<1>4. Sorted(links, K, p, at) /\ links \in Links /\ K \in SUBSET Widget
  BY <1>1, <1>3 DEF Tree, Inv, Below
<1>5. Children(links, p) = K /\ links.next[links.tail[p]] = NULL
  <2> HIDE DEF K
  <2>1. K # {}
    BY <1>2
  <2> QED BY <1>1, <1>4, <2>1, SortedChildren
<1>6. g # links.head[p]
  BY <1>1, <1>2, <1>5
<1>7. IsGrip(g)
  BY <1>1 DEF IsGrip
<1> QED BY <1>1, <1>2, <1>5, <1>6, <1>7 DEF Grips

LEMMA CreateKeeps ==
  ASSUME Inv, fault = "none", NEW w \in Widget, NEW p \in Widget, ei_widget_create(w, p)
  PROVE  Inv'
<1>0. UNCHANGED <<closable, resizable, notified>>
  BY DEF ei_widget_create
<1>1. CASE WalksOff(p)
  <2>1. p \in Live /\ fault' = "walked_off" /\ UNCHANGED <<status, parent, links>>
    BY <1>1 DEF ei_widget_create
  <2>2. TypeOK' /\ (links \in Links)' /\ GripLast' /\ DestructorsHonest'
    BY <1>0, <2>1 DEF Inv, TypeOK, GripLast, HasGrip, DestructorsHonest, Live
  <2>3. CallsComplete'
    <3>1. p \in Toplevel /\ ~HasGrip(p)
      BY <1>1, <2>1, WalksOffNoGrip DEF WalksOff, KeepsGripLast
    <3> QED BY <1>0, <2>1, <3>1 DEF CallsComplete, HasGrip, Live
  <2> QED BY <2>1, <2>2, <2>3 DEF Inv
<1>2. CASE ~WalksOff(p)
  <2>1. /\ p \in Live /\ w \notin Decoration /\ fault' = "none"
        /\ w \in Newborn(w) /\ Newborn(w) \subseteq Widget
        /\ \A c \in Newborn(w) : status[c] = "unborn"
        /\ status' = [c \in Widget |-> IF c \in Newborn(w) THEN "live" ELSE status[c]]
        /\ parent'[w] = p /\ \A c \in Newborn(w) \ {w} : parent'[c] = w
        /\ \A c \in Widget \ Newborn(w) : parent'[c] = parent[c]
    BY <1>2, CreateDoes
  <2>2. /\ GrownTo(links', parent')
        /\ \A t \in Toplevel : resizable[t] /\ status'[t] = "live" /\ status'[ResizeButton[t]] = "live" =>
             links'.tail[t] = ResizeButton[t]
    BY <1>2, CreateDoes
  <2>3. /\ \A c \in Newborn(w) : status'[c] = "live"
        /\ \A c \in Widget \ Newborn(w) : status'[c] = status[c]
        /\ \A c \in Live : c \in Widget \ Newborn(w) /\ status'[c] = "live"
    BY <2>1 DEF Live
  <2>4. \A t \in Toplevel : \A b \in {QuitButton[t], ResizeButton[t]} :
          b \in Newborn(w) => t = w /\ b \in Newborn(w) \ {w}
    BY <2>1, Constants DEF Newborn
  <2>5. /\ \A t \in Toplevel : t \in Widget /\ QuitButton[t] \in Widget /\ ResizeButton[t] \in Widget
        /\ NULL \notin Widget
    BY Constants
  <2>6. TypeOK' /\ links' \in Links
    <3>1. links' \in Links /\ parent' \in Pointer
      BY <2>2 DEF GrownTo
    <3>2. status' \in [Widget -> {"unborn", "live", "destroyed", "released"}]
      BY <2>1 DEF Inv, TypeOK
    <3> QED BY <1>0, <2>1, <3>1, <3>2 DEF Inv, TypeOK, Links, Pointer
  <2>7. GripLast'
    BY <1>0, <2>2 DEF GripLast, HasGrip, Live
  <2>8. CallsComplete'
    BY <2>1 DEF CallsComplete
  <2>9. DestructorsHonest'
    <3> SUFFICES ASSUME NEW x \in Widget \ Decoration
                 PROVE  /\ status'[x] = "destroyed" => x \in notified
                        /\ x \in notified => status'[x] \in {"destroyed", "released"}
      BY <1>0 DEF DestructorsHonest
    <3> QED BY <2>1, <2>3 DEF Inv, DestructorsHonest
  <2>10. Standing'
    <3>1. ASSUME NEW x \in Widget, parent'[x] # NULL
          PROVE  status'[x] = "live" /\ parent'[x] \in Widget /\ status'[parent'[x]] = "live"
      <4>1. CASE x \in Newborn(w)
        BY <2>1, <2>3, <4>1
      <4>2. CASE x \notin Newborn(w)
        <5>1. parent[x] # NULL /\ parent'[x] = parent[x]
          BY <2>1, <3>1, <4>2
        <5>2. x \in Live /\ parent[x] \in Live
          BY <5>1 DEF Inv, Standing
        <5> QED BY <2>3, <5>1, <5>2 DEF Live
      <4> QED BY <4>1, <4>2
    <3>2. ASSUME NEW t \in Toplevel, NEW b \in {QuitButton[t], ResizeButton[t]}
          PROVE  /\ status'[b] = "live" => parent'[b] = t
                 /\ status'[t] = "unborn" => status'[b] = "unborn"
      <4>1. CASE b \in Newborn(w)
        BY <2>1, <2>3, <2>4, <4>1
      <4>2. CASE b \notin Newborn(w)
        <5>1. b \in Widget \ Newborn(w) /\ t \in Widget
          BY <2>5, <4>2
        <5>2. status'[b] = status[b] /\ parent'[b] = parent[b]
          BY <2>1, <2>3, <5>1
        <5>3. status'[t] = "unborn" => status[t] = "unborn"
          BY <2>3, <5>1
        <5> QED BY <5>1, <5>2, <5>3 DEF Inv, Standing, Live
      <4> QED BY <4>1, <4>2
    <3>3. ASSUME NEW t \in Toplevel
          PROVE  /\ status'[t] = "unborn" => resizable[t]
                 /\ status'[ResizeButton[t]] = "live" => resizable[t]
      <4>1. status[t] = "unborn" => resizable[t]
        BY DEF Inv, Standing
      <4>2. status'[t] = "unborn" => status[t] = "unborn"
        BY <2>3, <2>5
      <4>3. status'[ResizeButton[t]] = "live" => ResizeButton[t] \in Live \/ status[t] = "unborn"
        <5>1. CASE ResizeButton[t] \in Newborn(w)
          BY <2>1, <2>4, <5>1
        <5>2. CASE ResizeButton[t] \notin Newborn(w)
          BY <2>3, <2>5, <5>2 DEF Live
        <5> QED BY <5>1, <5>2
      <4>4. ResizeButton[t] \in Live => resizable[t]
        BY DEF Inv, Standing
      <4> QED BY <4>1, <4>2, <4>3, <4>4
    <3>4. /\ \E depth \in Places : Deep(parent', depth)
          /\ \E at \in Places : Tree(links', parent', at)
      BY <2>2 DEF GrownTo
    <3>5. \A x \in Widget : parent'[x] # NULL => x \in Live' /\ parent'[x] \in Live'
      BY <3>1 DEF Live
    <3>6. \A t \in Toplevel : \A b \in {QuitButton[t], ResizeButton[t]} :
            /\ b \in Live' => parent'[b] = t
            /\ status'[t] = "unborn" => status'[b] = "unborn"
      BY <3>2 DEF Live
    <3>7. \A t \in Toplevel :
            /\ status'[t] = "unborn" => resizable'[t]
            /\ ResizeButton[t] \in Live' => resizable'[t]
      BY <1>0, <3>3 DEF Live
    <3> QED BY <3>4, <3>5, <3>6, <3>7 DEF Standing
  <2> QED BY <2>6, <2>7, <2>8, <2>9, <2>10 DEF Inv
<1> QED BY <1>1, <1>2


-----------------------------------------------------------------------------
(* ei_widget_destroy: a call T that removes w with its family, and nothing *)
(* else.                                                                   *)
GripsStay(L, S) ==
  \A t \in Toplevel \ S : resizable[t] /\ t \in Live /\ ResizeButton[t] \in Live \ S =>
    L.tail[t] = ResizeButton[t]

Removed(T, w) ==
  /\ w \in Live /\ T.gone = {w}
  /\ IsFamily(T.freed, parent, w) /\ parent[w] \notin T.freed
  /\ T.called \subseteq T.freed \ Decoration
  /\ w \notin Decoration => w \in T.called
  /\ T.links \in Links /\ Without(parent, T.freed) \in Pointer
  /\ \A at \in Places : Tree(links, parent, at) => Tree(T.links, Without(parent, T.freed), at)
  /\ GripsStay(T.links, T.freed)

(* ... whether it goes on to a null pointer or not.                        *)
Removes(T, w) ==
  /\ Removed(T, w) /\ T.fault = "none"
  /\ Removed([T EXCEPT !.fault = "no_child"], w)
  /\ [T EXCEPT !.fault = "no_child"].fault = "no_child"

LEMMA TakingOut ==
  ASSUME Inv, fault = "none", NEW w \in Live,
         NEW M \in Links, M.next = links.next, ~LosesWay(M, w),
         \A q \in Widget : q # parent[w] => M.head[q] = links.head[q],
         parent[w] = NULL => Unchained(M, w) = links,
         parent[w] # NULL => Cut(links, Unchained(M, w), Below(parent, parent[w]), w, parent[w])
  PROVE  LET T == Destroy([Untouched EXCEPT !.links = M], w)
         IN  Removes(T, w)
<1> DEFINE T0 == [Untouched EXCEPT !.links = M]
           T == Destroy(T0, w)
           U == Unchained(M, w)
           S == Subtree(M, w)
           F == Forgotten(U, S)
<1>1. T0 = [links |-> M, gone |-> {}, freed |-> {}, called |-> {}, fault |-> "none"]
  BY DEF Untouched
<1>2. /\ T = [links |-> F, gone |-> {w}, freed |-> S, called |-> Notified(M, w), fault |-> "none"]
      /\ [T EXCEPT !.fault = "no_child"] =
           [links |-> F, gone |-> {w}, freed |-> S, called |-> Notified(M, w), fault |-> "no_child"]
  <2>1. T.links = F /\ T.gone = {w} /\ T.freed = S /\ T.called = Notified(M, w) /\ T.fault = "none"
    BY <1>1 DEF Destroy
  <2>2. T = [T0 EXCEPT !.links = F, !.gone = @ \cup {w}, !.freed = @ \cup S, !.called = @ \cup Notified(M, w)]
    BY <1>1 DEF Destroy
  <2>3. T = [links |-> F, gone |-> {w}, freed |-> S, called |-> Notified(M, w), fault |-> "none"]
    <3> HIDE DEF T, F, S
    <3> QED BY <1>1, <2>1, <2>2
  <2> HIDE DEF T, F, S
  <2> QED BY <2>3
<1> HIDE DEF T, T0
<1>3. /\ links \in Links /\ parent \in Pointer /\ w \in Widget
      /\ NULL \notin Widget
  BY Constants DEF Inv, TypeOK, Pointer, Live
<1>4. PICK depth \in Places : Deep(parent, depth)
  BY DEF Inv, Standing
<1>5. ASSUME NEW at \in Places, Tree(links, parent, at)
      PROVE  /\ IsFamily(S, parent, w) /\ parent[w] \notin S
             /\ \A d \in S : M.head[d] \in S \cup {NULL}
  BY <1>3, <1>4, <1>5, SubtreeIsFamily
<1>6. /\ IsFamily(S, parent, w) /\ parent[w] \notin S
      /\ \A d \in S : M.head[d] \in S \cup {NULL}
  BY <1>5 DEF Inv, Standing
<1>7. Notified(M, w) \subseteq S \ Decoration /\ (w \notin Decoration => w \in Notified(M, w))
  BY <1>3, <1>6 DEF Notified, IsFamily
<1> HIDE DEF S
<1>8. U \in Links
  BY <1>3 DEF Cut
<1>9. ASSUME NEW at \in Places, Tree(links, parent, at)
      PROVE  /\ F \in Links /\ Without(parent, S) \in Pointer
             /\ Tree(F, Without(parent, S), at)
             /\ \A q \in Widget \ (S \cup {parent[w]}) : F.tail[q] = links.tail[q]
  <2>1. /\ parent[w] = NULL => U = links
        /\ parent[w] # NULL => Cut(links, U, Below(parent, parent[w]), w, parent[w])
    OBVIOUS
  <2> HIDE DEF U
  <2> QED BY <1>3, <1>6, <1>8, <1>9, <2>1, TreeShrinks
<1>10. /\ F \in Links /\ Without(parent, S) \in Pointer
       /\ \A q \in Widget \ (S \cup {parent[w]}) : F.tail[q] = links.tail[q]
  BY <1>9 DEF Inv, Standing
<1>11. GripsStay(F, S)
  <2> SUFFICES ASSUME NEW t \in Toplevel \ S, resizable[t], t \in Live, ResizeButton[t] \in Live \ S
               PROVE  F.tail[t] = ResizeButton[t]
    BY DEF GripsStay
  <2>1. links.tail[t] = ResizeButton[t] /\ t \in Widget /\ ResizeButton[t] # w
    BY <1>6 DEF Inv, GripLast, HasGrip, Live, IsFamily
  <2>2. CASE t # parent[w]
    BY <1>10, <2>1, <2>2
  <2>3. CASE t = parent[w]
    <3>1. U.tail[t] = links.tail[t]
      BY <1>3, <2>1, <2>3 DEF Cut
    <3>2. F.tail[t] = U.tail[t]
      BY <2>1 DEF Forgotten, Without
    <3> QED BY <2>1, <3>1, <3>2
  <2> QED BY <2>2, <2>3
<1> HIDE DEF F, U
<1>12. \A at \in Places : Tree(links, parent, at) => Tree(F, Without(parent, S), at)
  BY <1>9
<1>13. Removed(T, w)
  BY <1>2, <1>6, <1>7, <1>10, <1>11, <1>12 DEF Removed
<1>14. Removed([T EXCEPT !.fault = "no_child"], w) /\ [T EXCEPT !.fault = "no_child"].fault = "no_child"
  BY <1>2, <1>6, <1>7, <1>10, <1>11, <1>12 DEF Removed
<1> QED BY <1>2, <1>13, <1>14 DEF T, T0, Removes

(* The program and quit_toplevel_event destroy any widget but a button of  *)
(* a toplevel, and its parent's list is found in order.                    *)
LEMMA DestroyRemoves ==
  ASSUME Inv, fault = "none", NEW w \in Live
  PROVE  Removes(Destroy(Untouched, w), w)
<1>1. links \in Links /\ w \in Widget /\ parent[w] \in Widget \cup {NULL} /\ NULL \notin Widget
  BY Constants DEF Inv, TypeOK, Pointer, Live
<1>2. PICK at \in Places : Tree(links, parent, at)
  BY DEF Inv, Standing
<1>3. /\ parent[w] = NULL => Unchained(links, w) = links
      /\ ~LosesWay(links, w)
      /\ parent[w] # NULL => Cut(links, Unchained(links, w), Below(parent, parent[w]), w, parent[w])
  <2>1. CASE parent[w] = NULL
    <3>1. Unchained(links, w) = links
      BY <2>1 DEF Unchained
    <3>2. ~LosesWay(links, w)
      BY <2>1 DEF LosesWay
    <3> QED BY <2>1, <3>1, <3>2
  <2>2. CASE parent[w] # NULL
    <3> DEFINE p == parent[w]
               K == Below(parent, p)
    <3>1. w \in K /\ K \in SUBSET Widget /\ Sorted(links, K, p, at) /\ p \in Widget
      BY <1>1, <1>2, <2>2 DEF Below, Tree
    <3> HIDE DEF K
    <3>2. Cut(links, Unchained(links, w), K, w, p) /\ ~LosesWay(links, w)
      BY <1>1, <3>1, UnchainedCuts
    <3> QED BY <2>2, <3>2 DEF K
  <2> QED BY <2>1, <2>2
<1>4. [Untouched EXCEPT !.links = links] = Untouched
  BY DEF Untouched
<1>5. Removes(Destroy([Untouched EXCEPT !.links = links], w), w)
  BY <1>1, <1>3, TakingOut
<1> QED BY <1>4, <1>5


(* A call T that removes nothing.                                          *)
Idle(T) ==
  /\ T.gone = {} /\ T.freed = {} /\ T.called = {}
  /\ T.links \in Links /\ GripsStay(T.links, {})
  /\ T.fault = "none" => T.links = links

(* What both kinds of call have in common.                                 *)
LEMMA Outcome ==
  ASSUME Inv, fault = "none", NEW T, Idle(T) \/ \E w \in Live : Removed(T, w)
  PROVE  /\ T.freed \subseteq Live /\ \A d \in Widget : parent[d] \in T.freed => d \in T.freed
         /\ T.gone \subseteq T.freed /\ T.called \subseteq T.freed \ Decoration
         /\ T.gone \ Decoration \subseteq T.called
         /\ T.links \in Links /\ Without(parent, T.freed) \in Pointer
         /\ GripsStay(T.links, T.freed)
         /\ T.fault = "none" =>
              \A at \in Places : Tree(links, parent, at) => Tree(T.links, Without(parent, T.freed), at)
<1>1. parent \in Pointer /\ NULL \notin Widget
  BY Constants DEF Inv, TypeOK, Pointer
<1>2. CASE Idle(T)
  <2>1. Without(parent, T.freed) = parent
    BY <1>1, <1>2 DEF Idle, Without, Pointer
  <2>2. /\ T.freed = {} /\ T.gone = {} /\ T.called = {} /\ T.links \in Links
        /\ GripsStay(T.links, T.freed)
        /\ T.fault = "none" => T.links = links
    BY <1>2 DEF Idle
  <2> QED BY <1>1, <2>1, <2>2
<1>3. ASSUME NEW w \in Live, Removed(T, w)
      PROVE  /\ T.freed \subseteq Live
             /\ \A d \in Widget : parent[d] \in T.freed => d \in T.freed
  <2>1. IsFamily(T.freed, parent, w)
    BY <1>3 DEF Removed
  <2>2. ASSUME NEW d \in T.freed PROVE d \in Live
    <3>1. CASE d = w
      BY <3>1
    <3>2. CASE d # w
      <4>1. d \in Widget /\ parent[d] \in Widget
        BY <2>1, <3>2 DEF IsFamily
      <4> QED BY <1>1, <4>1 DEF Inv, Standing
    <3> QED BY <3>1, <3>2
  <2> QED BY <2>1, <2>2 DEF IsFamily
<1>4. ASSUME NEW w \in Live, Removed(T, w)
      PROVE  /\ T.gone \subseteq T.freed /\ T.called \subseteq T.freed \ Decoration
             /\ T.gone \ Decoration \subseteq T.called
             /\ T.links \in Links /\ Without(parent, T.freed) \in Pointer
             /\ GripsStay(T.links, T.freed)
             /\ \A at \in Places : Tree(links, parent, at) => Tree(T.links, Without(parent, T.freed), at)
  BY <1>4 DEF Removed, IsFamily
<1> QED BY <1>2, <1>3, <1>4

LEMMA BecomesKeeps ==
  ASSUME Inv, fault = "none", NEW T, Idle(T) \/ \E w \in Live : Removed(T, w), Becomes(T),
         T.fault \in {"none", "lost_child", "no_child"},
         closable' \in [Toplevel -> BOOLEAN], resizable' \in [Toplevel -> BOOLEAN],
         T.fault # "none" => \E t \in Toplevel \cap (Live \ T.freed) :
                               closable'[t] = FALSE \/ QuitButton[t] \notin Live,
         T.fault = "none" => \A t \in Toplevel :
           ResizeButton[t] \in Live \ T.freed \/ status[t] = "unborn" => resizable'[t]
  PROVE  Inv'
<1>1. /\ T.freed \subseteq Live /\ \A d \in Widget : parent[d] \in T.freed => d \in T.freed
      /\ T.gone \subseteq T.freed /\ T.called \subseteq T.freed \ Decoration
      /\ T.gone \ Decoration \subseteq T.called
      /\ T.links \in Links /\ Without(parent, T.freed) \in Pointer
      /\ GripsStay(T.links, T.freed)
      /\ T.fault = "none" =>
           \A at \in Places : Tree(links, parent, at) => Tree(T.links, Without(parent, T.freed), at)
  BY Outcome
<1>2. /\ links' = T.links /\ parent' = Without(parent, T.freed)
      /\ notified' = notified \cup T.called /\ fault' = T.fault
      /\ status' = [c \in Widget |-> IF c \in T.gone THEN "destroyed"
                                     ELSE IF c \in T.freed THEN "released" ELSE status[c]]
  BY DEF Becomes
<1>3. /\ status \in [Widget -> {"unborn", "live", "destroyed", "released"}]
      /\ parent \in Pointer /\ NULL \notin Widget /\ notified \subseteq Widget
  BY Constants DEF Inv, TypeOK, Pointer
<1>4. /\ \A c \in Widget : status'[c] = "live" <=> c \in Live \ T.freed
      /\ \A c \in Widget : status'[c] = "unborn" <=> status[c] = "unborn"
      /\ \A c \in Widget \ T.freed : status'[c] = status[c]
      /\ \A c \in T.freed : status'[c] \in {"destroyed", "released"}
      /\ \A c \in Widget : c \in T.freed => status[c] = "live"
      /\ \A c \in T.freed \ T.gone : status'[c] = "released"
      /\ Live' = Live \ T.freed
  BY <1>1, <1>2, <1>3 DEF Live
<1>5. /\ \A c \in T.freed : parent'[c] = NULL
      /\ \A c \in Widget \ T.freed : parent'[c] = parent[c]
  BY <1>1, <1>2 DEF Without, Live
<1>6. /\ \A t \in Toplevel : t \in Widget /\ QuitButton[t] \in Widget /\ ResizeButton[t] \in Widget
  BY Constants
<1>7. TypeOK' /\ (links \in Links)'
  <2>1. status' \in [Widget -> {"unborn", "live", "destroyed", "released"}]
    BY <1>2, <1>3
  <2>2. notified' \subseteq Widget
    BY <1>1, <1>2, <1>3 DEF Live
  <2> QED BY <1>1, <1>2, <2>1, <2>2 DEF TypeOK, Links, Pointer
<1>8. GripLast'
  <2> SUFFICES ASSUME NEW t \in Toplevel, t \in Live \ T.freed, ResizeButton[t] \in Live \ T.freed
               PROVE  T.links.tail[t] = ResizeButton[t]
    BY <1>2, <1>4 DEF GripLast, HasGrip
  <2>1. resizable[t]
    BY DEF Inv, Standing
  <2> QED BY <1>1, <2>1 DEF GripsStay
<1>9. CallsComplete'
  <2> SUFFICES ASSUME T.fault # "none", NEW t \in Toplevel \cap (Live \ T.freed),
                      closable'[t], QuitButton[t] \in Live \ T.freed,
                      closable'[t] = FALSE \/ QuitButton[t] \notin Live
               PROVE  FALSE
    BY <1>2, <1>4 DEF CallsComplete
  <2> QED OBVIOUS
<1>10. DestructorsHonest'
  <2> SUFFICES ASSUME NEW x \in Widget \ Decoration
               PROVE  /\ status'[x] = "destroyed" => x \in notified'
                      /\ x \in notified' => status'[x] \in {"destroyed", "released"}
    BY DEF DestructorsHonest
  <2>1. /\ status[x] = "destroyed" => x \in notified
        /\ x \in notified => status[x] \in {"destroyed", "released"}
    BY DEF Inv, DestructorsHonest
  <2> QED BY <1>1, <1>2, <1>4, <2>1
<1>11. ASSUME fault' = "none" PROVE Standing'
  <2>0. T.fault = "none"
    BY <1>2, <1>11
  <2>1. \A x \in Widget : parent'[x] # NULL => x \in Live' /\ parent'[x] \in Live'
    <3> SUFFICES ASSUME NEW x \in Widget, parent'[x] # NULL PROVE x \in Live' /\ parent'[x] \in Live'
      OBVIOUS
    <3>1. x \notin T.freed /\ parent'[x] = parent[x]
      BY <1>5
    <3>2. x \in Live /\ parent[x] \in Live
      BY <3>1 DEF Inv, Standing
    <3> QED BY <1>1, <1>4, <3>1, <3>2
  <2>2. \A t \in Toplevel : \A b \in {QuitButton[t], ResizeButton[t]} :
          /\ b \in Live' => parent'[b] = t
          /\ status'[t] = "unborn" => status'[b] = "unborn"
    <3> SUFFICES ASSUME NEW t \in Toplevel, NEW b \in {QuitButton[t], ResizeButton[t]}
                 PROVE  /\ b \in Live' => parent'[b] = t
                        /\ status'[t] = "unborn" => status'[b] = "unborn"
      OBVIOUS
    <3>1. /\ b \in Live => parent[b] = t
          /\ status[t] = "unborn" => status[b] = "unborn"
      BY DEF Inv, Standing
    <3>2. b \in Widget /\ t \in Widget
      BY <1>6
    <3> QED BY <1>4, <1>5, <3>1, <3>2
  <2>3. \A t \in Toplevel : /\ status'[t] = "unborn" => resizable'[t]
                            /\ ResizeButton[t] \in Live' => resizable'[t]
    BY <1>4, <1>6, <2>0
  <2>4. \E depth \in Places : Deep(parent', depth)
    <3>1. PICK depth \in Places : Deep(parent, depth)
      BY DEF Inv, Standing
    <3>2. Deep(parent', depth)
      BY <1>5, <3>1 DEF Deep
    <3> QED BY <3>2
  <2>5. \E at \in Places : Tree(links', parent', at)
    <3>1. PICK at \in Places : Tree(links, parent, at)
      BY DEF Inv, Standing
    <3>2. Tree(T.links, Without(parent, T.freed), at)
      BY <1>1, <2>0, <3>1
    <3> QED BY <1>2, <3>2
  <2> QED BY <2>1, <2>2, <2>3, <2>4, <2>5 DEF Standing
<1> QED BY <1>7, <1>8, <1>9, <1>10, <1>11 DEF Inv

LEMMA DestroyKeeps ==
  ASSUME Inv, fault = "none", NEW w \in Widget, ei_widget_destroy(w)
  PROVE  Inv'
<1> DEFINE T == Destroy(Untouched, w)
<1>1. w \in Live /\ Becomes(T) /\ UNCHANGED <<closable, resizable>>
  BY DEF ei_widget_destroy
<1>2. Removed(T, w) /\ T.fault = "none"
  BY <1>1, DestroyRemoves DEF Removes
<1> HIDE DEF T
<1>3. closable' \in [Toplevel -> BOOLEAN] /\ resizable' \in [Toplevel -> BOOLEAN]
  BY <1>1 DEF Inv, TypeOK
<1>4. \A t \in Toplevel :
        ResizeButton[t] \in Live \ T.freed \/ status[t] = "unborn" => resizable'[t]
  BY <1>1 DEF Inv, Standing
<1> QED BY <1>1, <1>2, <1>3, <1>4, BecomesKeeps


-----------------------------------------------------------------------------
(* ei_toplevel_configure.                                                  *)
LEMMA WithdrawDoes ==
  ASSUME Inv, fault = "none", NEW t \in Toplevel \cap Live,
         NEW b \in {QuitButton[t], ResizeButton[t]}
  PROVE  LET T == Withdraw(Untouched, t, b)
         IN  \/ b \notin Live /\ links.head[t] = NULL /\ T = [Untouched EXCEPT !.fault = "no_child"]
             \/ b \notin Live /\ T = Untouched
             \/ /\ b = QuitButton[t] /\ b \in Live /\ Idle(T) /\ T.fault = "lost_child"
             \/ b \in Live /\ links.tail[t] = b /\ Removes(T, b)
<1> DEFINE K == Below(parent, t)
           M == Withdrawn(links, t, b)
           T0 == [Untouched EXCEPT !.links = M]
<1>0. Untouched = [links |-> links, gone |-> {}, freed |-> {}, called |-> {}, fault |-> "none"]
  BY DEF Untouched
<1>1. /\ t \in Widget /\ b \in Widget \cap Decoration /\ NULL \notin Widget
      /\ links \in Links /\ K \in SUBSET Widget
  BY Constants DEF Inv, Below
<1>2. PICK at \in Places : Tree(links, parent, at)
  BY DEF Inv, Standing
<1>3. Sorted(links, K, t, at)
  BY <1>1, <1>2 DEF Tree
<1>4. Children(links, t) = K /\ (K # {} => links.next[links.tail[t]] = NULL)
      /\ \A c \in K : links.next[c] = NULL => c = links.tail[t]
  BY <1>1, <1>3, SortedChildren
<1>5. b \in Live <=> b \in K
  BY <1>1 DEF Inv, Standing, Below, Live
<1>6. links.head[t] = NULL => K = {}
  BY <1>1, <1>3 DEF Sorted
<1> HIDE DEF K, M
<1>7. CASE links.head[t] = NULL
  <2>1. Untouched.fault = "none" /\ Untouched.links = links
    BY <1>0
  <2>2. b \notin Children(links, t)
    BY <1>4, <1>6, <1>7
  <2>3. Withdraw(Untouched, t, b) = [Untouched EXCEPT !.fault = "no_child"]
    BY <1>7, <2>1, <2>2 DEF Withdraw
  <2> QED BY <1>5, <1>6, <1>7, <2>3
<1>8. CASE links.head[t] # NULL /\ b \notin K
  BY <1>0, <1>4, <1>5, <1>8 DEF Withdraw
<1>9. CASE links.head[t] # NULL /\ b \in K
  <2>1. Withdraw(Untouched, t, b) = Destroy(T0, b)
    BY <1>0, <1>4, <1>9 DEF Withdraw, M
  <2>2. T0 = [links |-> M, gone |-> {}, freed |-> {}, called |-> {}, fault |-> "none"]
    BY <1>0
  <2>3. parent[b] = t /\ b \in Live /\ (b = ResizeButton[t] => links.tail[t] = b)
    BY <1>5, <1>9 DEF Inv, Standing, GripLast, HasGrip
  <2>4. /\ M \in Links /\ \A q \in Widget \ {t} : M.head[q] = links.head[q] /\ M.tail[q] = links.tail[q]
        /\ links.tail[t] # b => M.tail[t] = links.tail[t]
        /\ LosesWay(M, b) <=> links.next[b] # NULL
        /\ links.next[b] = NULL => /\ M.next = links.next
                                   /\ Cut(links, Unchained(M, b), K, b, t)
    BY <1>1, <1>3, <1>9, <2>3, WithdrawnCuts DEF M
  <2>5. CASE links.next[b] = NULL
    <3>1. links.tail[t] = b
      BY <1>4, <1>9, <2>5
    <3>2. /\ parent[b] = NULL => Unchained(M, b) = links
          /\ parent[b] # NULL => Cut(links, Unchained(M, b), Below(parent, parent[b]), b, parent[b])
          /\ \A q \in Widget : q # parent[b] => M.head[q] = links.head[q]
          /\ M \in Links /\ M.next = links.next /\ ~LosesWay(M, b)
      BY <1>1, <2>3, <2>4, <2>5 DEF K
    <3>3. Removes(Destroy([Untouched EXCEPT !.links = M], b), b)
      BY <2>3, <3>2, TakingOut
    <3> QED BY <2>1, <2>3, <3>1, <3>3
  <2>6. CASE links.next[b] # NULL
    <3>1. links.tail[t] # b
      BY <1>4, <1>9, <2>6
    <3>2. b = QuitButton[t]
      BY <2>3, <3>1
    <3> DEFINE T == Destroy(T0, b)
    <3>3. T = [links |-> M, gone |-> {}, freed |-> {}, called |-> {}, fault |-> "lost_child"]
      BY <2>2, <2>4, <2>6 DEF Destroy
    <3>4. GripsStay(M, {})
      <4> SUFFICES ASSUME NEW s \in Toplevel, resizable[s], s \in Live, ResizeButton[s] \in Live
                   PROVE  M.tail[s] = ResizeButton[s]
        BY DEF GripsStay
      <4>1. links.tail[s] = ResizeButton[s]
        BY DEF Inv, GripLast, HasGrip
      <4>2. M.tail[s] = links.tail[s]
        BY <2>4, <3>1 DEF Live
      <4> QED BY <4>1, <4>2
    <3>5. Idle(T)
      BY <2>4, <3>3, <3>4 DEF Idle
    <3> QED BY <2>1, <2>3, <3>2, <3>3, <3>5
  <2> QED BY <2>5, <2>6
<1> QED BY <1>7, <1>8, <1>9

LEMMA UntouchedIdle ==
  ASSUME Inv
  PROVE  /\ Idle(Untouched) /\ Untouched.fault = "none"
         /\ Idle([Untouched EXCEPT !.fault = "no_child"])
<1>1. GripsStay(links, {})
  BY DEF GripsStay, Inv, GripLast, HasGrip
<1> QED BY <1>1 DEF Idle, Untouched, Inv

(* What a call of ei_toplevel_configure does to the tree.                  *)
Configured(t, c, r) ==
  LET closed == IF c = FALSE THEN Withdraw(Untouched, t, QuitButton[t]) ELSE Untouched
  IN  IF r = FALSE THEN Withdraw(closed, t, ResizeButton[t]) ELSE closed

(* At most one of the two buttons goes.                                    *)
LEMMA ConfigureDoes ==
  ASSUME Inv, fault = "none", NEW t \in Toplevel \cap Live, NEW c, NEW r
  PROVE  LET T == Configured(t, c, r)
         IN  /\ Idle(T) \/ \E w \in Live : Removed(T, w)
             /\ t \notin T.freed
             /\ T.fault \in {"none", "lost_child", "no_child"}
             /\ T.fault # "none" => c = FALSE \/ QuitButton[t] \notin Live
             /\ T.fault = "none" /\ r = FALSE => ResizeButton[t] \notin Live \ T.freed
<1> DEFINE q == QuitButton[t]
           g == ResizeButton[t]
           closed == IF c = FALSE THEN Withdraw(Untouched, t, q) ELSE Untouched
           T == IF r = FALSE THEN Withdraw(closed, t, g) ELSE closed
           lone == Withdraw(Untouched, t, g)
           Good(X) == /\ Idle(X) \/ \E w \in Live : Removed(X, w)
                      /\ t \notin X.freed
                      /\ X.fault \in {"none", "lost_child", "no_child"}
                      /\ X.fault # "none" => c = FALSE \/ q \notin Live
                      /\ X.fault = "none" /\ r = FALSE => g \notin Live \ X.freed
<1> SUFFICES Good(T)
  BY DEF Configured
<1>1. /\ \/ q \notin Live /\ links.head[t] = NULL /\ Withdraw(Untouched, t, q) = [Untouched EXCEPT !.fault = "no_child"]
         \/ q \notin Live /\ Withdraw(Untouched, t, q) = Untouched
         \/ /\ q \in Live /\ Idle(Withdraw(Untouched, t, q)) /\ Withdraw(Untouched, t, q).fault = "lost_child"
         \/ q \in Live /\ links.tail[t] = q /\ Removes(Withdraw(Untouched, t, q), q)
  BY WithdrawDoes
<1>2. /\ t \in Widget /\ q \in Widget /\ g \in Widget /\ q # g /\ NULL \notin Widget
      /\ q \in Live => parent[q] = t
      /\ g \in Live => parent[g] = t /\ links.tail[t] = g
      /\ parent \in Pointer
  BY Constants DEF Inv, Standing, GripLast, HasGrip, TypeOK, Pointer
<1>3. /\ Idle(Untouched) /\ Untouched.fault = "none"
      /\ Idle([Untouched EXCEPT !.fault = "no_child"])
      /\ [Untouched EXCEPT !.fault = "no_child"].fault = "no_child"
  BY UntouchedIdle DEF Untouched
<1>4. \/ g \notin Live /\ links.head[t] = NULL /\ lone = [Untouched EXCEPT !.fault = "no_child"]
      \/ g \notin Live /\ lone = Untouched
      \/ g \in Live /\ Removes(lone, g)
  BY <1>2, WithdrawDoes
<1>5. links.head[t] = NULL => q \notin Live
  <2>1. PICK at \in Places : Tree(links, parent, at)
    BY DEF Inv, Standing
  <2>2. links \in Links
    BY DEF Inv
  <2> HIDE DEF q
  <2>3. \A d \in Widget : parent[d] = t => links.head[t] # NULL
    BY <1>2, <2>1, <2>2, TreeLinks
  <2> QED BY <1>2, <2>3
<1>6. ASSUME NEW X, Idle(X) PROVE t \notin X.freed /\ X.freed = {}
  BY <1>6 DEF Idle
<1>7. ASSUME NEW X, NEW b \in Live, parent[b] = t, Removed(X, b) PROVE t \notin X.freed /\ b \in X.freed
  BY <1>7 DEF Removed, IsFamily
<1> HIDE DEF q, g, closed, lone, T
<1>8. CASE closed = Untouched
  <2>1. CASE r # FALSE
    BY <1>3, <1>6, <1>8, <2>1 DEF T
  <2>2. CASE r = FALSE
    <3>1. T = lone
      BY <1>8, <2>2 DEF lone, T
    <3>2. CASE g \notin Live /\ links.head[t] = NULL /\ lone = [Untouched EXCEPT !.fault = "no_child"]
      BY <1>3, <1>5, <1>6, <3>1, <3>2
    <3>3. CASE g \notin Live /\ lone = Untouched
      BY <1>3, <1>6, <3>1, <3>3
    <3>4. CASE g \in Live /\ Removes(lone, g)
      BY <1>2, <1>7, <3>1, <3>4 DEF Removes
    <3> QED BY <1>4, <3>2, <3>3, <3>4
  <2> QED BY <2>1, <2>2
<1>9. CASE c = FALSE /\ Idle(closed) /\ closed.fault \in {"lost_child", "no_child"}
  <2>1. T = closed
    BY <1>9 DEF Withdraw, T
  <2> QED BY <1>6, <1>9, <2>1
<1>10. CASE c = FALSE /\ q \in Live /\ links.tail[t] = q /\ Removes(closed, q)
  <2>1. g \notin Live
    BY <1>2, <1>10
  <2>2. t \notin closed.freed /\ closed.fault = "none" /\ Removed(closed, q)
    BY <1>2, <1>7, <1>10 DEF Removes
  <2>3. CASE T = closed
    BY <1>10, <2>1, <2>2, <2>3
  <2>4. CASE r = FALSE /\ T # closed
    <3>1. PICK at \in Places : Tree(links, parent, at)
      BY DEF Inv, Standing
    <3>2. /\ closed.links \in Links /\ Without(parent, closed.freed) \in Pointer
          /\ Tree(closed.links, Without(parent, closed.freed), at)
      BY <2>2, <3>1 DEF Removed
    <3> DEFINE K == Below(Without(parent, closed.freed), t)
    <3>3. Sorted(closed.links, K, t, at) /\ K \in SUBSET Widget
      BY <1>2, <3>2 DEF Tree, Below
    <3>4. g \notin K
      <4>1. parent[g] # t
        BY <1>2, <2>1 DEF Inv, Standing
      <4> QED BY <1>2, <4>1 DEF Below, Without
    <3> HIDE DEF K
    <3>5. Children(closed.links, t) = K
      BY <1>2, <3>2, <3>3, SortedChildren
    <3>6. T = Withdraw(closed, t, g)
      BY <2>4 DEF T
    <3>7. T = [closed EXCEPT !.fault = "no_child"]
      BY <2>2, <2>4, <3>4, <3>5, <3>6 DEF Withdraw
    <3>8. Removed(T, q) /\ T.fault = "no_child"
      BY <1>10, <3>7 DEF Removes
    <3> QED BY <1>2, <1>7, <1>10, <3>8
  <2>5. T = closed \/ r = FALSE
    BY DEF T
  <2> QED BY <2>3, <2>4, <2>5
<1> QED BY <1>1, <1>3, <1>8, <1>9, <1>10 DEF closed


LEMMA ConfigureKeeps ==
  ASSUME Inv, fault = "none", NEW t \in Toplevel, NEW c \in BOOLEAN \cup {NULL},
         NEW r \in BOOLEAN \cup {NULL}, ei_toplevel_configure(t, c, r)
  PROVE  Inv'
<1> DEFINE T == Configured(t, c, r)
<1>1. /\ t \in Toplevel \cap Live /\ Becomes(T)
      /\ closable' = [closable EXCEPT ![t] = IF c = NULL THEN @ ELSE c]
      /\ resizable' = [resizable EXCEPT ![t] = IF r = NULL THEN @ ELSE r]
  BY DEF ei_toplevel_configure, Configured
<1>2. /\ Idle(T) \/ \E w \in Live : Removed(T, w)
      /\ t \notin T.freed
      /\ T.fault \in {"none", "lost_child", "no_child"}
      /\ T.fault # "none" => c = FALSE \/ QuitButton[t] \notin Live
      /\ T.fault = "none" /\ r = FALSE => ResizeButton[t] \notin Live \ T.freed
  BY <1>1, ConfigureDoes
<1> HIDE DEF T
<1>3. NULL \notin BOOLEAN /\ closable \in [Toplevel -> BOOLEAN] /\ resizable \in [Toplevel -> BOOLEAN]
  BY Constants DEF Inv, TypeOK
<1>4. closable' \in [Toplevel -> BOOLEAN] /\ resizable' \in [Toplevel -> BOOLEAN]
  BY <1>1, <1>3
<1>5. T.fault # "none" => \E s \in Toplevel \cap (Live \ T.freed) :
                            closable'[s] = FALSE \/ QuitButton[s] \notin Live
  <2>1. c = FALSE => closable'[t] = FALSE
    BY <1>1, <1>3
  <2> QED BY <1>1, <1>2, <2>1
<1>6. T.fault = "none" => \A s \in Toplevel :
        ResizeButton[s] \in Live \ T.freed \/ status[s] = "unborn" => resizable'[s]
  <2> SUFFICES ASSUME T.fault = "none", NEW s \in Toplevel,
                      ResizeButton[s] \in Live \ T.freed \/ status[s] = "unborn"
               PROVE  resizable'[s]
    OBVIOUS
  <2>1. resizable[s] = TRUE
    BY <1>3 DEF Inv, Standing
  <2>2. CASE s = t
    <3>1. ResizeButton[t] \in Live \ T.freed
      BY <1>1, <2>2 DEF Live
    <3>2. r # FALSE
      BY <1>2, <3>1
    <3>3. resizable'[t] = (IF r = NULL THEN resizable[t] ELSE r)
      BY <1>1, <1>3
    <3> QED BY <2>1, <2>2, <3>2, <3>3
  <2>3. CASE s # t
    <3>1. resizable'[s] = resizable[s]
      BY <1>1, <1>3, <2>3
    <3> QED BY <2>1, <3>1
  <2> QED BY <2>2, <2>3
<1> QED BY <1>1, <1>2, <1>4, <1>5, <1>6, BecomesKeeps

-----------------------------------------------------------------------------
LEMMA InitKeeps == Init => Inv
<1> SUFFICES ASSUME Init PROVE Inv
  OBVIOUS
<1>1. /\ status = [w \in Widget |-> IF w = Root THEN "live" ELSE "unborn"]
      /\ parent = [w \in Widget |-> NULL]
      /\ links.head = [w \in Widget |-> NULL] /\ links.tail = [w \in Widget |-> NULL]
      /\ links.next = [w \in Widget |-> NULL]
      /\ links \in Links
      /\ closable = [t \in Toplevel |-> TRUE] /\ resizable = [t \in Toplevel |-> TRUE]
      /\ notified = {} /\ fault = "none"
  BY DEF Init, NoLink, Links, Pointer
<1>2. /\ Root \in Widget /\ Root \notin Toplevel /\ Root \notin Decoration /\ NULL \notin Widget
      /\ \A w \in Live : w = Root
  BY <1>1, ClassAssumption, NullAssumption DEF Live
<1>3. TypeOK
  BY <1>1 DEF TypeOK
<1>4. GripLast /\ CallsComplete /\ DestructorsHonest
  BY <1>1, <1>2 DEF GripLast, CallsComplete, DestructorsHonest
<1>5. Standing
  <2> DEFINE zero == [w \in Widget |-> 0]
  <2>1. zero \in Places /\ Deep(parent, zero)
    BY <1>1 DEF Places, Deep
  <2>2. Tree(links, parent, zero)
    <3>1. \A p \in Widget : Below(parent, p) = {}
      BY <1>1, <1>2 DEF Below
    <3>2. \A p \in Widget : Sorted(links, {}, p, zero)
      BY <1>1 DEF Sorted
    <3> QED BY <1>1, <3>1, <3>2 DEF Tree
  <2>3. \A t \in Toplevel : \A b \in {QuitButton[t], ResizeButton[t]} :
          b \notin Live /\ status[b] = "unborn"
    <3> SUFFICES ASSUME NEW t \in Toplevel, NEW b \in {QuitButton[t], ResizeButton[t]}
                 PROVE  b \notin Live /\ status[b] = "unborn"
      OBVIOUS
    <3>1. b \in Decoration /\ b \in Widget
      BY Constants
    <3>2. b # Root
      BY <1>2, <3>1
    <3> QED BY <1>1, <3>1, <3>2 DEF Live
  <2>4. \A x \in Widget : parent[x] = NULL
    BY <1>1
  <2>5. \A t \in Toplevel : resizable[t]
    BY <1>1
  <2> HIDE DEF zero
  <2> QED BY <2>1, <2>2, <2>3, <2>4, <2>5 DEF Standing
<1> QED BY <1>1, <1>3, <1>4, <1>5 DEF Inv

LEMMA StepKeeps == Inv /\ [Next]_vars => Inv'
<1> SUFFICES ASSUME Inv, [Next]_vars PROVE Inv'
  OBVIOUS
<1>1. CASE UNCHANGED vars
  <2>1. TypeOK' /\ (links \in Links)'
    BY <1>1 DEF vars, Inv, TypeOK
  <2>2. GripLast' /\ CallsComplete' /\ DestructorsHonest'
    BY <1>1 DEF vars, Inv, GripLast, CallsComplete, DestructorsHonest, HasGrip, Live
  <2>3. (fault = "none" => Standing)'
    BY <1>1 DEF vars, Inv, Standing, Live
  <2> QED BY <2>1, <2>2, <2>3 DEF Inv
<1>2. CASE Over /\ UNCHANGED vars
  BY <1>1, <1>2
<1>3. ASSUME ~Over, NEW w \in Widget, NEW p \in Widget, ei_widget_create(w, p) PROVE Inv'
  BY <1>3, CreateKeeps DEF Over
<1>4. ASSUME ~Over, NEW w \in Widget, ei_widget_destroy(w) PROVE Inv'
  BY <1>4, DestroyKeeps DEF Over
<1>5. ASSUME ~Over, NEW t \in Toplevel, NEW c \in BOOLEAN \cup {NULL}, NEW r \in BOOLEAN \cup {NULL},
             ei_toplevel_configure(t, c, r)
      PROVE  Inv'
  BY <1>5, ConfigureKeeps DEF Over
<1> QED BY <1>1, <1>2, <1>3, <1>4, <1>5 DEF Next

LEMMA Invariance == Spec => []Inv
<1> QED BY InitKeeps, StepKeeps, PTL DEF Spec

(* The variables keep their types: every pointer leads to a widget or is   *)
(* null, whatever is created, destroyed or configured.                     *)
THEOREM TypeCorrect == Spec => []TypeOK
<1>1. Inv => TypeOK
  BY DEF Inv
<1> QED BY <1>1, Invariance, PTL

(* children_head, next_sibling and children_tail agree on who the children *)
(* of a live widget are, and in which order: no call of ei_widget_create,  *)
(* ei_widget_destroy or ei_toplevel_configure that returns breaks a list.  *)
THEOREM ListsAgree == Spec => []WellLinked
<1>1. Inv => WellLinked
  <2> SUFFICES ASSUME Inv, fault = "none", NEW p \in Live
               PROVE  /\ Children(links, p) = {c \in Live : parent[c] = p}
                      /\ \A c \in Children(links, p) : c \notin SiblingsFrom(links, links.next[c])
                      /\ IF Children(links, p) = {} THEN links.tail[p] = NULL
                         ELSE /\ links.tail[p] \in Children(links, p)
                              /\ links.next[links.tail[p]] = NULL
    BY DEF WellLinked
  <2> DEFINE K == Below(parent, p)
  <2>1. /\ links \in Links /\ p \in Widget /\ K \in SUBSET Widget /\ NULL \notin Widget
    BY Constants DEF Inv, Live, Below
  <2>2. PICK at \in Places : Tree(links, parent, at)
    BY DEF Inv, Standing
  <2>3. Sorted(links, K, p, at)
    BY <2>1, <2>2 DEF Tree
  <2>4. K = {c \in Live : parent[c] = p}
    BY <2>1 DEF Inv, Standing, Below, Live
  <2> HIDE DEF K
  <2>5. /\ Children(links, p) = K
        /\ \A c \in K : c \notin SiblingsFrom(links, links.next[c])
        /\ K # {} => links.next[links.tail[p]] = NULL
    BY <2>1, <2>3, SortedChildren
  <2>6. /\ K = {} => links.tail[p] = NULL
        /\ K # {} => links.tail[p] \in K
    BY <2>3 DEF Sorted
  <2> QED BY <2>4, <2>5, <2>6
<1> QED BY <1>1, Invariance, PTL

(* The resize button is the last child of every toplevel that has one and  *)
(* can be resized, so that it is drawn above the others.                   *)
THEOREM GripStaysLast == Spec => []GripLast
<1>1. Inv => GripLast
  BY DEF Inv
<1> QED BY <1>1, Invariance, PTL

(* No call follows a null pointer as long as every live toplevel can be    *)
(* closed and has the buttons it was made with.                            *)
THEOREM NoNullFollowed == Spec => []CallsComplete
<1>1. Inv => CallsComplete
  BY DEF Inv
<1> QED BY <1>1, Invariance, PTL

(* The destructor of every widget destroyed by a call of its own is called,*)
(* and that of no widget that stays.                                       *)
THEOREM DestructorsCalled == Spec => []DestructorsHonest
<1>1. Inv => DestructorsHonest
  BY DEF Inv
<1> QED BY <1>1, Invariance, PTL


-----------------------------------------------------------------------------
(* WidgetTree implements WidgetLife.                                       *)

(* The chains of parents within a set are the same after a change outside. *)
LEMMA AncestorsSame ==
  ASSUME NEW up \in Pointer, NEW up2 \in Pointer, NEW A \in SUBSET Widget,
         \A c \in A : up[c] \in A \cup {NULL} /\ up2[c] = up[c], NEW c \in A
  PROVE  Reached(c, {up2}) = Reached(c, {up}) /\ Reached(c, {up}) \subseteq A
<1>1. c \in Widget \cup {NULL} /\ {up} \in SUBSET Pointer
  OBVIOUS
<1>2. Closed(A, c, {up})
  BY DEF Closed
<1>3. Reached(c, {up}) \subseteq A
  BY <1>1, <1>2, ReachedIs
<1>4. \A d \in Reached(c, {up}) : up2[d] = up[d]
  BY <1>3
<1> QED BY <1>1, <1>3, <1>4, ReachedSame

(* A family is what has its first member above it.                         *)
LEMMA FamilyIs ==
  ASSUME NEW up \in Pointer, NEW w \in Widget, NEW S, IsFamily(S, up, w), NEW d \in Widget
  PROVE  w \in Reached(d, {up}) <=> d \in S
<1> DEFINE B == {c \in Widget : w \in Reached(c, {up})}
           A == Widget \ S
<1>1. NULL \notin Widget /\ \A c \in Widget : up[c] \in Widget \cup {NULL}
  BY NullAssumption DEF Pointer
<1>2. \A c \in Widget : Reached(c, {up}) = {c} \cup Reached(up[c], {up})
  BY ReachedStep
<1>3. S \subseteq B
  <2>1. w \in B
    BY <1>2
  <2>2. \A c \in Widget : up[c] \in B => c \in B
    BY <1>2
  <2> HIDE DEF B
  <2>3. B \in SUBSET Widget
    BY DEF B
  <2> QED BY <2>1, <2>2, <2>3 DEF IsFamily
<1>4. ASSUME d \notin S PROVE w \notin Reached(d, {up})
  <2>1. \A c \in A : up[c] \in A \cup {NULL} /\ up[c] = up[c]
    BY <1>1 DEF IsFamily
  <2>2. d \in A /\ A \in SUBSET Widget
    BY <1>4
  <2> HIDE DEF A
  <2>3. Reached(d, {up}) \subseteq A
    BY <2>1, <2>2, AncestorsSame
  <2> QED BY <2>3 DEF A, IsFamily
<1> QED BY <1>3, <1>4

LEMMA LifeInit == Init => Life!Init
<1> SUFFICES ASSUME Init PROVE Life!Init
  OBVIOUS
<1>1. status = [w \in Widget |-> IF w = Root THEN "live" ELSE "unborn"] /\ parent = [w \in Widget |-> NULL]
  BY DEF Init, NoLink
<1>2. Root \in Widget /\ parent \in Pointer
  BY <1>1, ClassAssumption DEF Pointer
<1>3. Ancestors(Root) = {Root}
  <2>1. Reached(parent[Root], {parent}) = {}
    BY <1>1, <1>2, ReachedNull
  <2> QED BY <1>2, <2>1, ReachedStep DEF Ancestors
<1> QED BY <1>1, <1>2, <1>3 DEF Life!Init, Live

LEMMA LifeCreate ==
  ASSUME Inv, fault = "none", NEW w \in Widget, NEW p \in Widget,
         ei_widget_create(w, p), ~WalksOff(p)
  PROVE  /\ Newborn(w) \ {w} \in SUBSET {c \in Widget \ {w} : status[c] = "unborn"}
         /\ Life!Create(w, p, Newborn(w) \ {w})
<1> DEFINE parts == Newborn(w) \ {w}
           above == [c \in Widget |-> IF c \in Live THEN Ancestors(c) ELSE {}]
           above2 == [c \in Widget |-> IF status'[c] = "live" THEN Reached(c, {parent'}) ELSE {}]
<1>1. /\ p \in Live
      /\ w \in Newborn(w) /\ Newborn(w) \subseteq Widget
      /\ \A c \in Newborn(w) : status[c] = "unborn"
      /\ status' = [c \in Widget |-> IF c \in Newborn(w) THEN "live" ELSE status[c]]
      /\ parent'[w] = p /\ \A c \in Newborn(w) \ {w} : parent'[c] = w
      /\ \A c \in Widget \ Newborn(w) : parent'[c] = parent[c]
      /\ parent' \in Pointer
  BY CreateDoes DEF GrownTo
<1>2. parent \in Pointer /\ NULL \notin Widget
  BY Constants DEF Inv, TypeOK, Pointer
<1>3. \A c \in Live : Reached(c, {parent'}) = Reached(c, {parent})
  <2>1. \A c \in Live : parent[c] \in Live \cup {NULL} /\ parent'[c] = parent[c]
    <3> SUFFICES ASSUME NEW c \in Live PROVE parent[c] \in Live \cup {NULL} /\ parent'[c] = parent[c]
      OBVIOUS
    <3>1. c \in Widget \ Newborn(w)
      BY <1>1 DEF Live
    <3>2. parent[c] \in Live \cup {NULL}
      BY <3>1 DEF Inv, Standing
    <3> QED BY <1>1, <3>1, <3>2
  <2>2. Live \in SUBSET Widget
    BY DEF Live
  <2> SUFFICES ASSUME NEW x \in Live PROVE Reached(x, {parent'}) = Reached(x, {parent})
    OBVIOUS
  <2>3. PICK A \in SUBSET Widget : A = Live
    BY <2>2
  <2>4. PICK up2 \in Pointer : up2 = parent'
    BY <1>1
  <2>5. \A c \in A : parent[c] \in A \cup {NULL} /\ up2[c] = parent[c]
    BY <2>1, <2>3, <2>4
  <2>6. x \in A /\ parent \in Pointer
    BY <1>2, <2>3
  <2>7. Reached(x, {up2}) = Reached(x, {parent})
    BY <2>5, <2>6, AncestorsSame
  <2> QED BY <2>4, <2>7
<1>4. Reached(w, {parent'}) = {w} \cup Reached(p, {parent})
  <2>1. Reached(w, {parent'}) = {w} \cup Reached(parent'[w], {parent'})
    BY <1>1, ReachedStep
  <2> QED BY <1>1, <1>3, <2>1
<1>5. \A c \in parts : Reached(c, {parent'}) = {w, c} \cup Reached(p, {parent})
  <2> SUFFICES ASSUME NEW c \in parts PROVE Reached(c, {parent'}) = {w, c} \cup Reached(p, {parent})
    OBVIOUS
  <2>1. Reached(c, {parent'}) = {c} \cup Reached(parent'[c], {parent'})
    BY <1>1, ReachedStep
  <2> QED BY <1>1, <1>4, <2>1
<1>6. /\ above[p] = Reached(p, {parent})
      /\ \A c \in Widget : above[c] = IF status[c] = "live" THEN Reached(c, {parent}) ELSE {}
  BY <1>1 DEF Live, Ancestors
<1>7. above2 = [c \in Widget |-> IF c = w THEN above[p] \cup {w}
                                 ELSE IF c \in parts THEN above[p] \cup {w, c}
                                 ELSE above[c]]
  <2> SUFFICES ASSUME NEW c \in Widget
               PROVE  (IF status'[c] = "live" THEN Reached(c, {parent'}) ELSE {})
                        = IF c = w THEN above[p] \cup {w}
                          ELSE IF c \in parts THEN above[p] \cup {w, c} ELSE above[c]
    OBVIOUS
  <2> HIDE DEF above
  <2>1. CASE c = w
    BY <1>1, <1>4, <1>6, <2>1
  <2>2. CASE c \in parts
    BY <1>1, <1>5, <1>6, <2>2
  <2>3. CASE c \notin Newborn(w)
    <3>1. status'[c] = status[c] /\ c # w /\ c \notin parts
      BY <1>1, <2>3
    <3> QED BY <1>3, <1>6, <3>1 DEF Live
  <2> QED BY <2>1, <2>2, <2>3
<1>8. above2 = [c \in Widget |-> IF c \in Live THEN Ancestors(c) ELSE {}]'
  BY DEF Live, Ancestors
<1>9. /\ Newborn(w) = parts \cup {w}
      /\ parts \in SUBSET {c \in Widget \ {w} : status[c] = "unborn"}
  BY <1>1
<1> HIDE DEF parts, above2
<1>10. Life!Create(w, p, parts)
  <2>1. \A c \in parts \cup {w} : status[c] = "unborn"
    BY <1>1, <1>9
  <2>2. status' = [c \in Widget |-> IF c \in parts \cup {w} THEN "live" ELSE status[c]]
    BY <1>1, <1>9
  <2>3. p \in Life!Live
    BY <1>1 DEF Life!Live, Live
  <2> QED BY <1>7, <1>8, <2>1, <2>2, <2>3 DEF Life!Create
<1> QED BY <1>9, <1>10 DEF parts


LEMMA LifeDestroy ==
  ASSUME Inv, fault = "none", NEW w \in Live, NEW T, Removed(T, w), Becomes(T)
  PROVE  Life!Destroy(w)
<1> DEFINE S == T.freed
           above == [c \in Widget |-> IF c \in Live THEN Ancestors(c) ELSE {}]
           above2 == [c \in Widget |-> IF status'[c] = "live" THEN Reached(c, {parent'}) ELSE {}]
           family == {d \in Widget : status[d] = "live" /\ w \in above[d]}
<1>1. /\ IsFamily(S, parent, w) /\ T.gone = {w} /\ S \subseteq Live
      /\ Without(parent, S) \in Pointer
  BY Outcome DEF Removed
<1>2. /\ parent' = Without(parent, S)
      /\ status' = [c \in Widget |-> IF c \in {w} THEN "destroyed" ELSE IF c \in S THEN "released" ELSE status[c]]
  BY <1>1 DEF Becomes
<1>3. /\ parent \in Pointer /\ NULL \notin Widget /\ w \in Widget /\ S \subseteq Widget /\ w \in S
      /\ parent' \in Pointer
      /\ \A c \in Widget \ S : parent[c] \in (Widget \ S) \cup {NULL} /\ parent'[c] = parent[c]
  <2>1. /\ parent \in Pointer /\ NULL \notin Widget /\ w \in Widget /\ S \subseteq Widget /\ w \in S
    BY <1>1, Constants DEF Inv, TypeOK, Pointer, Live, IsFamily
  <2>2. parent' \in Pointer
    BY <1>1, <1>2
  <2>3. \A c \in Widget \ S : parent[c] \in (Widget \ S) \cup {NULL}
    BY <1>1, <2>1 DEF IsFamily, Pointer
  <2>4. \A c \in Widget \ S : parent'[c] = parent[c]
    BY <1>2 DEF Without
  <2> QED BY <2>1, <2>2, <2>3, <2>4
<1>4. \A d \in Widget : w \in Reached(d, {parent}) <=> d \in S
  BY <1>1, <1>3, FamilyIs
<1>5. family = S
  <2>1. \A d \in Widget : status[d] = "live" => above[d] = Reached(d, {parent})
    BY DEF Live, Ancestors
  <2> HIDE DEF above
  <2>2. \A d \in S : d \in Widget /\ status[d] = "live"
    BY <1>1 DEF Live
  <2>3. \A d \in Widget : status[d] = "live" /\ w \in above[d] <=> d \in S
    BY <1>4, <2>1, <2>2
  <2> HIDE DEF S
  <2> QED BY <2>2, <2>3
<1>6. \A c \in Widget \ S : Reached(c, {parent'}) = Reached(c, {parent})
  <2>1. PICK A \in SUBSET Widget : A = Widget \ S
    OBVIOUS
  <2>2. PICK up2 \in Pointer : up2 = parent'
    BY <1>3
  <2>3. \A c \in A : parent[c] \in A \cup {NULL} /\ up2[c] = parent[c]
    BY <1>3, <2>1, <2>2
  <2>4. parent \in Pointer
    BY <1>3
  <2> SUFFICES ASSUME NEW c \in A PROVE Reached(c, {up2}) = Reached(c, {parent})
    BY <2>1, <2>2
  <2> HIDE DEF S
  <2> QED BY <2>3, <2>4, AncestorsSame
<1>7. above2 = [c \in Widget |-> IF c \in family THEN {} ELSE above[c]]
  <2> SUFFICES ASSUME NEW c \in Widget
               PROVE  (IF status'[c] = "live" THEN Reached(c, {parent'}) ELSE {})
                        = IF c \in family THEN {} ELSE above[c]
    OBVIOUS
  <2>1. above[c] = IF status[c] = "live" THEN Reached(c, {parent}) ELSE {}
    BY DEF Live, Ancestors
  <2> HIDE DEF above, family
  <2>2. CASE c \in S
    <3>1. status'[c] # "live"
      BY <1>2, <2>2
    <3> QED BY <1>5, <2>2, <3>1
  <2>3. CASE c \notin S
    <3>1. status'[c] = status[c]
      BY <1>2, <1>3, <2>3
    <3> QED BY <1>5, <1>6, <2>1, <2>3, <3>1
  <2> QED BY <2>2, <2>3
<1>8. above2 = [c \in Widget |-> IF c \in Live THEN Ancestors(c) ELSE {}]'
  BY DEF Live, Ancestors
<1>9. status' = [c \in Widget |-> IF c = w THEN "destroyed" ELSE IF c \in family THEN "released" ELSE status[c]]
  <2> HIDE DEF family
  <2> QED BY <1>2, <1>5
<1>10. Life!Family(w) = family
  BY DEF Life!Family, Life!Live
<1> HIDE DEF family, above2
<1>11. w \in Life!Live
  BY DEF Life!Live, Live
<1> QED BY <1>7, <1>8, <1>9, <1>10, <1>11 DEF Life!Destroy

LEMMA LifeStutters ==
  ASSUME status' = status, parent' = parent
  PROVE  UNCHANGED Life!lifeVars
<1>1. Live' = Live /\ \A c \in Widget : Ancestors(c)' = Ancestors(c)
  BY DEF Live, Ancestors
<1> QED BY <1>1 DEF Life!lifeVars, Live, Ancestors

LEMMA LifeRemove ==
  ASSUME Inv, fault = "none", NEW T, Idle(T) \/ \E w \in Live : Removed(T, w), Becomes(T)
  PROVE  [Life!Next]_(Life!lifeVars)
<1>1. CASE Idle(T)
  <2>1. status \in [Widget -> {"unborn", "live", "destroyed", "released"}] /\ parent \in Pointer
    BY DEF Inv, TypeOK, Pointer
  <2>2. status' = status /\ parent' = parent
    BY <1>1, <2>1 DEF Idle, Becomes, Without, Pointer
  <2> QED BY <2>2, LifeStutters
<1>2. ASSUME NEW w \in Live, Removed(T, w) PROVE Life!Next
  <2>1. Life!Destroy(w) /\ w \in Widget
    BY <1>2, LifeDestroy DEF Live
  <2> QED BY <2>1 DEF Life!Next
<1> QED BY <1>1, <1>2

LEMMA LifeStep == Inv /\ [Next]_vars => [Life!Next]_(Life!lifeVars)
<1> SUFFICES ASSUME Inv, [Next]_vars PROVE [Life!Next]_(Life!lifeVars)
  OBVIOUS
<1>1. CASE UNCHANGED vars
  <2>1. status' = status /\ parent' = parent
    BY <1>1 DEF vars
  <2> QED BY <2>1, LifeStutters
<1>2. CASE Over /\ UNCHANGED vars
  BY <1>1, <1>2
<1>3. ASSUME ~Over, NEW w \in Widget, NEW p \in Widget, ei_widget_create(w, p)
      PROVE  [Life!Next]_(Life!lifeVars)
  <2>1. CASE WalksOff(p)
    <3>1. status' = status /\ parent' = parent
      BY <1>3, <2>1 DEF ei_widget_create
    <3> QED BY <3>1, LifeStutters
  <2>2. CASE ~WalksOff(p)
    <3>1. /\ Newborn(w) \ {w} \in SUBSET {c \in Widget \ {w} : status[c] = "unborn"}
          /\ Life!Create(w, p, Newborn(w) \ {w})
      BY <1>3, <2>2, LifeCreate DEF Over
    <3> QED BY <3>1 DEF Life!Next
  <2> QED BY <2>1, <2>2
<1>4. ASSUME ~Over, NEW w \in Widget, ei_widget_destroy(w)
      PROVE  [Life!Next]_(Life!lifeVars)
  <2>1. w \in Live /\ Becomes(Destroy(Untouched, w)) /\ fault = "none"
    BY <1>4 DEF ei_widget_destroy, Over
  <2>2. Removed(Destroy(Untouched, w), w)
    BY <2>1, DestroyRemoves DEF Removes
  <2> QED BY <2>1, <2>2, LifeRemove
<1>5. ASSUME ~Over, NEW t \in Toplevel, NEW c \in BOOLEAN \cup {NULL}, NEW r \in BOOLEAN \cup {NULL},
             ei_toplevel_configure(t, c, r)
      PROVE  [Life!Next]_(Life!lifeVars)
  <2>1. t \in Toplevel \cap Live /\ Becomes(Configured(t, c, r)) /\ fault = "none"
    BY <1>5 DEF ei_toplevel_configure, Configured, Over
  <2>2. Idle(Configured(t, c, r)) \/ \E w \in Live : Removed(Configured(t, c, r), w)
    BY <2>1, ConfigureDoes
  <2> QED BY <2>1, <2>2, LifeRemove
<1> QED BY <1>1, <1>2, <1>3, <1>4, <1>5 DEF Next

(* Whatever the pointers do, the live widgets are a tree from which a      *)
(* widget goes with all that is below it and with nothing else: creating,  *)
(* destroying and configuring widgets implement WidgetLife.                *)
THEOREM LifeImplemented == Spec => ImplementsLife
<1>1. Init => Life!Init
  BY LifeInit
<1>2. Inv /\ [Next]_vars => [Life!Next]_(Life!lifeVars)
  BY LifeStep
<1> QED BY <1>1, <1>2, Invariance, PTL DEF Spec, Life!Spec, ImplementsLife


-----------------------------------------------------------------------------
(* The order in which siblings are drawn.                                  *)
LEMMA SameOrder ==
  ASSUME NEW L \in Links, NEW M \in Links, NEW at \in Places, NEW bt \in Places,
         NEW K \in SUBSET Widget, NEW N \in SUBSET Widget, NEW p \in Widget,
         Sorted(L, K, p, at), Sorted(M, N, p, bt), NEW stay \in SUBSET (K \cap N),
         \A c, d \in stay : bt[c] <= bt[d] <=> at[c] <= at[d], NEW c \in stay
  PROVE  SiblingsFrom(L, c) \cap stay = SiblingsFrom(M, c) \cap stay
<1>1. SiblingsFrom(L, c) = {d \in K : at[c] <= at[d]}
  BY SortedReach
<1>2. SiblingsFrom(M, c) = {d \in N : bt[c] <= bt[d]}
  BY SortedReach
<1> QED BY <1>1, <1>2

OrderAt(p) ==
  LET old == Children(links, p)
      new == Children(links', p)
      stay == {c \in old : status'[c] = "live"}
  IN  /\ stay = {c \in new : status[c] # "unborn"}
      /\ \A c \in stay : SiblingsFrom(links, c) \cap stay = SiblingsFrom(links', c) \cap stay
      /\ \A c \in new \ stay : \A d \in SiblingsFrom(links', links'.next[c]) : IsGrip(d)

LEMMA OrderKeptAt ==
  ASSUME NEW p \in Live, links \in Links, links' \in Links,
         NEW at \in Places, Tree(links, parent, at),
         NEW bt \in Places, Tree(links', parent', bt), NEW N \in SUBSET Widget,
         \A c, d \in Below(parent, p) : bt[c] <= bt[d] <=> at[c] <= at[d],
         {c \in Below(parent, p) : status'[c] = "live"} = Below(parent', p) \ N,
         \A c \in Below(parent', p) : status[c] = "unborn" <=> c \in N,
         \A c \in N \cap Below(parent', p) :
           \A d \in SiblingsFrom(links', links'.next[c]) : IsGrip(d)
  PROVE  OrderAt(p)
<1> DEFINE old == Below(parent, p)
           new == Below(parent', p)
           stay == {c \in old : status'[c] = "live"}
<1>1. /\ p \in Widget /\ old \in SUBSET Widget /\ new \in SUBSET Widget
      /\ Sorted(links, old, p, at) /\ Sorted(links', new, p, bt)
  BY DEF Live, Below, Tree
<1>2. stay = new \ N /\ stay \in SUBSET (old \cap new)
  OBVIOUS
<1>3. \A c \in new : status[c] = "unborn" <=> c \in N
  OBVIOUS
<1>4. \A c, d \in old : bt[c] <= bt[d] <=> at[c] <= at[d]
  OBVIOUS
<1>5. \A c \in N \cap new : \A d \in SiblingsFrom(links', links'.next[c]) : IsGrip(d)
  OBVIOUS
<1> HIDE DEF old, new
<1>6. Children(links, p) = old /\ Children(links', p) = new
  BY <1>1, SortedChildren
<1>7. \A c \in stay : SiblingsFrom(links, c) \cap stay = SiblingsFrom(links', c) \cap stay
  <2> SUFFICES ASSUME NEW c \in stay
               PROVE  SiblingsFrom(links, c) \cap stay = SiblingsFrom(links', c) \cap stay
    OBVIOUS
  <2>1. \A e, d \in stay : bt[e] <= bt[d] <=> at[e] <= at[d]
    BY <1>4
  <2> HIDE DEF stay
  <2> QED BY <1>1, <1>2, <2>1, SameOrder
<1> QED BY <1>2, <1>3, <1>5, <1>6, <1>7 DEF OrderAt

LEMMA CreateOrder ==
  ASSUME Inv, fault = "none", NEW w \in Widget, NEW p \in Widget, ei_widget_create(w, p),
         ~WalksOff(p), NEW q \in Live, HasGrip(q)
  PROVE  OrderAt(q)
<1>1. /\ p \in Live
      /\ w \in Newborn(w) /\ Newborn(w) \subseteq Widget
      /\ \A c \in Newborn(w) : status[c] = "unborn"
      /\ status' = [c \in Widget |-> IF c \in Newborn(w) THEN "live" ELSE status[c]]
      /\ parent'[w] = p /\ \A c \in Newborn(w) \ {w} : parent'[c] = w
      /\ \A c \in Widget \ Newborn(w) : parent'[c] = parent[c]
  BY CreateDoes
<1>2. /\ GrownTo(links', parent')
      /\ HasGrip(p) => \A d \in SiblingsFrom(links', links'.next[w]) : IsGrip(d)
  BY CreateDoes
<1>3. PICK at, bt \in Places : /\ Tree(links, parent, at) /\ Tree(links', parent', bt)
                               /\ OrderKept(parent, at, bt)
  BY <1>2 DEF GrownTo
<1>4. links \in Links /\ links' \in Links
  BY <1>2 DEF GrownTo, Inv
<1>5. \A c, d \in Below(parent, q) : bt[c] <= bt[d] <=> at[c] <= at[d]
  <2>1. q # NULL
    BY Constants DEF Live
  <2> QED BY <1>3, <2>1 DEF OrderKept, Below
<1>6. \A c \in Below(parent, q) : c \in Live /\ c \in Widget \ Newborn(w)
  <2> SUFFICES ASSUME NEW c \in Below(parent, q) PROVE c \in Live /\ c \in Widget \ Newborn(w)
    OBVIOUS
  <2>1. c \in Live
    BY Constants DEF Below, Inv, Standing, Live
  <2> QED BY <1>1, <2>1 DEF Live
<1>7. q \in Widget /\ q # w
  BY <1>1 DEF Live
<1>8. /\ \A c \in Below(parent, q) : status'[c] = "live" /\ c \in Below(parent', q)
      /\ \A c \in Below(parent', q) : /\ c \in Newborn(w) => c = w /\ q = p
                                      /\ c \notin Newborn(w) => c \in Below(parent, q)
  <2>1. \A c \in Below(parent, q) : status'[c] = "live" /\ c \in Below(parent', q)
    BY <1>1, <1>6 DEF Below, Live
  <2>2. \A c \in Below(parent', q) : /\ c \in Newborn(w) => c = w /\ q = p
                                     /\ c \notin Newborn(w) => c \in Below(parent, q)
    BY <1>1, <1>7 DEF Below
  <2> QED BY <2>1, <2>2
<1>9. {c \in Below(parent, q) : status'[c] = "live"} = Below(parent', q) \ Newborn(w)
  BY <1>6, <1>8
<1>10. \A c \in Below(parent', q) : status[c] = "unborn" <=> c \in Newborn(w)
  <2>1. \A c \in Below(parent, q) : status[c] = "live"
    BY <1>6 DEF Live
  <2> QED BY <1>1, <1>8, <2>1
<1>11. \A c \in Newborn(w) \cap Below(parent', q) :
         \A d \in SiblingsFrom(links', links'.next[c]) : IsGrip(d)
  BY <1>2, <1>8
<1> QED BY <1>1, <1>3, <1>4, <1>5, <1>9, <1>10, <1>11, OrderKeptAt

LEMMA RemoveOrder ==
  ASSUME Inv, fault = "none", NEW T, Idle(T) \/ \E w \in Live : Removed(T, w), Becomes(T),
         fault' = "none", NEW q \in Live, status'[q] = "live"
  PROVE  OrderAt(q)
<1>1. /\ T.freed \subseteq Live /\ \A d \in Widget : parent[d] \in T.freed => d \in T.freed
      /\ T.gone \subseteq T.freed /\ T.links \in Links
      /\ T.fault = "none" =>
           \A at \in Places : Tree(links, parent, at) => Tree(T.links, Without(parent, T.freed), at)
  BY Outcome
<1>2. /\ links' = T.links /\ parent' = Without(parent, T.freed) /\ fault' = T.fault
      /\ status' = [c \in Widget |-> IF c \in T.gone THEN "destroyed"
                                     ELSE IF c \in T.freed THEN "released" ELSE status[c]]
  BY DEF Becomes
<1>3. PICK at \in Places : Tree(links, parent, at)
  BY DEF Inv, Standing
<1>4. Tree(links', parent', at) /\ links \in Links /\ links' \in Links
  BY <1>1, <1>2, <1>3 DEF Inv
<1>5. q \in Widget /\ NULL \notin Widget
  BY Constants DEF Live
<1>6. \A c \in Below(parent, q) : c \in Live
  BY <1>5 DEF Inv, Standing, Below
<1>7. /\ \A c \in Below(parent, q) : status'[c] = "live" <=> c \in Below(parent', q)
      /\ \A c \in Below(parent', q) : c \in Below(parent, q)
  <2>1. \A c \in Below(parent, q) : status'[c] = "live" <=> c \notin T.freed
    BY <1>1, <1>2, <1>6 DEF Live
  <2>2. \A c \in Widget : c \in Below(parent', q) <=> c \in Below(parent, q) /\ c \notin T.freed
    BY <1>2, <1>5 DEF Below, Without
  <2>3. Below(parent, q) \subseteq Widget /\ Below(parent', q) \subseteq Widget
    BY DEF Below
  <2> QED BY <2>1, <2>2, <2>3
<1>8. {c \in Below(parent, q) : status'[c] = "live"} = Below(parent', q) \ {}
  BY <1>7
<1>9. \A c \in Below(parent', q) : status[c] # "unborn"
  BY <1>6, <1>7 DEF Live
<1>10. /\ \A c \in Below(parent', q) : status[c] = "unborn" <=> c \in {}
       /\ \A c \in {} \cap Below(parent', q) :
            \A d \in SiblingsFrom(links', links'.next[c]) : IsGrip(d)
       /\ \A c, d \in Below(parent, q) : at[c] <= at[d] <=> at[c] <= at[d]
       /\ {} \in SUBSET Widget
  BY <1>9
<1> QED BY <1>3, <1>4, <1>8, <1>10, OrderKeptAt

LEMMA OrderStep ==
  Inv /\ [Next]_vars =>
    \/ UNCHANGED vars
    \/ \A p \in Live : HasGrip(p) /\ status'[p] = "live" /\ fault' = "none" => OrderAt(p)
<1> SUFFICES ASSUME Inv, Next, ~UNCHANGED vars, NEW q \in Live, HasGrip(q), status'[q] = "live", fault' = "none"
             PROVE  OrderAt(q)
  OBVIOUS
<1>1. ASSUME ~Over, NEW w \in Widget, NEW p \in Widget, ei_widget_create(w, p) PROVE OrderAt(q)
  <2>1. ~WalksOff(p)
    BY <1>1 DEF ei_widget_create
  <2> QED BY <1>1, <2>1, CreateOrder DEF Over
<1>2. ASSUME ~Over, NEW w \in Widget, ei_widget_destroy(w) PROVE OrderAt(q)
  <2>1. w \in Live /\ Becomes(Destroy(Untouched, w)) /\ fault = "none"
    BY <1>2 DEF ei_widget_destroy, Over
  <2>2. Removed(Destroy(Untouched, w), w)
    BY <2>1, DestroyRemoves DEF Removes
  <2> QED BY <2>1, <2>2, RemoveOrder
<1>3. ASSUME ~Over, NEW t \in Toplevel, NEW c \in BOOLEAN \cup {NULL}, NEW r \in BOOLEAN \cup {NULL},
             ei_toplevel_configure(t, c, r)
      PROVE  OrderAt(q)
  <2>1. t \in Toplevel \cap Live /\ Becomes(Configured(t, c, r)) /\ fault = "none"
    BY <1>3 DEF ei_toplevel_configure, Configured, Over
  <2>2. Idle(Configured(t, c, r)) \/ \E w \in Live : Removed(Configured(t, c, r), w)
    BY <2>1, ConfigureDoes
  <2> QED BY <2>1, <2>2, RemoveOrder
<1> QED BY <1>1, <1>2, <1>3 DEF Next

(* No call changes the order in which the children that stay are drawn,    *)
(* and a new child is drawn above all of them but the resize button, in    *)
(* any widget that is no toplevel robbed of it.                            *)
THEOREM OrderOfDrawing == Spec => DrawingOrder
<1>1. Inv /\ [Next]_vars =>
        [\A p \in Live : HasGrip(p) /\ status'[p] = "live" /\ fault' = "none" =>
           LET old == Children(links, p)
               new == Children(links', p)
               stay == {c \in old : status'[c] = "live"}
           IN  /\ stay = {c \in new : status[c] # "unborn"}
               /\ \A c \in stay :
                    SiblingsFrom(links, c) \cap stay = SiblingsFrom(links', c) \cap stay
               /\ \A c \in new \ stay : \A d \in SiblingsFrom(links', links'.next[c]) : IsGrip(d)]_vars
  BY OrderStep DEF OrderAt
<1> QED BY <1>1, Invariance, PTL DEF Spec, DrawingOrder

=============================================================================
