------------------------- MODULE EdgeRefinementProofs -------------------------
(***************************************************************************)
(* The edge store implements AdjacencyGraph, for any number of backends,   *)
(* nodes, edges, pages and transactions.                                   *)
(*                                                                         *)
(* The lists of AdjacencyGraph are read off the pages by a recursion along *)
(* the pointers.  The first part shows that it is well defined when every  *)
(* pointer leads to an earlier address, and what it depends on; induction  *)
(* is over the physical order of the addresses, as the existence of a      *)
(* least address in every nonempty set of them.                            *)
(***************************************************************************)
EXTENDS EdgeRefinement, EdgeStoreProofs, WellFoundedInduction

\* The pointer of an item, and the value that the recursion gives a pointer
\* when g has the values of the pointers it leads to.
NextOf(it, dir, a) == IF dir = "out" THEN it[a].nextOut ELSE it[a].nextIn

Value(it, dir, g, a) ==
    IF ~(a # Null /\ it[a] # NoItem) THEN <<>>
    ELSE <<it[a].id>> \o g[NextOf(it, dir, a)]

\* The lists of all pointers.
Lists(it, dir) == CHOOSE g : g = [a \in Ptr |-> Value(it, dir, g, a)]

\* Pointers lead back in the relation.
Descends(it, dir) ==
    \A a \in Addr : it[a] # NoItem =>
        \/ NextOf(it, dir, a) = Null
        \/ NextOf(it, dir, a) \in Addr /\ Before(NextOf(it, dir, a), a)
-----------------------------------------------------------------------------

(* The recursion along pointers                                            *)

\* Every nonempty set of natural numbers has a least element.
LEMMA LeastNat ==
    ASSUME NEW T \in SUBSET Nat, T # {}
    PROVE  \E x \in T : \A y \in T : x <= y
<1> DEFINE R == OpToRel(<, Nat)
<1>1. \A a, b \in Nat : <<a, b>> \in R <=> a < b
  BY DEF OpToRel
<1> HIDE DEF R
<1>2. IsWellFoundedOn(R, Nat)
  BY NatLessThanWellFounded DEF R
<1>3. PICK x \in T : \A y \in T : ~(<<y, x>> \in R)
  BY <1>2, WFMin, Zenon
<1>4. ASSUME NEW y \in T PROVE x <= y
  <2>1. x \in Nat /\ y \in Nat
    OBVIOUS
  <2>2. ~(y < x)
    BY <1>1, <1>3, <2>1, Zenon
  <2> QED BY <2>1, <2>2
<1> QED BY <1>4

\* Every nonempty set of addresses has a first one: on the first page, the
\* first slot.
LEMMA FirstAddr ==
    ASSUME NEW T \in SUBSET Addr, T # {}
    PROVE  \E a \in T : \A c \in T : ~Before(c, a)
<1>1. \A a \in Addr : a[1] \in Nat /\ a[2] \in Nat
  BY DEF Addr, Page, Slot
<1> DEFINE P == {a[1] : a \in T}
<1>2. PICK p \in P : \A q \in P : p <= q
  <2>1. P \in SUBSET Nat /\ P # {}
    BY <1>1
  <2> HIDE DEF P
  <2> QED BY <2>1, LeastNat
<1> DEFINE S == {a[2] : a \in {c \in T : c[1] = p}}
<1>3. PICK s \in S : \A r \in S : s <= r
  <2>1. S \in SUBSET Nat /\ S # {}
    BY <1>1, <1>2
  <2> HIDE DEF S
  <2> QED BY <2>1, LeastNat
<1>4. PICK a \in T : a[1] = p /\ a[2] = s
  BY <1>3
<1>5. ASSUME NEW c \in T, Before(c, a) PROVE FALSE
  <2>1. c[1] \in Nat /\ c[2] \in Nat /\ p \in Nat /\ s \in Nat
    BY <1>1, <1>4
  <2>2. p <= c[1]
    BY <1>2
  <2>3. c[1] = p => s <= c[2]
    BY <1>3
  <2> QED BY <1>4, <1>5, <2>1, <2>2, <2>3 DEF Before
<1> QED BY <1>5

\* The physical order is transitive, and Null is no address.
LEMMA OrderTransitive ==
    ASSUME NEW a \in Addr, NEW c \in Addr, NEW d \in Addr, Before(a, c), Before(c, d)
    PROVE  Before(a, d)
BY DEF Before, Addr, Page, Slot

\* Two solutions of the recursion on a set of pointers that the pointers do
\* not leave are equal there.
LEMMA ListsAgree ==
    ASSUME NEW it, NEW dir, Descends(it, dir),
           NEW D \in SUBSET Ptr, \A a \in D \ {Null} : it[a] # NoItem => NextOf(it, dir, a) \in D,
           NEW g, NEW h,
           \A a \in D : g[a] = Value(it, dir, g, a),
           \A a \in D : h[a] = Value(it, dir, h, a)
    PROVE  \A a \in D : g[a] = h[a]
<1> DEFINE T == {a \in D : g[a] # h[a]}
<1> SUFFICES ASSUME T # {} PROVE FALSE
  OBVIOUS
<1>1. \A a \in T : a # Null
  BY DEF Value
<1>2. T \in SUBSET Addr
  BY <1>1 DEF Ptr
<1>3. PICK a \in T : \A c \in T : ~Before(c, a)
  <2> HIDE DEF T
  <2> QED BY <1>2, FirstAddr
<1>4. a \in Addr /\ a # Null /\ it[a] # NoItem
  BY <1>1, <1>2 DEF Value
<1> DEFINE n == NextOf(it, dir, a)
<1>5. n \in D /\ (n = Null \/ (n \in Addr /\ Before(n, a)))
  BY <1>4 DEF Descends
<1> HIDE DEF n
<1>6. g[n] = h[n]
  BY <1>3, <1>5, <1>1
<1> QED BY <1>4, <1>6 DEF Value, n

\* The pointers from an address on, and a solution of the recursion on them.
Down(a) == {c \in Ptr : c = Null \/ c = a \/ Before(c, a)}
Solves(it, dir, a, g) == g = [c \in Down(a) |-> Value(it, dir, g, c)]

\* The value at a pointer, taken from a solution on the pointers from it on.
Found(it, dir, a) == IF a = Null THEN <<>> ELSE (CHOOSE g : Solves(it, dir, a, g))[a]

\* What Down contains, and that pointers do not lead out of it.
LEMMA DownClosed ==
    ASSUME NEW it, NEW dir, Descends(it, dir), NEW a \in Addr
    PROVE  /\ Down(a) \in SUBSET Ptr /\ a \in Down(a) /\ Null \in Down(a)
           /\ \A c \in Down(a) \ {Null} :
                /\ c \in Addr /\ (c = a \/ Before(c, a)) /\ Down(c) \subseteq Down(a)
                /\ it[c] # NoItem => /\ NextOf(it, dir, c) \in Down(c)
                                     /\ \/ NextOf(it, dir, c) = Null
                                        \/ /\ NextOf(it, dir, c) \in Addr
                                           /\ Before(NextOf(it, dir, c), c)
<1>1. Down(a) \in SUBSET Ptr /\ a \in Down(a) /\ Null \in Down(a)
  BY DEF Down, Ptr
<1>2. ASSUME NEW c \in Down(a) \ {Null}
      PROVE  /\ c \in Addr /\ (c = a \/ Before(c, a)) /\ Down(c) \subseteq Down(a)
             /\ it[c] # NoItem => /\ NextOf(it, dir, c) \in Down(c)
                                  /\ \/ NextOf(it, dir, c) = Null
                                     \/ /\ NextOf(it, dir, c) \in Addr
                                        /\ Before(NextOf(it, dir, c), c)
  <2>1. c \in Addr /\ (c = a \/ Before(c, a))
    BY DEF Down, Ptr
  <2>2. ASSUME NEW d \in Down(c) PROVE d \in Down(a)
    <3>1. d \in Ptr /\ (d = Null \/ d = c \/ Before(d, c))
      BY DEF Down
    <3>2. CASE d = Null
      BY <1>1, <3>2
    <3>3. CASE d # Null /\ d = c
      BY <3>3
    <3>4. CASE d # Null /\ Before(d, c)
      <4>1. d \in Addr
        BY <3>1, <3>4 DEF Ptr
      <4>2. Before(d, a)
        BY <2>1, <3>4, <4>1, OrderTransitive
      <4> QED BY <3>1, <4>2 DEF Down
    <3> QED BY <3>1, <3>2, <3>3, <3>4
  <2>3. ASSUME it[c] # NoItem
        PROVE  /\ NextOf(it, dir, c) \in Down(c)
               /\ \/ NextOf(it, dir, c) = Null
                  \/ NextOf(it, dir, c) \in Addr /\ Before(NextOf(it, dir, c), c)
    <3>1. \/ NextOf(it, dir, c) = Null
          \/ NextOf(it, dir, c) \in Addr /\ Before(NextOf(it, dir, c), c)
      BY <2>1, <2>3 DEF Descends
    <3> QED BY <3>1 DEF Down, Ptr
  <2> QED BY <2>1, <2>2, <2>3
<1> QED BY <1>1, <1>2

\* If there are solutions from an address on and from where its pointer leads,
\* Found satisfies the recursion there.
LEMMA FoundValue ==
    ASSUME NEW it, NEW dir, Descends(it, dir), NEW a \in Addr,
           \E g : Solves(it, dir, a, g),
           \A c \in Addr : Before(c, a) => \E g : Solves(it, dir, c, g)
    PROVE  Found(it, dir, a) = IF it[a] = NoItem THEN <<>>
                               ELSE <<it[a].id>> \o Found(it, dir, NextOf(it, dir, a))
<1> DEFINE n == NextOf(it, dir, a)
           G(c) == CHOOSE g : Solves(it, dir, c, g)
<1>1. a # Null
  BY Constants
<1>2. Solves(it, dir, a, G(a))
  BY Zenon
<1>3. \A c \in Down(a) : G(a)[c] = Value(it, dir, G(a), c)
  <2> HIDE DEF G
  <2> QED BY <1>2 DEF Solves
<1>4. Found(it, dir, a) = G(a)[a] /\ a \in Down(a)
  BY <1>1, DownClosed DEF Found
<1>5. CASE it[a] = NoItem
  <2> HIDE DEF G
  <2> QED BY <1>3, <1>4, <1>5 DEF Value
<1>6. CASE it[a] # NoItem
  <2>1. Found(it, dir, a) = <<it[a].id>> \o G(a)[n]
    <3> HIDE DEF G
    <3> QED BY <1>1, <1>3, <1>4, <1>6 DEF Value
  <2>2. n \in Down(a) /\ (n = Null \/ (n \in Addr /\ Before(n, a)))
    BY <1>1, <1>4, <1>6, DownClosed
  <2>3. CASE n = Null
    <3>1. G(a)[n] = <<>>
      <4> HIDE DEF G, n
      <4> QED BY <1>3, <2>2, <2>3 DEF Value
    <3>2. Found(it, dir, n) = <<>>
      BY <2>3 DEF Found
    <3> QED BY <1>6, <2>1, <3>1, <3>2
  <2>4. CASE n # Null
    <3>1. n \in Addr /\ Before(n, a)
      BY <2>2, <2>4
    <3>2. Solves(it, dir, n, G(n))
      <4>1. \E g : Solves(it, dir, n, g)
        <5> HIDE DEF n
        <5> QED BY <3>1
      <4> QED BY <4>1, Zenon
    <3> HIDE DEF G, n
    <3>3. \A c \in Down(n) : G(n)[c] = Value(it, dir, G(n), c)
      BY <3>2 DEF Solves
    <3>4. n \in Down(n) /\ Down(n) \in SUBSET Ptr
          /\ \A c \in Down(n) \ {Null} : it[c] # NoItem => NextOf(it, dir, c) \in Down(n)
      BY <3>1, DownClosed
    <3>5. Down(n) \subseteq Down(a)
      BY <2>2, <2>4, DownClosed
    <3>6. \A c \in Down(n) : G(a)[c] = Value(it, dir, G(a), c)
      BY <1>3, <3>5
    <3>7. G(a)[n] = G(n)[n]
      BY <3>3, <3>4, <3>6, ListsAgree
    <3>8. Found(it, dir, n) = G(n)[n]
      BY <2>4 DEF Found, G
    <3> QED BY <1>6, <2>1, <3>7, <3>8 DEF n
  <2> QED BY <2>3, <2>4
<1> QED BY <1>5, <1>6

\* The recursion has a solution from every address on: at the first address
\* without one, the values found further back make up a solution.
LEMMA Solvable ==
    ASSUME NEW it, NEW dir, Descends(it, dir)
    PROVE  \A a \in Addr : \E g : Solves(it, dir, a, g)
<1> DEFINE T == {a \in Addr : ~\E g : Solves(it, dir, a, g)}
<1> SUFFICES ASSUME T # {} PROVE FALSE
  OBVIOUS
<1>1. PICK a \in T : \A c \in T : ~Before(c, a)
  <2>1. T \in SUBSET Addr
    OBVIOUS
  <2> HIDE DEF T
  <2> QED BY <2>1, FirstAddr
<1>2. a \in Addr /\ ~\E g : Solves(it, dir, a, g)
  BY <1>1
<1>3. \A c \in Addr : Before(c, a) => \E g : Solves(it, dir, c, g)
  BY <1>1
<1> HIDE DEF T
<1> DEFINE V(c) == IF ~(c # Null /\ it[c] # NoItem) THEN <<>>
                   ELSE <<it[c].id>> \o Found(it, dir, NextOf(it, dir, c))
           h == [c \in Down(a) |-> V(c)]
<1>4. ASSUME NEW c \in Addr, Before(c, a) PROVE Found(it, dir, c) = V(c)
  <2>1. \A d \in Addr : Before(d, c) => \E g : Solves(it, dir, d, g)
    BY <1>2, <1>3, <1>4, OrderTransitive
  <2>2. \E g : Solves(it, dir, c, g)
    BY <1>3, <1>4
  <2>3. c # Null
    BY Constants
  <2> QED BY <2>1, <2>2, <2>3, FoundValue
<1>5. Found(it, dir, Null) = <<>> /\ V(Null) = <<>>
  BY DEF Found
<1>6. ASSUME NEW c \in Down(a) PROVE V(c) = Value(it, dir, h, c)
  <2>1. CASE c = Null \/ it[c] = NoItem
    BY <2>1 DEF Value
  <2>2. CASE c # Null /\ it[c] # NoItem
    <3> DEFINE n == NextOf(it, dir, c)
    <3>1. c \in Addr /\ (c = a \/ Before(c, a)) /\ n \in Down(a) /\ (n = Null \/ (n \in Addr /\ Before(n, c)))
      BY <1>2, <2>2, DownClosed
    <3>2. n # Null => n \in Addr /\ Before(n, a)
      BY <1>2, <3>1, OrderTransitive
    <3> HIDE DEF n
    <3>3. Found(it, dir, n) = V(n)
      <4>1. CASE n = Null
        <5> HIDE DEF V
        <5> QED BY <4>1, <1>5
      <4>2. CASE n # Null
        <5> HIDE DEF V
        <5> QED BY <4>2, <3>2, <1>4
      <4> QED BY <4>1, <4>2
    <3>4. h[n] = V(n)
      <4> HIDE DEF V
      <4> QED BY <3>1
    <3>5. V(c) = <<it[c].id>> \o Found(it, dir, n)
      BY <2>2 DEF n
    <3>6. Value(it, dir, h, c) = <<it[c].id>> \o h[n]
      <4> HIDE DEF h
      <4> QED BY <2>2 DEF Value, n
    <3> HIDE DEF h, V
    <3> QED BY <3>3, <3>4, <3>5, <3>6
  <2> QED BY <2>1, <2>2
<1>7. h = [c \in Down(a) |-> Value(it, dir, h, c)]
  <2>1. PICK f : f = h
    OBVIOUS
  <2>2. f = [c \in Down(a) |-> V(c)] /\ \A c \in Down(a) : V(c) = Value(it, dir, f, c)
    <3> HIDE DEF V
    <3> QED BY <1>6, <2>1
  <2>3. f = [c \in Down(a) |-> Value(it, dir, f, c)]
    <3> HIDE DEF V, h
    <3> QED BY <2>2
  <2> HIDE DEF h
  <2> QED BY <2>1, <2>3
<1>8. Solves(it, dir, a, h)
  <2> HIDE DEF h
  <2> QED BY <1>7 DEF Solves
<1> HIDE DEF h
<1> QED BY <1>2, <1>8

\* The lists of all pointers satisfy the recursion.
LEMMA ListsValue ==
    ASSUME NEW it, NEW dir, Descends(it, dir)
    PROVE  /\ Lists(it, dir) = [a \in Ptr |-> Value(it, dir, Lists(it, dir), a)]
           /\ \A a \in Ptr : Lists(it, dir)[a] = Value(it, dir, Lists(it, dir), a)
<1> DEFINE h == [c \in Ptr |-> Found(it, dir, c)]
<1>1. ASSUME NEW a \in Ptr PROVE Found(it, dir, a) = Value(it, dir, h, a)
  <2>1. CASE a = Null
    BY <2>1 DEF Found, Value
  <2>2. CASE a # Null
    <3>1. a \in Addr
      BY <2>2 DEF Ptr
    <3>2. /\ \E g : Solves(it, dir, a, g)
          /\ \A c \in Addr : Before(c, a) => \E g : Solves(it, dir, c, g)
      BY <3>1, Solvable
    <3>3. Found(it, dir, a) = IF it[a] = NoItem THEN <<>>
                              ELSE <<it[a].id>> \o Found(it, dir, NextOf(it, dir, a))
      BY <3>1, <3>2, FoundValue
    <3>4. it[a] # NoItem => NextOf(it, dir, a) \in Ptr
      BY <3>1 DEF Descends, Ptr
    <3>5. it[a] # NoItem => h[NextOf(it, dir, a)] = Found(it, dir, NextOf(it, dir, a))
      BY <3>4
    <3> HIDE DEF h
    <3> QED BY <2>2, <3>3, <3>5 DEF Value
  <2> QED BY <2>1, <2>2
<1>2. \E g : g = [a \in Ptr |-> Value(it, dir, g, a)]
  <2>1. PICK f : f = h
    OBVIOUS
  <2>2. f = [c \in Ptr |-> Found(it, dir, c)] /\ \A c \in Ptr : Found(it, dir, c) = Value(it, dir, f, c)
    BY <1>1, <2>1
  <2>3. f = [c \in Ptr |-> Value(it, dir, f, c)]
    <3> HIDE DEF h
    <3> QED BY <2>2
  <2> QED BY <2>3, Zenon
<1>3. Lists(it, dir) = [a \in Ptr |-> Value(it, dir, Lists(it, dir), a)]
  BY <1>2, Zenon DEF Lists
<1>4. PICK f : f = Lists(it, dir)
  OBVIOUS
<1>5. \A a \in Ptr : f[a] = Value(it, dir, f, a)
  BY <1>3, <1>4
<1> QED BY <1>3, <1>4, <1>5

-----------------------------------------------------------------------------
(* The walk from a pointer                                                 *)

\* What Walk returns is the value of the recursion on the items there are.
LEMMA WalkIsList ==
    ASSUME twice = {}, NEW dir, NEW h
    PROVE  Walk(dir, h) = Lists(item, dir)[h]
BY Zenon DEF Walk, Held, Lists, Value, NextOf

\* Slots without an item are empty.
Filled == \A a \in Addr : item[a] # NoItem => a \in Items

\* Every step keeps the slots without an item empty: the only one that is
\* filled is that of the item an insert adds.
LEMMA FilledStep ==
    ASSUME Structure, Filled, NEW b \in Backend, Step(b)
    PROVE  Filled'
<1>t. item \in [Addr -> Item \cup {NoItem}]
  BY DEF Structure, TypeOK, StoreOK
<1>1. CASE UNCHANGED <<hdr, nblocks, used, item>>
  BY <1>1, ItemsSame DEF Filled
<1>2. CASE Rewrites(b)
  <2>1. Items' = Items
    BY <1>2, ItemsRewrites
  <2>2. PICK c \in Items : item' = [item EXCEPT ![c].xmax = xid[b]]
                          \/ item' = [item EXCEPT ![c].propsBy = xid[b]]
    BY <1>2 DEF Rewrites
  <2>3. \A a \in Addr : a # c => item'[a] = item[a]
    BY <2>2, <1>t
  <2> QED BY <2>1, <2>3 DEF Filled
<1>3. CASE Extends(b)
  BY <1>3, ItemsExtends DEF Filled, Extends
<1>4. CASE LockNewPage(b)
  <2>1. Items' = {a \in Items : a[1] # loc[b].pg}
    BY <1>4, ItemsNewPage
  <2>2. \A a \in Addr : item'[a] = IF a[1] = loc[b].pg THEN NoItem ELSE item[a]
    BY <1>4 DEF LockNewPage
  <2> QED BY <2>1, <2>2 DEF Filled
<1>5. CASE InsertApply(b)
  <2>1. Items' = Items \cup {NewAddr(b)}
    BY <1>5, ItemsInsert
  <2>2. \A a \in Addr : a # NewAddr(b) => item'[a] = item[a]
    BY <1>5, <1>t DEF InsertApply
  <2> QED BY <2>1, <2>2 DEF Filled
<1> QED BY <1>1, <1>2, <1>3, <1>4, <1>5, StoreStep

\* The addresses that hold an item are those of the items.
LEMMA HeldIsItem ==
    ASSUME Content, Filled, NEW a \in Ptr
    PROVE  Held(a) <=> a \in Items
<1>1. a \in Items => a \in Addr /\ item[a] # NoItem /\ a # Null
  BY Constants DEF Content, Items
<1> QED BY <1>1 DEF Held, Filled, Ptr

\* The pointers of items lead to items further back.
LEMMA PointersLead ==
    ASSUME IInv, NEW dir \in {"out", "in"}, NEW a \in Items
    PROVE  \/ NextOf(item, dir, a) = Null
           \/ NextOf(item, dir, a) \in Items /\ Before(NextOf(item, dir, a), a)
<1>1. item[a].src \in Node /\ item[a].tgt \in Node
  BY DEF IInv, Structure, Content, Item
<1>2. /\ LastOf({c \in OutItems(item[a].src) : Before(c, a)}, item[a].nextOut)
      /\ LastOf({c \in InItems(item[a].tgt) : Before(c, a)}, item[a].nextIn)
  BY <1>1 DEF IInv, Chains
<1>3. CASE dir = "out"
  BY <1>2, <1>3 DEF LastOf, NextOf, OutItems
<1>4. CASE dir = "in"
  BY <1>2, <1>4 DEF LastOf, NextOf, InItems
<1> QED BY <1>3, <1>4

\* So the recursion along pointers is well defined.
LEMMA PointersDescend ==
    ASSUME IInv, Filled, NEW dir \in {"out", "in"}
    PROVE  Descends(item, dir)
<1>1. \A a \in Addr : item[a] # NoItem => a \in Items
  BY DEF Filled
<1>2. Items \subseteq Addr
  BY DEF Items
<1> QED BY <1>1, <1>2, PointersLead DEF Descends

\* One step of the walk.
LEMMA WalkValue ==
    ASSUME IInv, Filled, NEW dir \in {"out", "in"}, NEW h \in Ptr
    PROVE  Walk(dir, h) = IF h \in Items THEN <<item[h].id>> \o Walk(dir, NextOf(item, dir, h))
                          ELSE <<>>
<1>1. Lists(item, dir)[h] = Value(item, dir, Lists(item, dir), h)
  BY PointersDescend, ListsValue
<1>2. h \in Items <=> h # Null /\ item[h] # NoItem
  BY HeldIsItem DEF Held, IInv, Structure
<1>3. \A p : Walk(dir, p) = Lists(item, dir)[p]
  BY WalkIsList DEF IInv
<1> QED BY <1>1, <1>2, <1>3 DEF Value

\* The elements of a sequence.
Elements(s) == {s[i] : i \in DOMAIN s}

\* The elements of a sequence with one more in front.
LEMMA ElementsCons ==
    ASSUME NEW S, NEW e \in S, NEW s \in Seq(S)
    PROVE  <<e>> \o s \in Seq(S) /\ Elements(<<e>> \o s) = {e} \cup Elements(s)
<1> DEFINE r == <<e>> \o s
<1>1. r \in Seq(S) /\ Len(r) = Len(s) + 1 /\ r[1] = e /\ Len(s) \in Nat
  OBVIOUS
<1>2. \A i \in 1..Len(s) : r[i + 1] = s[i]
  OBVIOUS
<1>3. DOMAIN r = 1..Len(r) /\ DOMAIN s = 1..Len(s)
  BY <1>1
<1> HIDE DEF r
<1>4. ASSUME NEW x \in Elements(r) PROVE x \in {e} \cup Elements(s)
  <2>1. PICK i \in 1..Len(r) : x = r[i]
    BY <1>3 DEF Elements
  <2>2. i = 1 \/ i - 1 \in 1..Len(s)
    BY <1>1
  <2>3. i - 1 \in 1..Len(s) => x = s[i - 1]
    BY <1>2, <2>1
  <2> QED BY <1>1, <1>3, <2>1, <2>2, <2>3 DEF Elements
<1>5. ASSUME NEW x \in {e} \cup Elements(s) PROVE x \in Elements(r)
  <2>1. CASE x = e
    BY <2>1, <1>1, <1>3 DEF Elements
  <2>2. CASE x \in Elements(s)
    <3>1. PICK i \in 1..Len(s) : x = s[i]
      BY <2>2, <1>3 DEF Elements
    <3>2. i + 1 \in 1..Len(r) /\ r[i + 1] = x
      BY <3>1, <1>1, <1>2
    <3> QED BY <3>2, <1>3 DEF Elements
  <2> QED BY <2>1, <2>2
<1> QED BY <1>1, <1>4, <1>5 DEF r

\* Where a walk along a chain of a node starts: at one of its items, or nowhere.
OnChain(n, dir, h) == h # Null => h \in Items /\ Incident(n, dir, h)

\* The ids met on the way are those of the items of the chain from there on.
WalkExact(n, dir, h) ==
    /\ Walk(dir, h) \in Seq(Edge)
    /\ Elements(Walk(dir, h)) = {item[a].id : a \in From(n, dir, h)}

\* A walk along a chain meets what is on the chain.
LEMMA WalkIds ==
    ASSUME IInv, Filled, NEW n \in Node, NEW dir \in {"out", "in"}
    PROVE  \A h \in Ptr : OnChain(n, dir, h) => WalkExact(n, dir, h)
<1>c. Content
  BY DEF IInv, Structure
<1>1. WalkExact(n, dir, Null)
  <2>1. Null \in Ptr /\ Null \notin Items
    BY Constants DEF Items
  <2>2. Walk(dir, Null) = <<>>
    BY <2>1, WalkValue
  <2>3. From(n, dir, Null) = {}
    BY FromNull
  <2> QED BY <2>2, <2>3 DEF WalkExact, Elements
<1> DEFINE T == {h \in Items : Incident(n, dir, h) /\ ~WalkExact(n, dir, h)}
<1>2. T = {}
  <2> SUFFICES ASSUME T # {} PROVE FALSE
    OBVIOUS
  <2>1. PICK h \in T : \A c \in T : ~Before(c, h)
    <3>1. T \in SUBSET Addr
      BY DEF Items
    <3> HIDE DEF T
    <3> QED BY <3>1, FirstAddr
  <2>2. h \in Items /\ Incident(n, dir, h) /\ ~WalkExact(n, dir, h) /\ h \in Addr /\ h \in Ptr
    BY Constants DEF Items
  <2> DEFINE p == NextOf(item, dir, h)
  <2>3. /\ From(n, dir, h) = {h} \cup From(n, dir, p)
        /\ p # Null => p \in Items /\ Incident(n, dir, p)
    BY <2>2, FromNext DEF NextOf
  <2>4. p = Null \/ Before(p, h)
    <3>1. item[h] # NoItem
      BY <2>2, <1>c, Constants DEF Content
    <3> QED BY <2>2, <3>1, PointersDescend DEF Descends
  <2> HIDE DEF p
  <2>5. WalkExact(n, dir, p)
    BY <1>1, <2>1, <2>3, <2>4
  <2>6. Walk(dir, h) = <<item[h].id>> \o Walk(dir, p)
    BY <2>2, WalkValue DEF p
  <2>7. item[h].id \in Edge
    BY <2>2, <1>c DEF Content, Item
  <2>8. /\ Walk(dir, h) \in Seq(Edge)
        /\ Elements(Walk(dir, h)) = {item[h].id} \cup Elements(Walk(dir, p))
    BY <2>5, <2>6, <2>7, ElementsCons DEF WalkExact
  <2>9. Elements(Walk(dir, h)) = {item[a].id : a \in From(n, dir, h)}
    <3> HIDE DEF Elements, From
    <3> QED BY <2>3, <2>5, <2>8 DEF WalkExact
  <2> QED BY <2>2, <2>8, <2>9 DEF WalkExact
<1> HIDE DEF WalkExact
<1> QED BY <1>1, <1>2 DEF OnChain

\* The edges that the lists of all nodes have are those of the items.
LEMMA KnownIds ==
    ASSUME IInv, Filled
    PROVE  /\ Graph!Known = {item[a].id : a \in Items}
           /\ \A n \in Node : /\ Walk("out", hdr[n].out) \in Seq(Edge)
                              /\ Walk("in", hdr[n].in) \in Seq(Edge)
<1>1. ASSUME NEW n \in Node
      PROVE  /\ Walk("out", hdr[n].out) \in Seq(Edge) /\ Walk("in", hdr[n].in) \in Seq(Edge)
             /\ Elements(Walk("out", hdr[n].out)) = {item[a].id : a \in {c \in Items : item[c].src = n}}
  <2>1. hdr[n].out \in Ptr /\ hdr[n].in \in Ptr
    BY DEF IInv, Structure, TypeOK, StoreOK, Header
  <2>2. /\ From(n, "out", hdr[n].out) = {a \in Items : Incident(n, "out", a)}
        /\ OnChain(n, "out", hdr[n].out)
    BY FromHead DEF OnChain
  <2>3. OnChain(n, "in", hdr[n].in)
    BY FromHead DEF OnChain
  <2>4. WalkExact(n, "out", hdr[n].out) /\ WalkExact(n, "in", hdr[n].in)
    BY <2>1, <2>2, <2>3, WalkIds
  <2>5. {a \in Items : Incident(n, "out", a)} = {c \in Items : item[c].src = n}
    BY DEF Incident
  <2> QED BY <2>2, <2>4, <2>5 DEF WalkExact
<1>2. Graph!Known = UNION {Elements(Walk("out", hdr[n].out)) : n \in Node}
  BY DEF Graph!Known, Graph!ToSet, Elements
<1>3. \A a \in Items : item[a].src \in Node
  BY DEF IInv, Structure, Content, Item
<1>4. ASSUME NEW n \in Node, NEW e
      PROVE  e \in Elements(Walk("out", hdr[n].out)) <=> \E a \in Items : item[a].src = n /\ e = item[a].id
  <2>1. Elements(Walk("out", hdr[n].out)) = {item[a].id : a \in {c \in Items : item[c].src = n}}
    BY <1>1
  <2> QED BY <2>1
<1>5. ASSUME NEW e PROVE e \in Graph!Known <=> e \in {item[a].id : a \in Items}
  <2>1. ASSUME e \in Graph!Known PROVE \E a \in Items : e = item[a].id
    <3>1. PICK n \in Node : e \in Elements(Walk("out", hdr[n].out))
      BY <1>2, <2>1
    <3> QED BY <1>4, <3>1
  <2>2. ASSUME NEW a \in Items, e = item[a].id PROVE e \in Graph!Known
    <3>1. e \in Elements(Walk("out", hdr[item[a].src].out))
      BY <1>3, <1>4, <2>2
    <3> QED BY <1>2, <1>3, <3>1
  <2> QED BY <2>1, <2>2
<1> QED BY <1>1, <1>5

-----------------------------------------------------------------------------
(* The lists of the nodes, and what a step does to them                    *)

\* What the edge store gives AdjacencyGraph for its variables.
OutLists == [n \in Node |-> Walk("out", hdr[n].out)]
InLists  == [n \in Node |-> Walk("in", hdr[n].in)]
Dead     == {item[a].id : a \in {c \in Addr : Held(c) /\ item[c].xmax # 0}}

\* They are the lists of the heads.
LEMMA ListsOfHeads ==
    twice = {} => /\ OutLists = [n \in Node |-> Lists(item, "out")[hdr[n].out]]
                  /\ InLists = [n \in Node |-> Lists(item, "in")[hdr[n].in]]
<1> SUFFICES ASSUME twice = {}
             PROVE  /\ OutLists = [n \in Node |-> Lists(item, "out")[hdr[n].out]]
                    /\ InLists = [n \in Node |-> Lists(item, "in")[hdr[n].in]]
  OBVIOUS
<1>1. \A dir, h : Walk(dir, h) = Lists(item, dir)[h]
  BY WalkIsList
<1> QED BY <1>1 DEF OutLists, InLists

\* The same after a step.
LEMMA ListsOfHeadsNext ==
    twice' = {} => /\ OutLists' = [n \in Node |-> Lists(item', "out")[hdr'[n].out]]
                   /\ InLists' = [n \in Node |-> Lists(item', "in")[hdr'[n].in]]
<1>1. (twice = {} => /\ OutLists = [n \in Node |-> Lists(item, "out")[hdr[n].out]]
                     /\ InLists = [n \in Node |-> Lists(item, "in")[hdr[n].in]])'
  BY ListsOfHeads, PTL
<1> QED BY <1>1

\* The dead edges are the ids of the items whose xmax is set.
LEMMA DeadIds ==
    IInv /\ Filled => /\ Dead = {item[a].id : a \in {c \in Items : item[c].xmax # 0}}
                      /\ \A dir \in {"out", "in"} : Descends(item, dir)
<1> SUFFICES ASSUME IInv, Filled
             PROVE  Dead = {item[a].id : a \in {c \in Items : item[c].xmax # 0}}
  BY PointersDescend
<1>1. \A c \in Addr : Held(c) <=> c \in Items
  BY HeldIsItem, Constants DEF IInv, Structure
<1>2. Items \subseteq Addr
  BY DEF Items
<1>3. {c \in Addr : Held(c) /\ item[c].xmax # 0} = {c \in Items : item[c].xmax # 0}
  BY <1>1, <1>2
<1> QED BY <1>3 DEF Dead

\* The same after a step.
LEMMA DeadIdsNext ==
    IInv' /\ Filled' => /\ Dead' = {item'[a].id : a \in {c \in Items' : item'[c].xmax # 0}}
                        /\ \A dir \in {"out", "in"} : Descends(item', dir)
<1>1. (IInv /\ Filled => /\ Dead = {item[a].id : a \in {c \in Items : item[c].xmax # 0}}
                         /\ \A dir \in {"out", "in"} : Descends(item, dir))'
  BY DeadIds, PTL
<1> QED BY <1>1

\* A step that keeps the ids and the pointers of the items keeps their lists.
LEMMA ListsKept ==
    ASSUME NEW it, NEW jt, NEW dir, Descends(it, dir), Descends(jt, dir),
           \A a \in Addr : jt[a] = NoItem <=> it[a] = NoItem,
           \A a \in Addr : it[a] # NoItem =>
               jt[a].id = it[a].id /\ NextOf(jt, dir, a) = NextOf(it, dir, a)
    PROVE  \A a \in Ptr : Lists(jt, dir)[a] = Lists(it, dir)[a]
<1>1. PICK g, h : g = Lists(it, dir) /\ h = Lists(jt, dir)
  OBVIOUS
<1>2. \A a \in Ptr : g[a] = Value(it, dir, g, a)
  BY <1>1, ListsValue
<1>3. \A a \in Ptr : h[a] = Value(jt, dir, h, a)
  BY <1>1, ListsValue
<1>4. \A a \in Ptr : Value(jt, dir, h, a) = Value(it, dir, h, a)
  <2>1. \A a \in Ptr : a # Null => a \in Addr
    BY DEF Ptr
  <2> QED BY <2>1 DEF Value
<1>5. \A a \in Ptr : h[a] = Value(it, dir, h, a)
  BY <1>3, <1>4
<1>6. \A a \in Ptr \ {Null} : it[a] # NoItem => NextOf(it, dir, a) \in Ptr
  BY DEF Descends, Ptr
<1>7. \A a \in Ptr : g[a] = h[a]
  <2>1. PICK D : D = Ptr
    OBVIOUS
  <2>2. /\ D \in SUBSET Ptr
        /\ \A a \in D \ {Null} : it[a] # NoItem => NextOf(it, dir, a) \in D
        /\ \A a \in D : g[a] = Value(it, dir, g, a)
        /\ \A a \in D : h[a] = Value(it, dir, h, a)
    BY <1>2, <1>5, <1>6, <2>1
  <2>3. \A a \in D : g[a] = h[a]
    BY <2>2, ListsAgree
  <2> QED BY <2>1, <2>3
<1> QED BY <1>1, <1>7

\* An item that is added, and to which nothing points, keeps the lists from the
\* other pointers.
LEMMA ListsAdded ==
    ASSUME NEW it, NEW jt, NEW dir, Descends(it, dir), Descends(jt, dir), NEW new \in Addr,
           jt[new] # NoItem,
           NextOf(jt, dir, new) # new,
           \A a \in Addr : a # new => jt[a] = it[a],
           \A a \in Addr : it[a] # NoItem => NextOf(it, dir, a) # new
    PROVE  /\ \A a \in Ptr : a # new => Lists(jt, dir)[a] = Lists(it, dir)[a]
           /\ Lists(jt, dir)[new] = <<jt[new].id>> \o Lists(it, dir)[NextOf(jt, dir, new)]
<1>1. PICK g, h : g = Lists(it, dir) /\ h = Lists(jt, dir)
  OBVIOUS
<1> DEFINE D == Ptr \ {new}
<1>2. \A a \in Ptr : g[a] = Value(it, dir, g, a)
  BY <1>1, ListsValue
<1>3. \A a \in Ptr : h[a] = Value(jt, dir, h, a)
  BY <1>1, ListsValue
<1>4. \A a \in D : Value(jt, dir, h, a) = Value(it, dir, h, a)
  <2>1. \A a \in D : a # Null => a \in Addr /\ jt[a] = it[a]
    BY DEF Ptr
  <2> QED BY <2>1 DEF Value, NextOf
<1>5. \A a \in D : h[a] = Value(it, dir, h, a)
  BY <1>3, <1>4
<1>6. \A a \in D \ {Null} : it[a] # NoItem => NextOf(it, dir, a) \in D
  BY DEF Descends, Ptr
<1>7. \A a \in D : g[a] = h[a]
  <2>1. D \in SUBSET Ptr /\ \A a \in D : g[a] = Value(it, dir, g, a)
    BY <1>2
  <2> HIDE DEF D
  <2> QED BY <2>1, <1>5, <1>6, ListsAgree
<1>8. new # Null /\ new \in Ptr /\ NextOf(jt, dir, new) \in D
  BY Constants DEF Descends, Ptr
<1>9. h[new] = <<jt[new].id>> \o h[NextOf(jt, dir, new)]
  BY <1>3, <1>8 DEF Value
<1> QED BY <1>1, <1>7, <1>8, <1>9

\* A step that keeps the headers, and the ids and pointers of the items, keeps
\* the lists of the nodes.
LEMMA StepKeepsLists ==
    ASSUME IInv, Filled, IInv', Filled', hdr' = hdr,
           \A a \in Addr : item'[a] = NoItem <=> item[a] = NoItem,
           \A a \in Addr : item[a] # NoItem =>
               /\ item'[a].id = item[a].id
               /\ item'[a].nextOut = item[a].nextOut /\ item'[a].nextIn = item[a].nextIn
    PROVE  OutLists' = OutLists /\ InLists' = InLists
<1>1. ASSUME NEW dir \in {"out", "in"}
      PROVE  \A h \in Ptr : Lists(item', dir)[h] = Lists(item, dir)[h]
  <2>1. Descends(item, dir)
    BY PointersDescend
  <2>2. Descends(item', dir)
    BY DeadIdsNext
  <2>3. \A a \in Addr : item[a] # NoItem =>
            item'[a].id = item[a].id /\ NextOf(item', dir, a) = NextOf(item, dir, a)
    BY DEF NextOf
  <2> QED BY <2>1, <2>2, <2>3, ListsKept
<1>2. \A n \in Node : hdr[n].out \in Ptr /\ hdr[n].in \in Ptr
  BY DEF IInv, Structure, TypeOK, StoreOK, Header
<1>3. /\ \A n \in Node : Lists(item', "out")[hdr[n].out] = Lists(item, "out")[hdr[n].out]
      /\ \A n \in Node : Lists(item', "in")[hdr[n].in] = Lists(item, "in")[hdr[n].in]
  BY <1>1, <1>2
<1> QED BY <1>3, ListsOfHeads, ListsOfHeadsNext DEF IInv

\* An insert puts its edge at the front of the two lists.
LEMMA StepAddsToLists ==
    ASSUME IInv, Filled, IInv', Filled', NEW b \in Backend, InsertApply(b)
    PROVE  /\ OutLists' = [OutLists EXCEPT ![loc[b].src] = <<loc[b].e>> \o @]
           /\ InLists' = [InLists EXCEPT ![loc[b].tgt] = <<loc[b].e>> \o @]
<1>1. PICK new : new = NewAddr(b)
  OBVIOUS
<1>2. /\ new \in Addr /\ new \notin Items
      /\ item'[new] = NewItem(b) /\ item'[new] \in Item
  BY <1>1, ItemsInsert DEF IInv
<1>3. \A a \in Addr : a # new => item'[a] = item[a]
  BY <1>1 DEF InsertApply, IInv, Structure, TypeOK, StoreOK
<1>4. /\ loc[b].src \in Node /\ loc[b].tgt \in Node
      /\ loc[b].srcAdj = hdr[loc[b].src] /\ loc[b].tgtAdj = hdr[loc[b].tgt]
  BY DEF IInv, Structure, Local, NodeLocks, Heads, Inserting, BothLocked, InsertApply
<1>5. /\ \A n \in Node : hdr'[n].out = IF n = loc[b].src THEN new ELSE hdr[n].out
      /\ \A n \in Node : hdr'[n].in = IF n = loc[b].tgt THEN new ELSE hdr[n].in
  BY <1>1, HeadsInsert DEF IInv
<1>6. new # Null
  BY <1>2, Constants
<1>7. ASSUME NEW n \in Node
      PROVE  /\ hdr[n].out \in Ptr /\ hdr[n].out # new
             /\ hdr[n].in \in Ptr /\ hdr[n].in # new
  <2>1. hdr[n].out \in Ptr /\ hdr[n].in \in Ptr
    BY DEF IInv, Structure, TypeOK, StoreOK, Header
  <2>2. hdr[n].out # Null => hdr[n].out \in Items
    BY FromHead
  <2>3. hdr[n].in # Null => hdr[n].in \in Items
    BY FromHead
  <2> QED BY <1>2, <1>6, <2>1, <2>2, <2>3
<1>8. /\ item'[new].id = loc[b].e
      /\ item'[new].nextOut = hdr[loc[b].src].out /\ item'[new].nextIn = hdr[loc[b].tgt].in
  BY <1>2, <1>4 DEF NewItem
<1>9. ASSUME NEW dir \in {"out", "in"}
      PROVE  /\ \A h \in Ptr : h # new => Lists(item', dir)[h] = Lists(item, dir)[h]
             /\ Lists(item', dir)[new] = <<loc[b].e>> \o Lists(item, dir)[NextOf(item', dir, new)]
  <2>1. Descends(item, dir)
    BY PointersDescend
  <2>2. Descends(item', dir)
    BY DeadIdsNext
  <2>3. item'[new] # NoItem
    BY <1>2, Constants
  <2>4. NextOf(item', dir, new) # new
    BY <1>4, <1>7, <1>8 DEF NextOf
  <2>5. \A a \in Addr : item[a] # NoItem => NextOf(item, dir, a) # new
    <3>1. \A a \in Items : NextOf(item, dir, a) = Null \/ NextOf(item, dir, a) \in Items
      BY PointersLead
    <3> QED BY <3>1, <1>2, <1>6 DEF Filled
  <2> QED BY <1>2, <1>3, <1>8, <2>1, <2>2, <2>3, <2>4, <2>5, ListsAdded
<1>10. OutLists' = [OutLists EXCEPT ![loc[b].src] = <<loc[b].e>> \o @]
  <2>1. PICK g, h : g = Lists(item, "out") /\ h = Lists(item', "out")
    OBVIOUS
  <2>2. /\ \A p \in Ptr : p # new => h[p] = g[p]
        /\ h[new] = <<loc[b].e>> \o g[hdr[loc[b].src].out]
    BY Zenon, <1>8, <1>9, <2>1 DEF NextOf
  <2>3. OutLists = [n \in Node |-> g[hdr[n].out]] /\ OutLists' = [n \in Node |-> h[hdr'[n].out]]
    BY <2>1, ListsOfHeads, ListsOfHeadsNext DEF IInv
  <2>4. \A n \in Node : h[hdr'[n].out] = IF n = loc[b].src THEN <<loc[b].e>> \o g[hdr[n].out]
                                         ELSE g[hdr[n].out]
    BY <1>5, <1>7, <2>2
  <2> QED BY Zenon, <1>4, <2>3, <2>4
<1>11. InLists' = [InLists EXCEPT ![loc[b].tgt] = <<loc[b].e>> \o @]
  <2>1. PICK g, h : g = Lists(item, "in") /\ h = Lists(item', "in")
    OBVIOUS
  <2>2. /\ \A p \in Ptr : p # new => h[p] = g[p]
        /\ h[new] = <<loc[b].e>> \o g[hdr[loc[b].tgt].in]
    BY Zenon, <1>8, <1>9, <2>1 DEF NextOf
  <2>3. InLists = [n \in Node |-> g[hdr[n].in]] /\ InLists' = [n \in Node |-> h[hdr'[n].in]]
    BY <2>1, ListsOfHeads, ListsOfHeadsNext DEF IInv
  <2>4. \A n \in Node : h[hdr'[n].in] = IF n = loc[b].tgt THEN <<loc[b].e>> \o g[hdr[n].in]
                                        ELSE g[hdr[n].in]
    BY <1>5, <1>7, <2>2
  <2> QED BY Zenon, <1>4, <2>3, <2>4
<1> QED BY <1>10, <1>11

-----------------------------------------------------------------------------
(* The refinement                                                          *)

\* The edges of the lists, and the dead ones, as ids of items.
LEMMA EdgesOfItems ==
    ASSUME IInv, Filled
    PROVE  /\ \A e : e \in Graph!Known <=> \E a \in Items : e = item[a].id
           /\ \A e : e \in Dead <=> \E a \in Items : item[a].xmax # 0 /\ e = item[a].id
<1>1. Graph!Known = {item[a].id : a \in Items}
  BY KnownIds
<1>2. Dead = {item[a].id : a \in {c \in Items : item[c].xmax # 0}}
  BY DeadIds
<1> QED BY <1>1, <1>2

\* The dead ones after a step.
LEMMA DeadNext ==
    ASSUME IInv', Filled'
    PROVE  \A e : e \in Dead' <=> \E a \in Items' : item'[a].xmax # 0 /\ e = item'[a].id
BY DeadIdsNext

\* Every step of the edge store is a step of AdjacencyGraph, or none.
LEMMA RefinementStep ==
    ASSUME IInv, Filled, Ids, IInv', Filled', NEW b \in Backend, Step(b)
    PROVE  \/ \E e \in Edge \ Graph!Known, s, t \in Node :
                /\ OutLists' = [OutLists EXCEPT ![s] = <<e>> \o @]
                /\ InLists' = [InLists EXCEPT ![t] = <<e>> \o @]
                /\ Dead' = Dead
           \/ \E e \in Graph!Known \ Dead :
                Dead' = Dead \cup {e} /\ OutLists' = OutLists /\ InLists' = InLists
           \/ OutLists' = OutLists /\ InLists' = InLists /\ Dead' = Dead
<1>t. /\ item \in [Addr -> Item \cup {NoItem}]
      /\ Items \subseteq Addr /\ \A a \in Items : item[a] \in Item /\ item[a] # NoItem
  BY Constants DEF IInv, Structure, TypeOK, StoreOK, Content, Items
<1>1. ASSUME item' = item, hdr' = hdr
      PROVE  OutLists' = OutLists /\ InLists' = InLists /\ Dead' = Dead
  <2>1. OutLists' = OutLists /\ InLists' = InLists
    BY <1>1, StepKeepsLists
  <2>2. Dead' = Dead
    BY <1>1 DEF Dead, Held
  <2> QED BY <2>1, <2>2
<1>2. CASE Extends(b)
  BY <1>1, <1>2 DEF Extends
<1>3. CASE LockNewPage(b)
  <2>1. used[loc[b].pg] = Zeroed
    BY <1>3 DEF LockNewPage, IInv, Pages, Placed
  <2>2. \A a \in Addr : a[1] = loc[b].pg => item[a] = NoItem
    BY <2>1, Constants, EdgeStoreAssumption DEF Filled, Items
  <2>3. item' = item
    BY <1>3, <1>t, <2>2 DEF LockNewPage
  <2> QED BY <1>1, <1>3, <2>3 DEF LockNewPage
<1>4. CASE Rewrites(b)
  <2>1. Items' = Items /\ hdr' = hdr /\ xid[b] # 0
    BY <1>4, ItemsRewrites DEF Rewrites, IInv, Xid
  <2>2. PICK c \in Items : item' = [item EXCEPT ![c].xmax = xid[b]]
                          \/ item' = [item EXCEPT ![c].propsBy = xid[b]]
    BY <1>4 DEF Rewrites
  <2>3. \A a \in Addr : a # c => item'[a] = item[a]
    BY <1>t, <2>2
  <2>4. item'[c] = [item[c] EXCEPT !.xmax = xid[b]] \/ item'[c] = [item[c] EXCEPT !.propsBy = xid[b]]
    BY <1>t, <2>2
  <2>5. /\ item[c] \in Item /\ c \in Addr /\ item'[c] \in Item
        /\ item'[c].id = item[c].id
        /\ item'[c].nextOut = item[c].nextOut /\ item'[c].nextIn = item[c].nextIn
    BY <1>4, <1>t, ItemsRewrites DEF IInv
  <2>6. OutLists' = OutLists /\ InLists' = InLists
    <3>1. \A a \in Addr : item'[a] = NoItem <=> item[a] = NoItem
      BY <2>3, <2>5, Constants
    <3>2. \A a \in Addr : item[a] # NoItem =>
               /\ item'[a].id = item[a].id
               /\ item'[a].nextOut = item[a].nextOut /\ item'[a].nextIn = item[a].nextIn
      BY <2>3, <2>5
    <3> QED BY <2>1, <3>1, <3>2, StepKeepsLists
  <2>7. /\ \A e : e \in Dead <=> \E a \in Items : item[a].xmax # 0 /\ e = item[a].id
        /\ \A e : e \in Graph!Known <=> \E a \in Items : e = item[a].id
    BY EdgesOfItems
  <2>8. \A e : e \in Dead' <=> \E a \in Items : item'[a].xmax # 0 /\ e = item'[a].id
    BY DeadNext, <2>1
  <2>9. CASE item[c].xmax = 0 /\ item'[c].xmax # 0
    <3>1. PICK e : e = item[c].id
      OBVIOUS
    <3>2. e \in Graph!Known
      BY <2>7, <3>1
    <3>3. e \notin Dead
      <4>1. \A a \in Items : item[a].id = e => a = c
        BY <3>1 DEF Ids
      <4> QED BY <2>7, <2>9, <4>1
    <3>4. \A d : d \in Dead' <=> d \in Dead \/ d = e
      <4>1. \A a \in Items : item'[a].id = item[a].id /\ (a # c => item'[a].xmax = item[a].xmax)
        BY <1>t, <2>3, <2>5
      <4> QED BY <2>7, <2>8, <2>9, <3>1, <4>1
    <3>5. Dead' = Dead \cup {e}
      <4> HIDE DEF Dead
      <4> QED BY <3>4
    <3> QED BY <2>6, <3>2, <3>3, <3>5
  <2>10. CASE ~(item[c].xmax = 0 /\ item'[c].xmax # 0)
    <3>1. item'[c].xmax # 0 <=> item[c].xmax # 0
      BY <2>1, <2>4, <2>5, <2>10 DEF Item
    <3>2. \A a \in Items : item'[a].id = item[a].id /\ (item'[a].xmax # 0 <=> item[a].xmax # 0)
      BY <1>t, <2>3, <2>5, <3>1
    <3>3. \A d : d \in Dead' <=> d \in Dead
      BY <2>7, <2>8, <3>2
    <3>4. Dead' = Dead
      BY <3>3
    <3> QED BY <2>6, <3>4
  <2> QED BY <2>9, <2>10
<1>5. CASE InsertApply(b)
  <2>1. /\ OutLists' = [OutLists EXCEPT ![loc[b].src] = <<loc[b].e>> \o @]
        /\ InLists' = [InLists EXCEPT ![loc[b].tgt] = <<loc[b].e>> \o @]
    BY <1>5, StepAddsToLists
  <2>2. pc[b] \in Inserting
    BY <1>5 DEF InsertApply, Inserting
  <2>3. loc[b].src \in Node /\ loc[b].tgt \in Node /\ loc[b].e \in Edge
    BY <2>2 DEF IInv, Structure, Local, NodeLocks
  <2>4. /\ \A e : e \in Dead <=> \E a \in Items : item[a].xmax # 0 /\ e = item[a].id
        /\ \A e : e \in Graph!Known <=> \E a \in Items : e = item[a].id
    BY EdgesOfItems
  <2>5. loc[b].e \notin Graph!Known
    BY <2>2, <2>4 DEF Ids
  <2>6. Dead' = Dead
    <3>1. \A e : e \in Dead' <=> \E a \in Items' : item'[a].xmax # 0 /\ e = item'[a].id
      BY DeadNext
    <3>2. PICK new : new = NewAddr(b)
      OBVIOUS
    <3>3. /\ Items' = Items \cup {new} /\ item'[new] = NewItem(b)
          /\ \A a \in Items : item'[a] = item[a]
      BY <1>5, <3>2, ItemsInsert DEF IInv
    <3>4. item'[new].xmax = 0
      BY <3>3 DEF NewItem
    <3>5. \A e : e \in Dead' <=> e \in Dead
      BY <2>4, <3>1, <3>3, <3>4
    <3> QED BY <3>5
  <2> QED BY <2>1, <2>3, <2>5, <2>6
<1> QED BY <1>1, <1>2, <1>3, <1>4, <1>5, StoreStep DEF IInv

\* The empty edge relation has empty lists.
LEMMA RefinementInit ==
    ASSUME Init
    PROVE  Filled /\ Ids /\ Graph!Init
<1>1. Filled
  BY DEF Init, Filled
<1>2. Items = {}
  <2>1. \A a \in Addr : used[a[1]] = Absent
    BY DEF Init, Addr
  <2> QED BY <2>1, Constants, EdgeStoreAssumption DEF Items
<1>3. Ids
  BY <1>2 DEF Init, Ids, Inserting
<1>4. IInv
  BY InitInv
<1>5. \A dir \in {"out", "in"} : Walk(dir, Null) = <<>>
  BY <1>1, <1>2, <1>4, WalkValue, Constants
<1>6. \A n \in Node : hdr[n].out = Null /\ hdr[n].in = Null
  BY DEF Init, EmptyHeader
<1>7. OutLists = [n \in Node |-> <<>>] /\ InLists = [n \in Node |-> <<>>]
  BY <1>5, <1>6 DEF OutLists, InLists
<1>8. Dead = {}
  BY <1>1, <1>2, <1>4, DeadIds
<1>9. Graph!Init
  BY <1>7, <1>8 DEF Graph!Init, OutLists, InLists, Dead
<1> QED BY <1>1, <1>3, <1>9

\* Refinement for every instance: insert_edge and delete_edge, taking buffer
\* locks one at a time among traversals, property updates and node deletions,
\* look to a reader of the chains as if each edge were put at the front of both
\* its lists, or marked as deleted, in one step; nothing else changes them, until
\* P_NEW hands out a block twice.
THEOREM StoreImplementsGraph == Spec => ImplementsGraph
<1> DEFINE RInv == twice = {} => Filled /\ Ids
<1>1. Init => RInv /\ Graph!Init
  BY RefinementInit
<1>2. Inv /\ RInv /\ [Next]_vars => RInv'
  <2> SUFFICES ASSUME IInv, Filled, Ids, [Next]_vars, twice' = {} PROVE Filled' /\ Ids'
    BY TwiceGrows DEF Inv
  <2>2. ASSUME NEW b \in Backend, Step(b) PROVE Filled' /\ Ids'
    BY <2>2, FilledStep, IdsStep DEF IInv
  <2>3. CASE UNCHANGED vars
    <3>1. Items' = Items
      BY <2>3, ItemsSame DEF vars, store
    <3> QED BY <2>3, <3>1 DEF vars, store, Filled, Ids
  <2> QED BY <2>2, <2>3 DEF Next
<1>3. /\ Inv /\ RInv /\ Inv' /\ RInv' /\ [Next]_vars
      => [twice' = {} => Graph!Next]_(Graph!vars)
  <2> SUFFICES ASSUME IInv, Filled, Ids, IInv', Filled', [Next]_vars, twice' = {}
               PROVE  [Graph!Next]_(Graph!vars)
    BY TwiceGrows DEF Inv
  <2>1. CASE UNCHANGED vars
    <3>1. UNCHANGED <<OutLists, InLists, Dead>>
      BY <2>1 DEF vars, store, OutLists, InLists, Dead, Walk, Held
    <3> QED BY <3>1 DEF Graph!vars, OutLists, InLists, Dead
  <2>2. ASSUME NEW b \in Backend, Step(b) PROVE [Graph!Next]_(Graph!vars)
    <3>1. \/ \E e \in Edge \ Graph!Known, s, t \in Node :
                /\ OutLists' = [OutLists EXCEPT ![s] = <<e>> \o @]
                /\ InLists' = [InLists EXCEPT ![t] = <<e>> \o @]
                /\ Dead' = Dead
          \/ \E e \in Graph!Known \ Dead :
                Dead' = Dead \cup {e} /\ OutLists' = OutLists /\ InLists' = InLists
          \/ OutLists' = OutLists /\ InLists' = InLists /\ Dead' = Dead
      BY <2>2, RefinementStep
    <3> QED BY <3>1 DEF Graph!Next, Graph!Insert, Graph!Delete, Graph!vars, OutLists, InLists, Dead
  <2> QED BY <2>1, <2>2 DEF Next
<1> QED BY <1>1, <1>2, <1>3, InvHolds, PTL DEF Spec, ImplementsGraph

=============================================================================
