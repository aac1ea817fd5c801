--------------------------- MODULE NodeStoreProofs ---------------------------
(***************************************************************************)
(* Proofs about NodeStore, for any number of backends, nodes, pages and    *)
(* transactions and every page capacity.                                   *)
(***************************************************************************)
EXTENDS NodeStore, FiniteSetTheorems, WellFoundedInduction, TLAPS

\* The states in which an insert or an update looks for room, and those of a
\* mutation that has a transaction.
Placing  == {"size", "place", "placenew"}
Applying == {"delete", "update", "edge"}
Mutating == Placing \cup Applying \cup {"loaded", "find"}

\* What the control state says of the locals.
Locally(b) ==
    /\ pc[b] \in Mutating => xid[b] \in Xid /\ loc[b].n \in Node
    /\ pc[b] \in Placing => /\ loc[b].task \in {"insert", "update"}
                            /\ loc[b].task = "update" => loc[b].slot \in Slot /\ ~loc[b].big
    /\ pc[b] \in {"loaded", "find"} => loc[b].task \in {"delete", "update", "edge"} /\ ~loc[b].big
    /\ pc[b] \in Applying => /\ loc[b].task = pc[b] /\ ~loc[b].big
                             /\ loc[b].at \in Items /\ loc[b].slot = item[loc[b].at].slot
                             /\ item[loc[b].at].id = loc[b].n
    /\ pc[b] = "scan" => snap[b] # None
    /\ \A d \in loc[b].dead : /\ d[1] \in Items
                              /\ d[2] = item[d[1]].slot /\ item[d[1]].xmax # 0
    /\ loc[b].dead # {} => pc[b] = "vacuumpage"
    /\ pc[b] = "find" => loc[b].pg >= 1
    /\ pc[b] \in {"scan", "vacuum", "vacuumpage"} => loc[b].pg >= 1
    /\ pc[b] = "vacuumpage" => loc[b].pg <= loc[b].lim

\* Blocks are added at the end of the relation; only node pages hold items.
Relation ==
    /\ \A p \in Page : kind[p] # "none" <=> p <= nblocks
    /\ \A p \in Page : used[p] # 0 => kind[p] = "node"
    /\ \A b \in Backend : loc[b].lim <= nblocks

Structure == TypeOK /\ Relation /\ \A b \in Backend : Locally(b)

\* Xids are assigned in order; a backend's own is running and nobody else's.
Xids ==
    /\ \A x \in Xid : xstat[x] # "none" <=> x < NextXid
    /\ \A b \in Backend : xid[b] # 0 => xstat[xid[b]] = "active"
    /\ \A b, c \in Backend : xid[b] # 0 /\ xid[b] = xid[c] => b = c

\* A transaction that is over, and over for every snapshot in use.
Over(x) == xstat[x] \in {"committed", "aborted"}
Past(x) == Over(x) /\ \A b \in Backend : snap[b] # None => ~InSnapshot(x, snap[b])

\* Whatever a snapshot takes for finished is finished.
Snapshots ==
    \A b \in Backend : snap[b] # None =>
        \A x \in Xid : ~InSnapshot(x, snap[b]) => Over(x)

\* VACUUM works with a horizon below which everything is past, and the deleters
\* it has noted have committed.
Horizon(b) ==
    /\ \A x \in Xid : x < loc[b].horizon => Past(x)
    /\ \A d \in loc[b].dead : Past(d[3]) /\ xstat[d[3]] = "committed"
Buried ==
    \A a \in Items : item[a].lp = "dead" =>
        killer[a] \in Xid /\ Past(killer[a]) /\ xstat[killer[a]] = "committed"

Txns == Xids /\ Snapshots /\ (\A b \in Backend : Horizon(b)) /\ Buried

\* A scan has everything visible behind its position, and nothing beyond the
\* page where it stops is visible to it.
Behind(b, a) == a[1] < loc[b].pg \/ (a[1] = loc[b].pg /\ a[2] < loc[b].off)
Progress(b) ==
    pc[b] = "scan" =>
        /\ \A a \in Items : Visible(b, a) /\ Behind(b, a) => a \in loc[b].got
        /\ \A a \in Items : Shown(b, snap[b], item[a].xmin) => a[1] <= loc[b].lim

\* Node ids are handed out once: the node of an insert under way has no item, that
\* of an update has one.
NewNode(b) == pc[b] \in Placing /\ loc[b].task = "insert"
NewVersion(b) == pc[b] \in Placing /\ loc[b].task = "update"
Fresh ==
    /\ \A a \in Items : item[a].id <= lastId
    /\ \A b \in Backend : pc[b] \in Mutating => loc[b].n <= lastId
    /\ \A b \in Backend : NewNode(b) => \A a \in Items : item[a].id # loc[b].n
    /\ \A b \in Backend : NewVersion(b) => \E a \in Items : item[a].id = loc[b].n
    /\ \A b, c \in Backend : NewNode(b) /\ NewNode(c) /\ loc[b].n = loc[c].n => b = c

\* What an update has found when it looks for room for the new version.
AtHand(b) ==
    NewVersion(b) => /\ loc[b].at \in Items /\ item[loc[b].at].id = loc[b].n
                     /\ loc[b].slot = item[loc[b].at].slot

\* All versions of a node have one slot number, that of the line pointer of its
\* first one.  What nothing names holds no edges, and a header that nothing has
\* disturbed holds its node's.
Headers ==
    /\ \A a, c \in Items : item[a].id = item[c].id => item[a].slot = item[c].slot
    /\ \A a \in Items : \E c \in Items : item[c].id = item[a].id /\ item[c].slot = c[2]
    /\ \A h \in Addr : hdr[h] # 0 => \E c \in Items : HeaderOf(c) = h
    /\ \A n \in Node : edges[n] # 0 => \E c \in Items : item[c].id = n
    /\ \A a \in Items : Undisturbed(a) => hdr[HeaderOf(a)] = edges[item[a].id]

\* A node of which no version was replaced twice has one version that was not
\* replaced at all, or one update under way that has not written its own yet.
Tip(a, n) == a \in Items /\ item[a].id = n /\ a \notin replaced
Tips ==
    /\ \A a \in replaced : a \in Items /\ item[a].xmax # 0
    /\ \A n \in Node \ forked :
          /\ \A a, c \in Items : Tip(a, n) /\ Tip(c, n) => a = c
          /\ \A b \in Backend : NewVersion(b) /\ loc[b].n = n => \A a \in Items : ~Tip(a, n)
          /\ \A b, c \in Backend :
                NewVersion(b) /\ NewVersion(c) /\ loc[b].n = n /\ loc[c].n = n => b = c

\* A scan returns no version of a node of which it has another one, or may get one.
Once(b) ==
    pc[b] = "scan" =>
        /\ \A a \in loc[b].got : a \in Items /\ Shown(b, snap[b], item[a].xmin)
        /\ \A a \in loc[b].got, c \in Items :
              (c \in loc[b].got \/ Visible(b, c)) /\ item[a].id = item[c].id
                  => a = c \/ item[a].id \in forked
-----------------------------------------------------------------------------
USE NodeStoreAssumption

(* Numbers, and what follows from the constants *)

\* Every set of naturals that is not empty has a least element, which Min
\* chooses, and if it is bounded a greatest, which Max chooses.
LEMMA MinNat ==
    ASSUME NEW S \in SUBSET Nat, S # {}
    PROVE  Min(S) \in S /\ \A y \in S : Min(S) <= y
<1> DEFINE R == {p \in Nat \X Nat : p[1] < p[2]}
<1>1. IsWellFoundedOn(R, Nat)
  <2>1. OpToRel(<, Nat) = R
    BY DEF OpToRel
  <2> QED BY <2>1, NatLessThanWellFounded
<1>2. PICK x \in S : \A y \in S : <<y, x>> \notin R
  <2> HIDE DEF R
  <2> QED BY <1>1, WFMin
<1>3. \A y \in S : x <= y
  <2> SUFFICES ASSUME NEW y \in S, ~(x <= y) PROVE FALSE
    OBVIOUS
  <2>1. y < x /\ <<y, x>> \in Nat \X Nat
    OBVIOUS
  <2>2. <<y, x>> \in R
    BY <2>1
  <2> QED BY <1>2, <2>2
<1> QED BY <1>3 DEF Min

\* The same for the greatest of a bounded set, which Max chooses.
LEMMA MaxNat ==
    ASSUME NEW n \in Nat, NEW S \in SUBSET (0..n), S # {}
    PROVE  Max(S) \in S /\ \A y \in S : y <= Max(S)
<1> DEFINE T == {z \in Nat : \E y \in S : z + y = n}
<1>1. \A y \in S : y \in 0..n /\ n - y \in T
  <2> TAKE y \in S
  <2>1. y \in 0..n /\ n - y \in Nat /\ (n - y) + y = n
    OBVIOUS
  <2> QED BY <2>1
<1>2. PICK m \in T : \A z \in T : m <= z
  <2>1. T \in SUBSET Nat /\ T # {}
    BY <1>1
  <2> HIDE DEF T
  <2> QED BY <2>1, MinNat
<1>3. PICK x \in S : m + x = n
  OBVIOUS
<1>4. \A y \in S : x >= y
  <2> TAKE y \in S
  <2>1. m <= n - y
    BY <1>1, <1>2
  <2> QED BY <1>1, <1>3, <2>1
<1> QED BY <1>4 DEF Max

\* A relation whose blocks in use are the first k has k blocks.
LEMMA Prefix ==
    ASSUME NEW f, NEW k \in 0..MaxPages, \A p \in Page : f[p] # "none" <=> p <= k
    PROVE  Cardinality({p \in Page : f[p] # "none"}) = k
<1>1. {p \in Page : f[p] # "none"} = 1..k
  BY DEF Page
<1>2. Cardinality(1..k) = k
  BY FS_Interval
<1> QED BY <1>1, <1>2

\* What the assumption says, in the form the provers need.
LEMMA Constants ==
    /\ NoLocals \in Locals
    /\ \A a \in Addr : a = <<a[1], a[2]>> /\ a[1] \in Page /\ a[2] \in Slot
    /\ \A p \in Page, s \in Slot : <<p, s>> \in Addr
    /\ \A i \in Item : i # NoItem
    /\ Page \subseteq Nat /\ Slot \subseteq Nat /\ Xid \subseteq Nat /\ Node \subseteq Nat
<1>1. NoLocals \in Locals
  BY DEF NoLocals, Locals
<1>2. \A i \in Item : i # NoItem
  BY DEF Item, NoItem, Node
<1> QED BY <1>1, <1>2 DEF Addr, Page, Slot, Xid, Node

\* The parts of TypeOK: store, transactions, control.
StoreOK ==
    /\ lastId \in 0..MaxNode
    /\ kind \in [Page -> {"none", "node", "overflow"}]
    /\ used \in [Page -> 0..PageCap]
    /\ item \in [Addr -> Item \cup {NoItem}]
    /\ \A a \in Items : item[a] \in Item
    /\ hdr \in [Addr -> Nat]
    /\ edges \in [Node -> 0..MaxEdges]
    /\ killer \in [Addr -> Xid \cup {0}]
TxnsOK ==
    /\ xstat \in [Xid -> {"none", "active", "committed", "aborted"}]
    /\ xid \in [Backend -> 0..MaxXid]
    /\ snap \in [Backend -> Snapshot \cup {None}]
ControlOK == pc \in [Backend -> Control] /\ loc \in [Backend -> Locals]
HistoryOK == replaced \subseteq Addr /\ forked \subseteq Node

\* Types, in the parts the lemmas use.
LEMMA TypeParts == TypeOK <=> StoreOK /\ TxnsOK /\ ControlOK /\ HistoryOK
BY DEF TypeOK, StoreOK, TxnsOK, ControlOK, HistoryOK

\* The next xid is the least that has not been assigned; the horizon of VACUUM
\* is at most that, and at most what any snapshot in use takes for running.
LEMMA LeastFree ==
    ASSUME NEW f, NEW m, m = Min({x \in 1..(MaxXid + 1) : x \in Xid => f[x] = "none"})
    PROVE  /\ m \in 1..(MaxXid + 1)
           /\ m \in Xid => f[m] = "none"
           /\ \A x \in Xid : f[x] = "none" => m <= x
           /\ \A x \in Xid : x < m => f[x] # "none"
<1> DEFINE S == {x \in 1..(MaxXid + 1) : x \in Xid => f[x] = "none"}
<1>1. MaxXid + 1 \in S
  BY DEF Xid
<1>2. S \in SUBSET Nat /\ S # {}
  BY <1>1
<1>3. m \in S /\ \A y \in S : m <= y
  <2> HIDE DEF S
  <2>1. m = Min(S)
    BY DEF S
  <2>2. Min(S) \in S /\ \A y \in S : Min(S) <= y
    BY <1>2, MinNat
  <2> QED BY <2>1, <2>2
<1> QED BY <1>3 DEF Xid

\* NextXid is the first transaction id nobody has.
LEMMA NextXidIs ==
    /\ NextXid \in 1..(MaxXid + 1)
    /\ NextXid \in Xid => xstat[NextXid] = "none"
    /\ \A x \in Xid : xstat[x] = "none" => NextXid <= x
    /\ \A x \in Xid : x < NextXid => xstat[x] # "none"
BY LeastFree DEF NextXid

\* The same after a step.
LEMMA NextXidWillBe ==
    /\ NextXid' \in 1..(MaxXid + 1)
    /\ NextXid' \in Xid => xstat'[NextXid'] = "none"
    /\ \A x \in Xid : xstat'[x] = "none" => NextXid' <= x
    /\ \A x \in Xid : x < NextXid' => xstat'[x] # "none"
BY LeastFree DEF NextXid

\* The horizon of VACUUM is not above any running or any snapshot's xid.
LEMMA OldestXminIs ==
    ASSUME TxnsOK
    PROVE  /\ OldestXmin \in 1..(MaxXid + 1)
           /\ OldestXmin <= NextXid
           /\ \A x \in Xid : xstat[x] = "active" => OldestXmin <= x
           /\ \A b \in Backend : snap[b] # None =>
                 OldestXmin <= snap[b].next /\ \A x \in snap[b].running : OldestXmin <= x
<1> DEFINE U == UNION {snap[b].running \cup {snap[b].next} : b \in {c \in Backend : snap[c] # None}}
           S == U \cup Running \cup {NextXid}
<1>1. \A b \in Backend : snap[b] # None =>
        /\ snap[b].next \in 1..(MaxXid + 1) /\ snap[b].running \in SUBSET Xid
        /\ snap[b].next \in U /\ \A x \in snap[b].running : x \in U
  BY DEF TxnsOK, Snapshot
<1>2. U \in SUBSET (1..(MaxXid + 1))
  BY <1>1 DEF Xid
<1>3. S \in SUBSET (1..(MaxXid + 1)) /\ S # {}
  BY <1>2, NextXidIs DEF Running, Xid
<1>4. OldestXmin = Min(S)
  BY DEF OldestXmin
<1>5. OldestXmin \in S /\ \A y \in S : OldestXmin <= y
  <2>1. S \in SUBSET Nat
    BY <1>3
  <2> HIDE DEF S
  <2> QED BY <1>3, <1>4, <2>1, MinNat
<1>6. \A x \in Xid : xstat[x] = "active" => x \in S
  BY DEF Running
<1>7. \A b \in Backend : snap[b] # None => snap[b].next \in S /\ \A x \in snap[b].running : x \in S
  BY <1>1
<1>8. NextXid \in S
  OBVIOUS
<1> HIDE DEF S
<1> QED BY <1>3, <1>5, <1>6, <1>7, <1>8
-----------------------------------------------------------------------------
(* What steps do                                                           *)

\* The steps that write the relation, and those that touch transactions.
LEMMA StoreCases ==
    ASSUME NEW b \in Backend, Step(b)
    PROVE  \/ UNCHANGED store
           \/ \E task \in {"insert", "insertbig"} : InsertBegin(b, task)
           \/ PlaceHere(b) \/ PlaceNew(b)
           \/ DeleteApply(b) \/ UpdateSamePage(b) \/ UpdateCrossPage(b)
           \/ EdgeApply(b) \/ VacuumPage(b)
BY DEF Step, BeginTxn, CommitTxn, AbortTxn, EndTxn, PlaceBegin, PlaceFull, LoadOld, EdgeBegin,
       FindBegin, FindCached, FindPage, FindNone, ScanBegin, ScanNext, ScanEnd,
       VacuumBegin, VacuumCollect, VacuumEnd

\* How a step changes transactions and snapshots.
LEMMA TxnsCases ==
    ASSUME NEW b \in Backend, Step(b)
    PROVE  \/ UNCHANGED txns
           \/ BeginTxn(b) \/ CommitTxn(b) \/ AbortTxn(b)
           \/ pc[b] \in Mutating /\ Error(b)
           \/ ScanBegin(b) \/ ScanEnd(b)
BY DEF Step, txns, InsertBegin, PlaceBegin, PlaceHere, PlaceFull, PlaceNew, Put, Captured,
       LoadOld, EdgeBegin, FindBegin, FindCached, FindPage, FindNone, DeleteApply, UpdateSamePage,
       UpdateCrossPage, EdgeApply, ScanNext, VacuumBegin, VacuumCollect, VacuumPage, VacuumEnd,
       Mutating, Placing, Applying

\* The control state of one backend changes.
LEMMA ControlStep ==
    ASSUME ControlOK, NEW b \in Backend, NEW l \in Locals, NEW c \in Control,
           pc' = pc \/ pc' = [pc EXCEPT ![b] = c],
           loc' = loc \/ loc' = [loc EXCEPT ![b] = l]
    PROVE  ControlOK'
BY DEF ControlOK

\* The blocks of the relation are a prefix of Page.
LEMMA Blocks ==
    ASSUME StoreOK
    PROVE  nblocks \in 0..MaxPages
<1>1. IsFiniteSet(1..MaxPages) /\ Cardinality(1..MaxPages) = MaxPages
  BY FS_Interval
<1>2. {p \in Page : kind[p] # "none"} \in SUBSET (1..MaxPages)
  BY DEF Page
<1>3. nblocks <= MaxPages /\ nblocks \in Nat
  BY <1>1, <1>2, FS_Subset, FS_CardinalityType DEF nblocks
<1> QED BY <1>3

\* Where an insertion puts the new version: on a node page with room, or on a
\* page it appends.
LEMMA Room ==
    ASSUME Structure, NEW b \in Backend, PlaceHere(b) \/ PlaceNew(b)
    PROVE  \E p \in Page : /\ Put(b, p) /\ used[p] < PageCap /\ pc[b] \in Placing
                           /\ \/ p <= nblocks /\ kind[p] = "node"
                              \/ p = nblocks + 1 /\ kind[p] = "none"
<1>t. StoreOK /\ ControlOK /\ Relation
  BY TypeParts DEF Structure
<1>1. CASE PlaceHere(b)
  <2> DEFINE S == {p \in 1..loc[b].lim : kind[p] = "node"} \cup {0}
             q == LastNodePage(b)
  <2>1. loc[b].lim \in 0..MaxPages
    BY <1>t DEF ControlOK, Locals
  <2>2. S \in SUBSET (0..MaxPages) /\ S # {}
    BY <2>1
  <2>3. q \in S
    <3> HIDE DEF S
    <3>1. Max(S) \in S
      BY <2>2, MaxNat
    <3> QED BY <3>1 DEF LastNodePage, S
  <2>4. q # 0 /\ HasSpace(q) /\ Put(b, q) /\ pc[b] = "place"
    BY <1>1 DEF PlaceHere
  <2>5. q \in Page /\ kind[q] = "node"
    BY <2>1, <2>3, <2>4 DEF Page
  <2>6. q <= nblocks
    BY <2>5, <1>t DEF Relation
  <2>7. used[q] < PageCap /\ pc[b] \in Placing
    BY <2>4 DEF HasSpace, Placing
  <2> HIDE DEF q
  <2> QED BY <2>4, <2>5, <2>6, <2>7
<1>2. CASE PlaceNew(b)
  <2>1. nblocks \in 0..MaxPages /\ nblocks < MaxPages /\ Put(b, nblocks + 1) /\ pc[b] = "placenew"
    BY <1>2, <1>t, Blocks DEF PlaceNew
  <2> DEFINE q == nblocks + 1
  <2>2. q \in Page /\ ~(q <= nblocks)
    BY <2>1 DEF Page
  <2>3. kind[q] = "none" /\ used[q] = 0
    BY <2>2, <1>t DEF Relation, StoreOK
  <2>4. used[q] < PageCap /\ pc[b] \in Placing /\ Put(b, q)
    BY <2>1, <2>3 DEF Placing
  <2>5. q = nblocks + 1
    OBVIOUS
  <2> HIDE DEF q
  <2> QED BY <2>2, <2>3, <2>4, <2>5
<1> QED BY <1>1, <1>2

\* A version written to the first free line pointer of a page.
LEMMA NewItem ==
    ASSUME StoreOK, NEW p \in Page, used[p] < PageCap, used' = [used EXCEPT ![p] = @ + 1]
    PROVE  /\ <<p, used[p] + 1>> \in Addr /\ <<p, used[p] + 1>> \notin Items
           /\ Items' = Items \cup {<<p, used[p] + 1>>}
<1>1. used[p] \in 0..PageCap /\ \A q \in Page : used[q] \in 0..PageCap
  BY DEF StoreOK
<1>2. <<p, used[p] + 1>> \in Addr
  BY <1>1 DEF Addr, Slot
<1>3. \A a \in Addr : a[2] <= used'[a[1]] <=> a[2] <= used[a[1]] \/ a = <<p, used[p] + 1>>
  <2> TAKE a \in Addr
  <2>1. a = <<a[1], a[2]>> /\ a[1] \in Page /\ a[2] \in Slot /\ a[2] \in Nat
    BY Constants
  <2>2. CASE a[1] # p
    BY <2>1, <2>2, <1>1 DEF StoreOK
  <2>3. CASE a[1] = p
    <3>1. used'[a[1]] = used[p] + 1
      BY <2>3, <1>1 DEF StoreOK
    <3>2. a[2] <= used[p] + 1 <=> a[2] <= used[p] \/ a[2] = used[p] + 1
      BY <2>1, <1>1
    <3> QED BY <2>1, <2>3, <3>1, <3>2
  <2> QED BY <2>2, <2>3
<1>4. <<p, used[p] + 1>> \notin Items
  BY <1>1 DEF Items
<1> QED BY <1>2, <1>3, <1>4 DEF Items

\* What an operation writes is an item.
LEMMA VersionIs ==
    ASSUME Structure, NEW b \in Backend, pc[b] \in Placing \cup {"update"}, NEW a \in Addr,
           NEW o \in Page \cup {0}
    PROVE  /\ Version(b, a, o) \in Item
           /\ Version(b, a, o).id = loc[b].n /\ Version(b, a, o).xmin = xid[b]
           /\ Version(b, a, o).xmax = 0 /\ Version(b, a, o).lp = "normal"
           /\ Version(b, a, o).slot = IF loc[b].task = "insert" THEN a[2] ELSE loc[b].slot
<1>1. xid[b] \in Xid /\ loc[b].n \in Node
  BY DEF Structure, Locally, Mutating, Applying
<1>2. loc[b].task # "insert" => loc[b].slot \in Slot
  <2>1. CASE pc[b] \in Placing
    BY <2>1 DEF Structure, Locally
  <2>2. CASE pc[b] = "update"
    <3>1. loc[b].at \in Items /\ loc[b].slot = item[loc[b].at].slot
      BY <2>2 DEF Structure, Locally, Applying
    <3> QED BY <3>1, TypeParts DEF Structure, StoreOK, Item
  <2> QED BY <2>1, <2>2
<1>3. HeaderSlot(b, a) \in Slot
  BY <1>2, Constants DEF HeaderSlot
<1> QED BY <1>1, <1>3 DEF Version, Item, HeaderSlot
\* Items are never removed or rewritten: a step of a backend may delete one or
\* make it LP_DEAD, and what it adds is a live version of its node of its own.
Kept(b) ==
    /\ Items \subseteq Items'
    /\ \A a \in Items :
          /\ item'[a].id = item[a].id /\ item'[a].slot = item[a].slot
          /\ item'[a].xmin = item[a].xmin
          /\ item[a].xmax # 0 => item'[a].xmax # 0
          /\ item[a].lp = "dead" => item'[a].lp = "dead"
          /\ item'[a].lp # item[a].lp => VacuumPage(b)
    /\ \A a, c \in Items' \ Items : a = c
    /\ \A a \in Items' \ Items :
          /\ pc[b] \in Placing \cup {"update"} /\ pc'[b] = "idle"
          /\ item'[a].id = loc[b].n /\ item'[a].xmin = xid[b]
          /\ item'[a].xmax = 0 /\ item'[a].lp = "normal"
          /\ item'[a].slot = IF loc[b].task = "insert" THEN a[2] ELSE loc[b].slot

\* How a step changes pages and headers.
LEMMA StoreStep ==
    ASSUME Structure, NEW b \in Backend, Step(b)
    PROVE  StoreOK' /\ Kept(b)
<1>t. StoreOK /\ TxnsOK /\ ControlOK /\ Locally(b)
  BY TypeParts DEF Structure
<1>i. \A a \in Items : a \in Addr /\ item[a] \in Item
  BY <1>t DEF StoreOK, Items
<1>a. loc[b] \in Locals /\ pc[b] \in Control
  BY <1>t DEF ControlOK
<1>1. CASE UNCHANGED store
  <2>1. Items' = Items
    BY <1>1 DEF store, Items
  <2> QED BY <1>1, <1>t, <2>1 DEF store, StoreOK, Kept
<1>2. ASSUME NEW task \in {"insert", "insertbig"}, InsertBegin(b, task)
      PROVE  StoreOK' /\ Kept(b)
  <2>1. Items' = Items
    BY <1>2 DEF InsertBegin, Items
  <2>2. lastId' \in 0..MaxNode
    BY <1>2, <1>t DEF InsertBegin, StoreOK
  <2> QED BY <1>2, <1>t, <2>1, <2>2 DEF InsertBegin, StoreOK, Kept
<1>3. CASE PlaceHere(b) \/ PlaceNew(b)
  <2>1. PICK p \in Page : Put(b, p) /\ used[p] < PageCap /\ pc[b] \in Placing
    BY <1>3, Room
  <2> DEFINE a == <<p, used[p] + 1>>
             grown == IF kind[p] = "node" THEN nblocks ELSE p
             o == IF loc[b].big THEN grown + 1 ELSE 0
             v == Version(b, a, o)
  <2>2. a \in Addr /\ a \notin Items /\ Items' = Items \cup {a}
    BY <2>1, <1>t, NewItem DEF Put
  <2>3. nblocks \in 0..MaxPages
    BY <1>t, Blocks
  <2>4. o \in Page \cup {0}
    BY <2>1, <2>3 DEF Put, Page
  <2>5. /\ v \in Item /\ v.id = loc[b].n /\ v.xmin = xid[b] /\ v.xmax = 0 /\ v.lp = "normal"
        /\ v.slot = IF loc[b].task = "insert" THEN a[2] ELSE loc[b].slot
    <3> HIDE DEF o, a
    <3> QED BY <2>1, <2>2, <2>4, VersionIs
  <2>6. item' = [item EXCEPT ![a] = v]
    BY <2>1 DEF Put
  <2>7. item' \in [Addr -> Item \cup {NoItem}] /\ item'[a] = v /\ \A c \in Items : item'[c] = item[c]
    <3> HIDE DEF a, v
    <3> QED BY <2>2, <2>5, <2>6, <1>t, <1>i DEF StoreOK
  <2>8. used' \in [Page -> 0..PageCap]
    <3>1. used[p] + 1 \in 0..PageCap
      BY <2>1, <1>t DEF StoreOK
    <3> QED BY <2>1, <3>1, <1>t DEF Put, StoreOK
  <2>9. kind' \in [Page -> {"none", "node", "overflow"}]
    BY <2>1, <1>t DEF Put, StoreOK
  <2>10. UNCHANGED <<lastId, hdr, edges, killer>>
    BY <2>1 DEF Put
  <2>11. StoreOK'
    <3> HIDE DEF a, v
    <3> QED BY <2>2, <2>5, <2>7, <2>8, <2>9, <2>10, <1>t, <1>i DEF StoreOK
  <2>12. Kept(b)
    <3>1. pc'[b] = "idle"
      BY <2>1, <1>t DEF Put, Captured, Error, Return, ControlOK
    <3> HIDE DEF a, v
    <3> QED BY <3>1, <2>1, <2>2, <2>5, <2>7 DEF Kept
  <2> QED BY <2>11, <2>12
<1>4. CASE DeleteApply(b) \/ UpdateCrossPage(b)
  <2>1. /\ loc[b].at \in Items /\ xid[b] \in Xid /\ xid[b] # 0
        /\ item' = [item EXCEPT ![loc[b].at].xmax = xid[b]] /\ used' = used
        /\ UNCHANGED <<lastId, kind, hdr, edges, killer>>
    BY <1>4, <1>t DEF DeleteApply, UpdateCrossPage, Locally, Mutating, Applying, Xid
  <2> DEFINE at == loc[b].at
             v == [item[at] EXCEPT !.xmax = xid[b]]
  <2>2. item' = [item EXCEPT ![at] = v] /\ Items' = Items
    BY <2>1 DEF Items
  <2>3. v \in Item /\ v.id = item[at].id /\ v.slot = item[at].slot /\ v.xmin = item[at].xmin /\ v.xmax # 0
        /\ v.lp = item[at].lp
    BY <2>1, <1>i DEF Item
  <2> HIDE DEF at, v
  <2>4. /\ item' \in [Addr -> Item \cup {NoItem}] /\ item'[at] = v
        /\ \A c \in Items : c # at => item'[c] = item[c]
    BY <2>2, <2>3, <2>1, <1>t, <1>i DEF StoreOK, at
  <2> QED BY <2>1, <2>2, <2>3, <2>4, <1>t, <1>i DEF StoreOK, Kept
<1>5. CASE UpdateSamePage(b)
  <2> DEFINE at == loc[b].at
             p == at[1]
             a == <<p, used[p] + 1>>
             u == [item[at] EXCEPT !.xmax = xid[b]]
             v == Version(b, a, 0)
  <2>1. /\ at \in Items /\ at \in Addr /\ p \in Page /\ xid[b] \in Xid /\ xid[b] # 0
        /\ pc[b] = "update" /\ used[p] < PageCap
        /\ used' = [used EXCEPT ![p] = @ + 1]
        /\ item' = [item EXCEPT ![at].xmax = xid[b], ![a] = v]
        /\ UNCHANGED <<lastId, kind, hdr, edges, killer>>
    BY <1>5, <1>t, <1>i, Constants DEF UpdateSamePage, Locally, Mutating, Applying, Xid, HasSpace
  <2>2. a \in Addr /\ a \notin Items /\ Items' = Items \cup {a} /\ a # at
    BY <2>1, <1>t, NewItem
  <2>3. /\ v \in Item /\ v.id = loc[b].n /\ v.xmin = xid[b] /\ v.xmax = 0 /\ v.lp = "normal"
        /\ v.slot = IF loc[b].task = "insert" THEN a[2] ELSE loc[b].slot
    <3> HIDE DEF a
    <3> QED BY <2>1, <2>2, VersionIs
  <2>4. /\ u \in Item /\ u.id = item[at].id /\ u.slot = item[at].slot
        /\ u.xmin = item[at].xmin /\ u.xmax # 0 /\ u.lp = item[at].lp
    BY <2>1, <1>i DEF Item
  <2>5. item' = [item EXCEPT ![at] = u, ![a] = v]
    <3> HIDE DEF a, v
    <3> QED BY <2>1, <2>2
  <2>6. used' \in [Page -> 0..PageCap]
    <3>1. used[p] + 1 \in 0..PageCap
      BY <2>1, <1>t DEF StoreOK
    <3> QED BY <2>1, <3>1, <1>t DEF StoreOK
  <2> HIDE DEF at, a, u, v, p
  <2>7. /\ item' \in [Addr -> Item \cup {NoItem}] /\ item'[at] = u /\ item'[a] = v
        /\ \A c \in Items : c # at => item'[c] = item[c]
    BY <2>1, <2>2, <2>3, <2>4, <2>5, <1>t, <1>i DEF StoreOK
  <2>8. StoreOK'
    BY <2>1, <2>2, <2>3, <2>4, <2>6, <2>7, <1>t, <1>i DEF StoreOK
  <2>9. Kept(b)
    <3>1. pc'[b] = "idle"
      BY <1>5, <1>t DEF UpdateSamePage, Captured, Error, Return, ControlOK
    <3> QED BY <3>1, <2>1, <2>2, <2>3, <2>4, <2>7 DEF Kept
  <2> QED BY <2>8, <2>9
<1>6. CASE EdgeApply(b)
  <2>1. Items' = Items
    BY <1>6 DEF EdgeApply, Items
  <2> DEFINE h == <<loc[b].at[1], loc[b].slot>>
  <2>2. hdr' \in [Addr -> Nat]
    <3>1. hdr' = [hdr EXCEPT ![h] = hdr[h] + 1]
      BY <1>6 DEF EdgeApply
    <3>2. h \in Addr
      BY <1>6, <1>t, <1>i, Constants DEF EdgeApply, Locally, Applying, Item
    <3> HIDE DEF h
    <3> QED BY <3>1, <3>2, <1>t DEF StoreOK
  <2>3. edges' \in [Node -> 0..MaxEdges]
    <3>1. edges[loc[b].n] + 1 \in 0..MaxEdges
      BY <1>6, <1>t DEF EdgeApply, StoreOK, Locally, Mutating, Applying
    <3> QED BY <3>1, <1>6, <1>t DEF EdgeApply, StoreOK
  <2> QED BY <1>6, <1>t, <2>1, <2>2, <2>3 DEF EdgeApply, StoreOK, Kept
<1>7. CASE VacuumPage(b)
  <2> DEFINE D == loc[b].dead
             Dead(a) == \E d \in D : d[1] = a
  <2>1. Items' = Items
    BY <1>7 DEF VacuumPage, Items
  <2>2. \A a \in Addr : Dead(a) => a \in Items
    BY <1>t DEF Locally
  <2>3. \A a \in Addr : item'[a] = IF Dead(a) THEN [item[a] EXCEPT !.lp = "dead"] ELSE item[a]
    BY <1>7 DEF VacuumPage
  <2>4. \A a \in Addr : killer'[a] \in Xid \cup {0}
    <3> TAKE a \in Addr
    <3>1. CASE ~Dead(a)
      BY <3>1, <1>7, <1>t DEF VacuumPage, StoreOK
    <3>2. CASE Dead(a)
      <4>1. \A d \in D : d[3] \in Xid
        BY <1>a DEF Locals
      <4>2. (CHOOSE d \in D : d[1] = a) \in D
        BY <3>2
      <4>3. killer'[a] = (CHOOSE d \in D : d[1] = a)[3]
        BY <3>2, <1>7 DEF VacuumPage
      <4> QED BY <4>1, <4>2, <4>3
    <3> QED BY <3>1, <3>2
  <2>5. /\ killer' = [a \in Addr |-> killer'[a]] /\ item' = [a \in Addr |-> item'[a]]
        /\ hdr' \in [Addr -> Nat]
        /\ UNCHANGED <<lastId, kind, used, edges>>
    BY <1>7, <1>t DEF VacuumPage, StoreOK
  <2>6. \A a \in Addr : item'[a] \in Item \cup {NoItem} /\ (a \in Items => item'[a] \in Item)
    <3> TAKE a \in Addr
    <3>1. CASE Dead(a)
      <4>1. item'[a] = [item[a] EXCEPT !.lp = "dead"] /\ item[a] \in Item
        BY <3>1, <2>2, <2>3, <1>i
      <4> QED BY <4>1 DEF Item
    <3>2. CASE ~Dead(a)
      BY <3>2, <2>3, <1>t, <1>i DEF StoreOK
    <3> QED BY <3>1, <3>2
  <2>7. StoreOK'
    BY <2>1, <2>4, <2>5, <2>6, <1>t DEF StoreOK, Items
  <2>8. Kept(b)
    <3> HIDE DEF Dead
    <3>1. \A a \in Items :
            /\ item'[a].id = item[a].id /\ item'[a].slot = item[a].slot
            /\ item'[a].xmin = item[a].xmin /\ item'[a].xmax = item[a].xmax
            /\ item[a].lp = "dead" => item'[a].lp = "dead"
      <4> TAKE a \in Items
      <4>1. item'[a] = [item[a] EXCEPT !.lp = "dead"] \/ item'[a] = item[a]
        BY <2>3, <1>i
      <4> QED BY <4>1, <1>i DEF Item
    <3> QED BY <1>7, <2>1, <3>1 DEF Kept
  <2> QED BY <2>7, <2>8
<1> QED BY <1>1, <1>2, <1>3, <1>4, <1>5, <1>6, <1>7, StoreCases

\* The types of the transaction variables.
LEMMA TxnsTypeStep ==
    ASSUME Structure, NEW b \in Backend, Step(b)
    PROVE  TxnsOK'
<1>t. TxnsOK /\ Locally(b)
  BY TypeParts DEF Structure
<1>n. NextXid \in 1..(MaxXid + 1)
  BY <1>t, NextXidIs
<1>1. CASE UNCHANGED txns
  BY <1>1, <1>t DEF txns, TxnsOK
<1>2. CASE BeginTxn(b)
  BY <1>2, <1>t DEF BeginTxn, TxnsOK, Xid
<1>3. CASE CommitTxn(b) \/ AbortTxn(b)
  <2>1. PICK st \in {"committed", "aborted"} : EndTxn(b, st)
    BY <1>3 DEF CommitTxn, AbortTxn
  <2> QED BY <2>1, <1>t DEF EndTxn, TxnsOK
<1>4. CASE pc[b] \in Mutating /\ Error(b)
  <2>1. 0 \in 0..MaxXid
    OBVIOUS
  <2> QED BY <2>1, <1>4, <1>t DEF Error, TxnsOK
<1>5. CASE ScanBegin(b)
  <2>1. Running \in SUBSET Xid
    BY DEF Running
  <2>2. [next |-> NextXid, running |-> Running] \in Snapshot
    BY <2>1, <1>n DEF Snapshot
  <2> QED BY <1>5, <2>2, <1>t DEF ScanBegin, TxnsOK
<1>6. CASE ScanEnd(b)
  BY <1>6, <1>t DEF ScanEnd, TxnsOK
<1> QED BY <1>1, <1>2, <1>3, <1>4, <1>5, <1>6, TxnsCases
\* The types of control states and locals.
LEMMA ControlTypeStep ==
    ASSUME Structure, NEW b \in Backend, Step(b)
    PROVE  ControlOK'
<1>t. StoreOK /\ TxnsOK /\ ControlOK /\ Locally(b)
  BY TypeParts DEF Structure
<1>a. loc[b] \in Locals /\ pc[b] \in Control
  BY <1>t DEF ControlOK
<1>n. nblocks \in 0..MaxPages /\ 1 \in 0..(MaxPages + 1) /\ NoLocals \in Locals /\ Node \subseteq 0..MaxNode
  BY <1>t, Blocks, Constants DEF Node
<1>l. ASSUME NEW l \in Locals, NEW c \in Control, pc' = pc \/ pc' = [pc EXCEPT ![b] = c],
             loc' = loc \/ loc' = [loc EXCEPT ![b] = l]
      PROVE  ControlOK'
  BY <1>l, <1>t, ControlStep
<1>r. Return(b) => ControlOK'
  <2> HAVE Return(b)
  <2>1. pc' = [pc EXCEPT ![b] = "idle"] /\ loc' = [loc EXCEPT ![b] = NoLocals]
    BY DEF Return
  <2>2. "idle" \in Control
    BY DEF Control
  <2> HIDE DEF Return
  <2> QED BY <2>1, <2>2, <1>l, Constants
<1>1. CASE BeginTxn(b) \/ CommitTxn(b) \/ AbortTxn(b)
  BY <1>1, <1>t DEF BeginTxn, CommitTxn, AbortTxn, EndTxn, ControlOK
<1>2. ASSUME NEW task \in {"insert", "insertbig"}, InsertBegin(b, task)
      PROVE  ControlOK'
  <2> DEFINE l == [NoLocals EXCEPT !.task = "insert", !.n = lastId + 1, !.seen = TRUE,
                                   !.big = (task = "insertbig")]
  <2>1. l \in Locals
    <3>1. lastId + 1 \in 0..MaxNode
      BY <1>2, <1>t DEF InsertBegin, StoreOK
    <3> QED BY <3>1, Constants DEF NoLocals, Locals
  <2>2. pc' = [pc EXCEPT ![b] = "size"] /\ loc' = [loc EXCEPT ![b] = l] /\ "size" \in Control
    BY <1>2 DEF InsertBegin, Control
  <2> HIDE DEF l
  <2> QED BY <2>1, <2>2, <1>l
<1>3. CASE PlaceBegin(b)
  <2> DEFINE l == [loc[b] EXCEPT !.lim = nblocks]
  <2>1. l \in Locals
    BY <1>a, <1>n DEF Locals
  <2>2. pc' = [pc EXCEPT ![b] = "place"] /\ loc' = [loc EXCEPT ![b] = l] /\ "place" \in Control
    BY <1>3 DEF PlaceBegin, Control
  <2> HIDE DEF l
  <2> QED BY <2>1, <2>2, <1>l
<1>4. CASE PlaceFull(b) \/ UpdateCrossPage(b)
  BY <1>4, <1>t DEF PlaceFull, UpdateCrossPage, ControlOK, Control
<1>5. CASE PlaceHere(b) \/ PlaceNew(b) \/ DeleteApply(b) \/ UpdateSamePage(b)
  <2>1. Captured(b)
    BY <1>5 DEF PlaceHere, PlaceNew, Put, DeleteApply, UpdateSamePage
  <2> QED BY <2>1, <1>r DEF Captured, Error
<1>6. ASSUME NEW task \in {"delete", "update"}, NEW n \in Node, LoadOld(b, task, n)
      PROVE  ControlOK'
  <2> DEFINE l == [NoLocals EXCEPT !.task = task, !.n = n, !.seen = OldSeen(b, n)]
  <2>1. l \in Locals
    <3>1. OldSeen(b, n) \in BOOLEAN
      BY DEF OldSeen
    <3> HIDE DEF OldSeen
    <3> QED BY <3>1, <1>n DEF Locals
  <2>2. pc' = [pc EXCEPT ![b] = "loaded"] /\ loc' = [loc EXCEPT ![b] = l] /\ "loaded" \in Control
    BY <1>6 DEF LoadOld, Control
  <2> HIDE DEF l
  <2> QED BY <2>1, <2>2, <1>l
<1>7. ASSUME NEW n \in Node, EdgeBegin(b, n)
      PROVE  ControlOK'
  <2> DEFINE l == [NoLocals EXCEPT !.task = "edge", !.n = n]
  <2>1. l \in Locals
    BY <1>n DEF Locals
  <2>2. pc' = [pc EXCEPT ![b] = "loaded"] /\ loc' = [loc EXCEPT ![b] = l] /\ "loaded" \in Control
    BY <1>7 DEF EdgeBegin, Control
  <2> HIDE DEF l
  <2> QED BY <2>1, <2>2, <1>l
<1>8. CASE FindBegin(b)
  <2> DEFINE l == [loc[b] EXCEPT !.pg = 1, !.lim = nblocks]
  <2>1. l \in Locals
    BY <1>a, <1>n DEF Locals
  <2>2. pc' = [pc EXCEPT ![b] = "find"] /\ loc' = [loc EXCEPT ![b] = l] /\ "find" \in Control
    BY <1>8, <1>t DEF FindBegin, Control, ControlOK
  <2> HIDE DEF l
  <2> QED BY <2>1, <2>2, <1>l
<1>f. ASSUME NEW a \in Items, Found(b, a), Matches(loc[b].n, a), pc[b] = "find"
      PROVE  ControlOK'
  <2> DEFINE l == [loc[b] EXCEPT !.at = a, !.slot = item[a].slot]
  <2>1. item[a] \in Item /\ a \in Addr
    BY <1>t DEF StoreOK, Items
  <2>2. l \in Locals
    <3>1. item[a].slot \in 0..PageCap
      BY <2>1 DEF Item, Slot
    <3> QED BY <2>1, <3>1, <1>a DEF Locals
  <2>3. pc' = [pc EXCEPT ![b] = loc[b].task] /\ loc' = [loc EXCEPT ![b] = l]
    BY <1>f, <1>t DEF Found, ControlOK
  <2>4. loc[b].task \in Control
    BY <1>f, <1>t DEF Locally, Control
  <2> HIDE DEF l
  <2> QED BY <2>2, <2>3, <2>4, <1>l
<1>p. ASSUME NEW o \in 1..(PageCap + 1), pc' = pc, loc[b].pg <= loc[b].lim,
             loc' = [loc EXCEPT ![b] = [loc[b] EXCEPT !.pg = @ + 1, !.off = o]]
      PROVE  ControlOK'
  <2> DEFINE l == [loc[b] EXCEPT !.pg = @ + 1, !.off = o]
  <2>1. l \in Locals
    <3>1. loc[b].pg + 1 \in 0..(MaxPages + 1)
      BY <1>p, <1>a DEF Locals
    <3> QED BY <3>1, <1>a DEF Locals
  <2> HIDE DEF l
  <2> QED BY <2>1, <1>p, <1>l, <1>a DEF l
<1>q. ASSUME loc[b].pg <= loc[b].lim, pc' = pc, loc' = [loc EXCEPT ![b].pg = @ + 1]
      PROVE  ControlOK'
  <2>1. loc[b].off \in 1..(PageCap + 1)
    BY <1>a DEF Locals
  <2>2. [loc[b] EXCEPT !.pg = @ + 1, !.off = loc[b].off] = [loc[b] EXCEPT !.pg = @ + 1]
    BY <1>a DEF Locals
  <2> QED BY <2>1, <2>2, <1>p, <1>q
<1>9. ASSUME NEW a \in Items, FindCached(b, a)
      PROVE  ControlOK'
  BY <1>9, <1>f DEF FindCached
<1>10. CASE FindPage(b)
  <2>1. ASSUME NEW a \in OnPage(loc[b].pg), Matches(loc[b].n, a), Found(b, a)
        PROVE  ControlOK'
    BY <2>1, <1>10, <1>f DEF FindPage, OnPage
  <2> QED BY <2>1, <1>10, <1>q DEF FindPage
<1>11. CASE FindNone(b) \/ EdgeApply(b) \/ ScanEnd(b) \/ VacuumEnd(b)
  BY <1>11, <1>r DEF FindNone, Error, EdgeApply, ScanEnd, VacuumEnd
<1>12. CASE ScanBegin(b)
  <2> DEFINE l == [NoLocals EXCEPT !.pg = 1, !.lim = nblocks]
  <2>1. l \in Locals
    BY <1>n DEF Locals
  <2>2. pc' = [pc EXCEPT ![b] = "scan"] /\ loc' = [loc EXCEPT ![b] = l] /\ "scan" \in Control
    BY <1>12 DEF ScanBegin, Control
  <2> HIDE DEF l
  <2> QED BY <2>1, <2>2, <1>l
<1>13. CASE ScanNext(b)
  <2>1. ASSUME NEW a \in OnPage(loc[b].pg), loc' = [loc EXCEPT ![b] = AfterRecord(b, a)]
        PROVE  ControlOK'
    <3> DEFINE l == AfterRecord(b, a)
    <3>1. a \in Addr /\ a[2] \in Slot
      BY Constants DEF OnPage, Items
    <3>2. a[2] + 1 \in 1..(PageCap + 1) /\ loc[b].got \cup {a} \in SUBSET Addr
      BY <3>1, <1>a DEF Slot, Locals
    <3>3. l \in Locals
      BY <3>2, <1>a DEF AfterRecord, Locals
    <3>4. pc' = pc
      BY <1>13 DEF ScanNext
    <3> HIDE DEF l
    <3> QED BY <3>3, <3>4, <2>1, <1>a, <1>l DEF l
  <2>2. ASSUME loc' = [loc EXCEPT ![b].pg = @ + 1, ![b].off = 1]
        PROVE  ControlOK'
    <3>1. loc' = [loc EXCEPT ![b] = [loc[b] EXCEPT !.pg = @ + 1, !.off = 1]]
      BY <2>2, <1>t DEF ControlOK
    <3>2. pc' = pc /\ loc[b].pg <= loc[b].lim /\ 1 \in 1..(PageCap + 1)
      BY <1>13 DEF ScanNext
    <3> QED BY <3>1, <3>2, <1>p
  <2> QED BY <2>1, <2>2, <1>13 DEF ScanNext
<1>14. CASE VacuumBegin(b)
  <2> DEFINE l == [NoLocals EXCEPT !.task = "vacuum", !.pg = 1, !.lim = nblocks, !.horizon = OldestXmin]
  <2>1. OldestXmin \in 0..(MaxXid + 1)
    BY <1>t, OldestXminIs
  <2>2. l \in Locals
    BY <2>1, <1>n DEF Locals
  <2>3. pc' = [pc EXCEPT ![b] = "vacuum"] /\ loc' = [loc EXCEPT ![b] = l] /\ "vacuum" \in Control
    BY <1>14 DEF VacuumBegin, Control
  <2> HIDE DEF l
  <2> QED BY <2>2, <2>3, <1>l
<1>15. CASE VacuumCollect(b)
  <2> DEFINE D == {a \in OnPage(loc[b].pg) : DeadTo(b, a)}
             E == {<<a, item[a].slot, item[a].xmax>> : a \in D}
             l == [loc[b] EXCEPT !.dead = E]
  <2>1. CASE D = {}
    BY <2>1, <1>15, <1>q DEF VacuumCollect
  <2>2. CASE D # {}
    <3>1. \A a \in D : a \in Addr /\ item[a].slot \in Slot /\ item[a].xmax \in Xid
      <4> TAKE a \in D
      <4>1. a \in Items /\ item[a] \in Item /\ item[a].xmax # 0
        BY <1>t DEF OnPage, StoreOK, DeadTo
      <4> QED BY <4>1 DEF Items, Item
    <3>2. E \in SUBSET (Addr \X Slot \X Xid)
      <4> HIDE DEF D
      <4> QED BY <3>1
    <3>3. l \in Locals
      <4> HIDE DEF E
      <4> QED BY <3>2, <1>a DEF Locals
    <3>4. pc' = [pc EXCEPT ![b] = "vacuumpage"] /\ loc' = [loc EXCEPT ![b] = l] /\ "vacuumpage" \in Control
      BY <2>2, <1>15, <1>t DEF VacuumCollect, Control, ControlOK
    <3> HIDE DEF l
    <3> QED BY <3>3, <3>4, <1>l
  <2> QED BY <2>1, <2>2
<1>16. CASE VacuumPage(b)
  <2> DEFINE l == [loc[b] EXCEPT !.dead = {}, !.pg = @ + 1]
  <2>1. loc[b].pg + 1 \in 0..(MaxPages + 1)
    BY <1>16, <1>t, <1>a DEF VacuumPage, Locally, Locals
  <2>2. l \in Locals
    BY <2>1, <1>a DEF Locals
  <2>3. pc' = [pc EXCEPT ![b] = "vacuum"] /\ loc' = [loc EXCEPT ![b] = l] /\ "vacuum" \in Control
    BY <1>16, <1>t DEF VacuumPage, Control, ControlOK
  <2> HIDE DEF l
  <2> QED BY <2>2, <2>3, <1>l
<1> QED
  BY <1>1, <1>2, <1>3, <1>4, <1>5, <1>6, <1>7, <1>8, <1>9, <1>10, <1>11, <1>12, <1>13, <1>14, <1>15,
     <1>16 DEF Step

\* The two steps that replace a version, and what they note of it.
LEMMA ReplaceStep ==
    ASSUME NEW b \in Backend, Step(b)
    PROVE  \/ /\ pc[b] = "update" /\ Replaces(b)
              /\ UpdateSamePage(b) \/ UpdateCrossPage(b)
           \/ replaced' = replaced /\ forked' = forked
<1>1. UpdateSamePage(b) \/ UpdateCrossPage(b) => pc[b] = "update" /\ Replaces(b)
  BY DEF UpdateSamePage, UpdateCrossPage
<1>2. \A p \in Page : Put(b, p) => replaced' = replaced /\ forked' = forked
  BY DEF Put
<1>3. \/ UNCHANGED store
      \/ \E task \in {"insert", "insertbig"} : InsertBegin(b, task)
      \/ DeleteApply(b) \/ EdgeApply(b) \/ VacuumPage(b)
      => replaced' = replaced /\ forked' = forked
  BY DEF store, InsertBegin, DeleteApply, EdgeApply, VacuumPage
<1>4. PlaceHere(b) \/ PlaceNew(b) => replaced' = replaced /\ forked' = forked
  BY DEF PlaceHere, PlaceNew, Put
<1> QED BY <1>1, <1>3, <1>4, StoreCases

\* Every step keeps the types.
LEMMA TypeStep == ASSUME Structure, NEW b \in Backend, Step(b) PROVE TypeOK'
<1>t. HistoryOK /\ Locally(b) /\ ControlOK
  BY TypeParts DEF Structure
<1>1. HistoryOK'
  <2>1. CASE pc[b] = "update" /\ Replaces(b)
    <3>1. loc[b].at \in Addr /\ loc[b].n \in Node
      BY <2>1, <1>t DEF Locally, Mutating, Applying, Items
    <3> QED BY <2>1, <3>1, <1>t DEF HistoryOK, Replaces
  <2>2. CASE replaced' = replaced /\ forked' = forked
    BY <2>2, <1>t DEF HistoryOK
  <2> QED BY <2>1, <2>2, ReplaceStep
<1>2. StoreOK' /\ TxnsOK' /\ ControlOK'
  BY StoreStep, TxnsTypeStep, ControlTypeStep
<1> QED BY <1>1, <1>2 DEF TypeOK, StoreOK, TxnsOK, ControlOK, HistoryOK

\* A step of one backend leaves the control state and the transaction of every
\* other backend alone.
LEMMA OthersStep ==
    ASSUME Structure, NEW b \in Backend, Step(b), NEW c \in Backend, c # b
    PROVE  pc'[c] = pc[c] /\ loc'[c] = loc[c] /\ xid'[c] = xid[c] /\ snap'[c] = snap[c]
<1>t. /\ pc \in [Backend -> Control] /\ loc \in [Backend -> Locals]
      /\ xid \in [Backend -> 0..MaxXid] /\ snap \in [Backend -> Snapshot \cup {None}]
  BY TypeParts DEF Structure, TxnsOK, ControlOK
<1>1. xid'[c] = xid[c] /\ snap'[c] = snap[c]
  BY <1>t, TxnsCases DEF txns, BeginTxn, CommitTxn, AbortTxn, EndTxn, Error, ScanBegin, ScanEnd
<1>2. pc'[c] = pc[c]
  BY <1>t DEF Step, BeginTxn, CommitTxn, AbortTxn, EndTxn, InsertBegin, PlaceBegin, PlaceHere, PlaceFull,
     PlaceNew, Put, Captured, Error, Return, LoadOld, EdgeBegin, FindBegin, FindCached, FindPage, Found,
     FindNone, DeleteApply, UpdateSamePage, UpdateCrossPage, EdgeApply, ScanBegin, ScanNext, ScanEnd,
     VacuumBegin, VacuumCollect, VacuumPage, VacuumEnd
<1>3. loc'[c] = loc[c]
  BY <1>t DEF Step, BeginTxn, CommitTxn, AbortTxn, EndTxn, InsertBegin, PlaceBegin, PlaceHere, PlaceFull,
     PlaceNew, Put, Captured, Error, Return, LoadOld, EdgeBegin, FindBegin, FindCached, FindPage, Found,
     FindNone, DeleteApply, UpdateSamePage, UpdateCrossPage, EdgeApply, ScanBegin, ScanNext, ScanEnd,
     VacuumBegin, VacuumCollect, VacuumPage, VacuumEnd
<1> QED BY <1>1, <1>2, <1>3
\* Blocks are only added, at the end, and a backend reads the size of the
\* relation before it remembers it.
LEMMA RelationStep ==
    ASSUME Structure, NEW b \in Backend, Step(b)
    PROVE  Relation' /\ nblocks <= nblocks'
<1>t. StoreOK /\ ControlOK /\ Relation /\ Locally(b)
  BY TypeParts DEF Structure
<1>n. nblocks \in 0..MaxPages
  BY <1>t, Blocks
<1>1. nblocks' \in Nat /\ nblocks <= nblocks' /\ \A p \in Page : kind'[p] # "none" <=> p <= nblocks'
  <2>1. CASE kind' = kind
    <3>1. nblocks' = nblocks
      BY <2>1 DEF nblocks
    <3> QED BY <2>1, <3>1, <1>n, <1>t DEF Relation
  <2>2. ASSUME NEW p \in Page, Put(b, p), NEW k \in 0..MaxPages, nblocks <= k,
               \A q \in Page : kind'[q] # "none" <=> q <= k
        PROVE  nblocks' \in Nat /\ nblocks <= nblocks' /\ \A q \in Page : kind'[q] # "none" <=> q <= nblocks'
    <3>1. nblocks' = k
      BY <2>2, Prefix DEF nblocks
    <3> QED BY <3>1, <2>2
  <2>3. CASE PlaceHere(b) \/ PlaceNew(b)
    <3>1. PICK p \in Page : /\ Put(b, p) /\ used[p] < PageCap
                            /\ \/ p <= nblocks /\ kind[p] = "node"
                               \/ p = nblocks + 1 /\ kind[p] = "none"
      BY <2>3, Room
    <3> DEFINE g == IF kind[p] = "node" THEN nblocks ELSE p
               k == IF loc[b].big THEN g + 1 ELSE g
    <3>2. g \in 0..MaxPages /\ nblocks <= g /\ g <= nblocks + 1
      BY <3>1, <1>n DEF Page
    <3>3. k \in 0..MaxPages /\ nblocks <= k
      <4>1. loc[b].big => g < MaxPages
        BY <3>1 DEF Put
      <4> HIDE DEF g
      <4> QED BY <3>2, <4>1, <1>n
    <3>4. \A q \in Page : kind'[q] # "none" <=> q <= k
      <4> TAKE q \in Page
      <4>1. kind'[q] = CASE q = p -> "node"
                         [] loc[b].big /\ q = g + 1 -> "overflow"
                         [] OTHER -> kind[q]
        BY <3>1 DEF Put
      <4>2. kind[q] # "none" <=> q <= nblocks
        BY <1>t DEF Relation
      <4>3. q \in Nat /\ p \in Nat
        BY Constants
      <4>4. CASE kind[p] = "node"
        <5>1. p <= nblocks /\ g = nblocks
          BY <4>4, <3>1
        <5> HIDE DEF g
        <5> QED BY <5>1, <4>1, <4>2, <4>3, <1>n
      <4>5. CASE kind[p] # "node"
        <5>1. p = nblocks + 1 /\ g = p
          BY <4>5, <3>1
        <5> HIDE DEF g
        <5> QED BY <5>1, <4>1, <4>2, <4>3, <1>n
      <4> QED BY <4>4, <4>5
    <3> HIDE DEF k
    <3> QED BY <3>1, <3>3, <3>4, <2>2
  <2> QED BY <2>1, <2>3, StoreCases DEF store, InsertBegin, DeleteApply, UpdateSamePage, UpdateCrossPage,
             EdgeApply, VacuumPage
<1>2. \A p \in Page : used'[p] # 0 => kind'[p] = "node"
  <2>1. CASE kind' = kind /\ used' = used
    BY <2>1, <1>t DEF Relation
  <2>2. CASE PlaceHere(b) \/ PlaceNew(b)
    <3>1. PICK p \in Page : /\ Put(b, p) /\ used[p] < PageCap
                            /\ \/ p <= nblocks /\ kind[p] = "node"
                               \/ p = nblocks + 1 /\ kind[p] = "none"
      BY <2>2, Room
    <3>0. kind'[p] = "node"
      <4>1. kind' = [q \in Page |-> CASE q = p -> "node"
                      [] loc[b].big /\ q = (IF kind[p] = "node" THEN nblocks ELSE p) + 1 -> "overflow"
                      [] OTHER -> kind[q]]
        BY <3>1 DEF Put
      <4>2. p # (IF kind[p] = "node" THEN nblocks ELSE p) + 1
        BY <3>1, <1>n, Constants
      <4> QED BY <4>1, <4>2
    <3> SUFFICES ASSUME NEW q \in Page, used'[q] # 0, q # p PROVE kind'[q] = "node"
      BY <3>0
    <3>2. used[q] # 0
      BY <3>1, <1>t DEF Put, StoreOK
    <3>3. kind[q] = "node" /\ q <= nblocks
      BY <3>2, <1>t DEF Relation
    <3>4. q # (IF kind[p] = "node" THEN nblocks ELSE p) + 1
      BY <3>1, <3>3, <1>n, Constants
    <3> QED BY <3>1, <3>3, <3>4 DEF Put
  <2>3. CASE UpdateSamePage(b)
    <3>1. /\ loc[b].at \in Items /\ kind' = kind
          /\ used' = [used EXCEPT ![loc[b].at[1]] = @ + 1]
      BY <2>3, <1>t DEF UpdateSamePage, Locally, Applying
    <3>2. kind[loc[b].at[1]] = "node"
      <4>1. loc[b].at[1] \in Page /\ loc[b].at[2] \in Slot /\ loc[b].at[2] <= used[loc[b].at[1]]
        BY <3>1, Constants DEF Items
      <4>2. used[loc[b].at[1]] # 0
        BY <4>1 DEF Slot
      <4> QED BY <4>1, <4>2, <1>t DEF Relation
    <3> QED BY <3>1, <3>2, <1>t DEF Relation, StoreOK
  <2> QED BY <2>1, <2>2, <2>3, StoreCases DEF store, InsertBegin, DeleteApply, UpdateCrossPage,
             EdgeApply, VacuumPage
<1>3. \A c \in Backend : loc'[c].lim <= nblocks'
  <2>1. loc'[b].lim \in {loc[b].lim, nblocks, 0}
    <3>a. loc \in [Backend -> Locals] /\ loc[b] \in Locals
      BY <1>t DEF ControlOK
    <3>1. Return(b) => loc'[b].lim = 0
      BY <3>a DEF Return, NoLocals
    <3>2. CASE BeginTxn(b) \/ CommitTxn(b) \/ AbortTxn(b) \/ PlaceFull(b) \/ UpdateCrossPage(b)
      BY <3>2 DEF BeginTxn, CommitTxn, AbortTxn, EndTxn, PlaceFull, UpdateCrossPage
    <3>3. CASE \/ PlaceHere(b) \/ PlaceNew(b) \/ DeleteApply(b) \/ UpdateSamePage(b) \/ FindNone(b)
               \/ EdgeApply(b) \/ ScanEnd(b) \/ VacuumEnd(b)
      BY <3>1, <3>3 DEF PlaceHere, PlaceNew, Put, Captured, Error, DeleteApply, UpdateSamePage, FindNone,
                        EdgeApply, ScanEnd, VacuumEnd
    <3>4. ASSUME NEW l, loc' = [loc EXCEPT ![b] = l]
          PROVE  loc'[b] = l
      BY <3>4, <3>a
    <3>5. ASSUME NEW task \in {"insert", "insertbig"}, InsertBegin(b, task) PROVE loc'[b].lim = 0
      <4> DEFINE big == task = "insertbig"
      <4>1. loc' = [loc EXCEPT ![b] = [NoLocals EXCEPT !.task = "insert", !.n = lastId + 1, !.seen = TRUE,
                                                       !.big = big]]
        BY <3>5 DEF InsertBegin
      <4> HIDE DEF big
      <4> QED BY <4>1, <3>4 DEF NoLocals
    <3>6. ASSUME NEW task \in {"delete", "update"}, NEW n \in Node, LoadOld(b, task, n) PROVE loc'[b].lim = 0
      BY <3>6, <3>4 DEF LoadOld, NoLocals
    <3>7. ASSUME NEW n \in Node, EdgeBegin(b, n) PROVE loc'[b].lim = 0
      BY <3>7, <3>4 DEF EdgeBegin, NoLocals
    <3>8. CASE PlaceBegin(b) \/ FindBegin(b)
      BY <3>8, <3>a DEF PlaceBegin, FindBegin, Locals
    <3>9. CASE ScanBegin(b) \/ VacuumBegin(b)
      BY <3>9, <3>4 DEF ScanBegin, VacuumBegin, NoLocals
    <3>10. ASSUME NEW a, Found(b, a) PROVE loc'[b].lim = loc[b].lim
      BY <3>10, <3>a DEF Found, Locals
    <3>11. CASE FindPage(b) \/ \E a \in Items : FindCached(b, a)
      BY <3>11, <3>10, <3>a DEF FindPage, FindCached, Locals
    <3>12. CASE ScanNext(b)
      <4>1. \A a : AfterRecord(b, a).lim = loc[b].lim
        BY <3>a DEF AfterRecord, Locals
      <4>2. \A a : loc' = [loc EXCEPT ![b] = AfterRecord(b, a)] => loc'[b].lim = loc[b].lim
        BY <4>1, <3>a
      <4>3. loc' = [loc EXCEPT ![b].pg = @ + 1, ![b].off = 1] => loc'[b].lim = loc[b].lim
        BY <3>a DEF Locals
      <4> HIDE DEF AfterRecord
      <4> QED BY <3>12, <4>2, <4>3 DEF ScanNext
    <3>13. CASE VacuumCollect(b) \/ VacuumPage(b)
      BY <3>13, <3>a DEF VacuumCollect, VacuumPage, Locals
    <3> QED BY <3>2, <3>3, <3>5, <3>6, <3>7, <3>8, <3>9, <3>11, <3>12, <3>13 DEF Step
  <2> SUFFICES ASSUME NEW c \in Backend PROVE loc'[c].lim <= nblocks'
    OBVIOUS
  <2>2. loc'[c].lim \in {loc[c].lim, nblocks, 0}
    BY <2>1, OthersStep
  <2>3. loc[c].lim <= nblocks /\ loc[c].lim \in Nat
    BY <1>t DEF Relation, ControlOK, Locals
  <2> QED BY <2>2, <2>3, <1>1, <1>n
<1> QED BY <1>1, <1>2, <1>3 DEF Relation
\* What the control state says of the locals of a backend stays true when
\* another one moves: items keep their id and slot, and dead ones stay dead.
LEMMA LocallyOthers ==
    ASSUME Structure, NEW b \in Backend, Step(b), NEW c \in Backend, c # b
    PROVE  Locally(c)'
<1>1. pc'[c] = pc[c] /\ loc'[c] = loc[c] /\ xid'[c] = xid[c] /\ snap'[c] = snap[c]
  BY OthersStep
<1>2. Kept(b) /\ Locally(c)
  BY StoreStep DEF Structure
<1>3. \A d \in loc[c].dead : d[1] \in Items' /\ d[2] = item'[d[1]].slot /\ item'[d[1]].xmax # 0
  BY <1>2 DEF Locally, Kept
<1>4. pc[c] \in Applying =>
        /\ loc[c].at \in Items' /\ loc[c].slot = item'[loc[c].at].slot
        /\ item'[loc[c].at].id = loc[c].n
  BY <1>2 DEF Locally, Kept
<1> QED BY <1>1, <1>2, <1>3, <1>4 DEF Locally

\* And it holds of a backend after each of its own steps.
LEMMA LocallyOwn ==
    ASSUME Structure, NEW b \in Backend, Step(b)
    PROVE  Locally(b)'
<1>t. StoreOK /\ TxnsOK /\ ControlOK /\ Locally(b)
  BY TypeParts DEF Structure
<1>a. /\ pc \in [Backend -> Control] /\ loc \in [Backend -> Locals] /\ loc[b] \in Locals
      /\ xid \in [Backend -> 0..MaxXid] /\ snap \in [Backend -> Snapshot \cup {None}]
  BY <1>t DEF ControlOK, TxnsOK
<1>x. xid[b] # 0 => xid[b] \in Xid
  BY <1>a DEF Xid
<1>l. ASSUME NEW l, loc' = [loc EXCEPT ![b] = l]
      PROVE  loc'[b] = l
  BY <1>l, <1>a
<1>c. ASSUME NEW s, pc' = [pc EXCEPT ![b] = s]
      PROVE  pc'[b] = s
  BY <1>c, <1>a
<1>r. Return(b) => Locally(b)'
  <2> HAVE Return(b)
  <2>1. pc'[b] = "idle" /\ loc'[b] = NoLocals
    BY <1>a DEF Return
  <2> QED BY <2>1 DEF Locally, Mutating, Placing, Applying, NoLocals
<1>1. CASE BeginTxn(b) \/ CommitTxn(b) \/ AbortTxn(b)
  <2>1. pc'[b] = "idle" /\ loc'[b] = loc[b] /\ pc[b] = "idle"
    BY <1>1 DEF BeginTxn, CommitTxn, AbortTxn, EndTxn
  <2>2. loc[b].dead = {}
    BY <2>1, <1>t DEF Locally
  <2> QED BY <2>1, <2>2 DEF Locally, Mutating, Placing, Applying
<1>2. ASSUME NEW task \in {"insert", "insertbig"}, InsertBegin(b, task)
      PROVE  Locally(b)'
  <2> DEFINE big == task = "insertbig"
             l == [NoLocals EXCEPT !.task = "insert", !.n = lastId + 1, !.seen = TRUE, !.big = big]
  <2>1. pc'[b] = "size" /\ loc'[b] = l /\ xid' = xid /\ xid[b] \in Xid
    <3> HIDE DEF l
    <3>1. pc' = [pc EXCEPT ![b] = "size"] /\ loc' = [loc EXCEPT ![b] = l] /\ xid' = xid /\ xid[b] \in Xid
      BY <1>2, <1>x DEF InsertBegin, txns, l
    <3> QED BY <3>1, <1>l, <1>c
  <2>2. lastId + 1 \in Node
    BY <1>2, <1>t DEF InsertBegin, StoreOK, Node
  <2> HIDE DEF big
  <2>3. l.task = "insert" /\ l.n = lastId + 1 /\ l.dead = {}
    BY DEF NoLocals
  <2> HIDE DEF l
  <2> QED BY <2>1, <2>2, <2>3 DEF Locally, Mutating, Placing, Applying
<1>3. CASE PlaceBegin(b)
  <2> DEFINE l == [loc[b] EXCEPT !.lim = nblocks]
  <2>1. pc'[b] = "place" /\ loc'[b] = l /\ xid' = xid /\ pc[b] = "size"
    BY <1>3, <1>a DEF PlaceBegin, txns
  <2>2. l.task = loc[b].task /\ l.n = loc[b].n /\ l.slot = loc[b].slot /\ l.big = loc[b].big /\ l.dead = loc[b].dead
    BY <1>a DEF Locals
  <2>3. loc[b].dead = {}
    BY <2>1, <1>t DEF Locally
  <2> HIDE DEF l
  <2> QED BY <2>1, <2>2, <2>3, <1>t DEF Locally, Mutating, Placing, Applying
<1>4. CASE PlaceFull(b)
  <2>1. pc'[b] = "placenew" /\ loc' = loc /\ xid' = xid /\ pc[b] = "place"
    BY <1>4, <1>a DEF PlaceFull, txns
  <2>2. loc[b].dead = {}
    BY <2>1, <1>t DEF Locally
  <2> QED BY <2>1, <2>2, <1>t DEF Locally, Mutating, Placing, Applying
<1>5. CASE \/ PlaceHere(b) \/ PlaceNew(b) \/ DeleteApply(b) \/ UpdateSamePage(b) \/ FindNone(b)
           \/ EdgeApply(b) \/ ScanEnd(b) \/ VacuumEnd(b)
  BY <1>r, <1>5 DEF PlaceHere, PlaceNew, Put, Captured, Error, DeleteApply, UpdateSamePage, FindNone,
                    EdgeApply, ScanEnd, VacuumEnd
<1>6. CASE UpdateCrossPage(b)
  <2>1. pc'[b] = "size" /\ loc' = loc /\ xid' = xid /\ pc[b] = "update"
    BY <1>6, <1>a DEF UpdateCrossPage, txns
  <2>2. loc[b].dead = {}
    BY <2>1, <1>t DEF Locally
  <2>3. loc[b].slot \in Slot
    <3>1. loc[b].at \in Items /\ loc[b].slot = item[loc[b].at].slot
      BY <2>1, <1>t DEF Locally, Applying
    <3> QED BY <3>1, <1>t DEF StoreOK, Item
  <2> QED BY <2>1, <2>2, <2>3, <1>t DEF Locally, Mutating, Placing, Applying
<1>7. ASSUME NEW task \in {"delete", "update"}, NEW n \in Node, LoadOld(b, task, n)
      PROVE  Locally(b)'
  <2> DEFINE s == OldSeen(b, n)
             l == [NoLocals EXCEPT !.task = task, !.n = n, !.seen = s]
  <2>1. pc'[b] = "loaded" /\ loc'[b] = l /\ xid' = xid /\ xid[b] \in Xid
    <3> HIDE DEF l
    <3>1. pc' = [pc EXCEPT ![b] = "loaded"] /\ loc' = [loc EXCEPT ![b] = l] /\ xid' = xid /\ xid[b] \in Xid
      BY <1>7, <1>x DEF LoadOld, txns, l
    <3> QED BY <3>1, <1>l, <1>c
  <2> HIDE DEF s
  <2>2. l.task = task /\ l.n = n /\ l.dead = {} /\ l.big = FALSE
    BY DEF NoLocals
  <2> HIDE DEF l
  <2> QED BY <2>1, <2>2 DEF Locally, Mutating, Placing, Applying
<1>8. ASSUME NEW n \in Node, EdgeBegin(b, n)
      PROVE  Locally(b)'
  <2> DEFINE l == [NoLocals EXCEPT !.task = "edge", !.n = n]
  <2>1. pc'[b] = "loaded" /\ loc'[b] = l /\ xid' = xid /\ xid[b] \in Xid
    <3> HIDE DEF l
    <3>1. pc' = [pc EXCEPT ![b] = "loaded"] /\ loc' = [loc EXCEPT ![b] = l] /\ xid' = xid /\ xid[b] \in Xid
      BY <1>8, <1>x DEF EdgeBegin, txns, l
    <3> QED BY <3>1, <1>l, <1>c
  <2>2. l.task = "edge" /\ l.n = n /\ l.dead = {} /\ l.big = FALSE
    BY DEF NoLocals
  <2> HIDE DEF l
  <2> QED BY <2>1, <2>2 DEF Locally, Mutating, Placing, Applying
<1>9. CASE FindBegin(b)
  <2> DEFINE l == [loc[b] EXCEPT !.pg = 1, !.lim = nblocks]
  <2>1. pc'[b] = "find" /\ loc'[b] = l /\ xid' = xid /\ pc[b] = "loaded"
    BY <1>9, <1>a DEF FindBegin, txns
  <2>2. l.task = loc[b].task /\ l.n = loc[b].n /\ l.big = loc[b].big /\ l.dead = loc[b].dead /\ l.pg = 1
    BY <1>a DEF Locals
  <2>3. loc[b].dead = {}
    BY <2>1, <1>t DEF Locally
  <2> HIDE DEF l
  <2> QED BY <2>1, <2>2, <2>3, <1>t DEF Locally, Mutating, Placing, Applying
<1>f. ASSUME NEW a \in Items, Found(b, a), Matches(loc[b].n, a), pc[b] = "find", UNCHANGED <<store, txns>>
      PROVE  Locally(b)'
  <2> DEFINE l == [loc[b] EXCEPT !.at = a, !.slot = item[a].slot]
  <2>1. pc'[b] = loc[b].task /\ loc'[b] = l /\ xid' = xid /\ item' = item /\ Items' = Items
    BY <1>f, <1>a DEF Found, store, txns, Items
  <2>2. /\ l.task = loc[b].task /\ l.n = loc[b].n /\ l.big = loc[b].big /\ l.dead = loc[b].dead
        /\ l.at = a /\ l.slot = item[a].slot
    BY <1>a DEF Locals
  <2>3. loc[b].dead = {} /\ loc[b].task \in {"delete", "update", "edge"} /\ ~loc[b].big
        /\ xid[b] \in Xid /\ loc[b].n \in Node
    BY <1>f, <1>t DEF Locally, Mutating
  <2>4. item[a].id = loc[b].n
    BY <1>f DEF Matches
  <2> HIDE DEF l
  <2> QED BY <2>1, <2>2, <2>3, <2>4 DEF Locally, Mutating, Placing, Applying
<1>p. ASSUME pc[b] \in {"find", "scan", "vacuum"}, pc' = pc, UNCHANGED <<store, txns>>,
             loc'[b].task = loc[b].task, loc'[b].n = loc[b].n, loc'[b].big = loc[b].big,
             loc'[b].dead = {}, loc'[b].pg >= 1
      PROVE  Locally(b)'
  <2>1. xid' = xid /\ snap' = snap
    BY <1>p DEF txns
  <2> QED BY <2>1, <1>p, <1>t DEF Locally, Mutating, Placing, Applying
<1>q. ASSUME pc[b] \in {"find", "scan", "vacuum"}
      PROVE  loc[b].dead = {} /\ loc[b].pg + 1 >= 1 /\ loc[b].pg >= 1
  BY <1>q, <1>t, <1>a DEF Locally, Locals
<1>10. ASSUME NEW a \in Items, FindCached(b, a)
       PROVE  Locally(b)'
  BY <1>10, <1>f DEF FindCached
<1>11. CASE FindPage(b)
  <2>1. ASSUME NEW a \in OnPage(loc[b].pg), Matches(loc[b].n, a), Found(b, a)
        PROVE  Locally(b)'
    BY <2>1, <1>11, <1>f DEF FindPage, OnPage
  <2>2. ASSUME loc' = [loc EXCEPT ![b].pg = @ + 1], pc' = pc
        PROVE  Locally(b)'
    <3>1. /\ loc'[b].task = loc[b].task /\ loc'[b].n = loc[b].n /\ loc'[b].big = loc[b].big
          /\ loc'[b].dead = loc[b].dead /\ loc'[b].pg = loc[b].pg + 1
      BY <2>2, <1>a DEF Locals
    <3> QED BY <3>1, <2>2, <1>11, <1>p, <1>q DEF FindPage
  <2> QED BY <2>1, <2>2, <1>11 DEF FindPage
<1>12. CASE ScanBegin(b)
  <2> DEFINE l == [NoLocals EXCEPT !.pg = 1, !.lim = nblocks]
             s == [next |-> NextXid, running |-> Running]
  <2>1. pc'[b] = "scan" /\ loc'[b] = l
    BY <1>12, <1>a DEF ScanBegin
  <2>2. l.dead = {} /\ l.pg = 1
    BY DEF NoLocals
  <2>3. snap'[b] # None
    <3>1. s \in Snapshot
      <4>1. Running \in SUBSET Xid
        BY DEF Running
      <4> QED BY <4>1, <1>t, NextXidIs DEF Snapshot
    <3> QED BY <3>1, <1>12, <1>a DEF ScanBegin
  <2> HIDE DEF l
  <2> QED BY <2>1, <2>2, <2>3 DEF Locally, Mutating, Placing, Applying
<1>13. CASE ScanNext(b)
  <2>1. ASSUME NEW a, loc' = [loc EXCEPT ![b] = AfterRecord(b, a)]
        PROVE  Locally(b)'
    <3> DEFINE l == AfterRecord(b, a)
    <3>1. l.task = loc[b].task /\ l.n = loc[b].n /\ l.big = loc[b].big /\ l.dead = loc[b].dead /\ l.pg = loc[b].pg
      BY <1>a DEF AfterRecord, Locals
    <3>2. loc'[b] = l
      BY <2>1, <1>l
    <3> HIDE DEF l
    <3> QED BY <3>1, <3>2, <1>13, <1>p, <1>q DEF ScanNext
  <2>2. ASSUME loc' = [loc EXCEPT ![b].pg = @ + 1, ![b].off = 1]
        PROVE  Locally(b)'
    <3>1. /\ loc'[b].task = loc[b].task /\ loc'[b].n = loc[b].n /\ loc'[b].big = loc[b].big
          /\ loc'[b].dead = loc[b].dead /\ loc'[b].pg = loc[b].pg + 1
      BY <2>2, <1>a DEF Locals
    <3> QED BY <3>1, <1>13, <1>p, <1>q DEF ScanNext
  <2> QED BY <2>1, <2>2, <1>13 DEF ScanNext
<1>14. CASE VacuumBegin(b)
  <2> DEFINE o == OldestXmin
             l == [NoLocals EXCEPT !.task = "vacuum", !.pg = 1, !.lim = nblocks, !.horizon = o]
  <2> HIDE DEF o
  <2>1. pc'[b] = "vacuum" /\ loc'[b] = l
    BY <1>14, <1>a DEF VacuumBegin, o
  <2>2. l.dead = {} /\ l.pg = 1
    BY DEF NoLocals
  <2> HIDE DEF l
  <2> QED BY <2>1, <2>2 DEF Locally, Mutating, Placing, Applying
<1>15. CASE VacuumCollect(b)
  <2> DEFINE D == {a \in OnPage(loc[b].pg) : DeadTo(b, a)}
             E == {<<a, item[a].slot, item[a].xmax>> : a \in D}
  <2>1. CASE D = {}
    <3>1. loc' = [loc EXCEPT ![b].pg = @ + 1] /\ pc' = pc
      BY <2>1, <1>15 DEF VacuumCollect
    <3>2. /\ loc'[b].task = loc[b].task /\ loc'[b].n = loc[b].n /\ loc'[b].big = loc[b].big
          /\ loc'[b].dead = loc[b].dead /\ loc'[b].pg = loc[b].pg + 1
      BY <3>1, <1>a DEF Locals
    <3> QED BY <3>1, <3>2, <1>15, <1>p, <1>q DEF VacuumCollect
  <2>2. CASE D # {}
    <3>1. \A d \in E : d[1] \in Items /\ d[2] = item[d[1]].slot /\ item[d[1]].xmax # 0
      BY DEF OnPage, DeadTo
    <3> HIDE DEF E
    <3>2. /\ pc' = [pc EXCEPT ![b] = "vacuumpage"] /\ loc' = [loc EXCEPT ![b].dead = E]
          /\ pc[b] = "vacuum" /\ loc[b].pg <= loc[b].lim
      BY <2>2, <1>15 DEF VacuumCollect, E
    <3>3. loc'[b].dead = E /\ loc'[b].pg = loc[b].pg /\ loc'[b].lim = loc[b].lim /\ pc'[b] = "vacuumpage"
      BY <3>2, <1>a DEF Locals
    <3>4. Items' = Items /\ item' = item
      BY <1>15 DEF VacuumCollect, store, Items
    <3> QED BY <3>1, <3>2, <3>3, <3>4, <1>q DEF Locally, Mutating, Placing, Applying
  <2> QED BY <2>1, <2>2
<1>16. CASE VacuumPage(b)
  <2>1. /\ pc' = [pc EXCEPT ![b] = "vacuum"] /\ loc' = [loc EXCEPT ![b].dead = {}, ![b].pg = @ + 1]
        /\ pc[b] = "vacuumpage"
    BY <1>16 DEF VacuumPage
  <2>2. pc'[b] = "vacuum" /\ loc'[b].dead = {} /\ loc'[b].pg = loc[b].pg + 1
    BY <2>1, <1>a DEF Locals
  <2>3. loc[b].pg + 1 >= 1
    BY <1>a DEF Locals
  <2> QED BY <2>2, <2>3 DEF Locally, Mutating, Placing, Applying
<1> QED
  BY <1>1, <1>2, <1>3, <1>4, <1>5, <1>6, <1>7, <1>8, <1>9, <1>10, <1>11, <1>12, <1>13, <1>14, <1>15,
     <1>16 DEF Step
-----------------------------------------------------------------------------
(* Structure is an invariant                                               *)

\* The structural invariant holds at first.
LEMMA StructureInit == Init => Structure
<1> SUFFICES ASSUME Init PROVE Structure
  OBVIOUS
<1>1. Items = {}
  <2>1. \A a \in Addr : ~(a[2] <= used[a[1]])
    BY Constants DEF Init, Slot
  <2> QED BY <2>1 DEF Items
<1>2. TypeOK
  BY <1>1, Constants DEF Init, TypeOK, Control
<1>3. nblocks = 0
  <2>1. 0 \in 0..MaxPages /\ \A p \in Page : kind[p] # "none" <=> p <= 0
    BY DEF Init, Page
  <2> QED BY <2>1, Prefix DEF nblocks
<1>4. Relation
  BY <1>3 DEF Init, Relation, Page, NoLocals
<1>5. \A b \in Backend : Locally(b)
  BY DEF Init, Locally, NoLocals, Mutating, Placing, Applying
<1> QED BY <1>2, <1>4, <1>5 DEF Structure

\* Every step keeps the structural invariant.
LEMMA StructureStep == Structure /\ [Next]_vars => Structure'
<1> SUFFICES ASSUME Structure, [Next]_vars PROVE Structure'
  OBVIOUS
<1>1. ASSUME NEW b \in Backend, Step(b) PROVE Structure'
  BY <1>1, TypeStep, RelationStep, LocallyOthers, LocallyOwn DEF Structure
<1>2. CASE UNCHANGED vars
  <2>1. nblocks' = nblocks /\ Items' = Items
    BY <1>2 DEF vars, store, nblocks, Items
  <2>2. TypeOK'
    BY <2>1, <1>2 DEF Structure, TypeOK, vars, store, txns
  <2>3. Relation'
    BY <2>1, <1>2 DEF Structure, Relation, vars, store
  <2>4. \A b \in Backend : Locally(b)'
    BY <2>1, <1>2 DEF Structure, Locally, vars, store, txns
  <2> QED BY <2>2, <2>3, <2>4 DEF Structure
<1> QED BY <1>1, <1>2 DEF Next

\* The structural invariant holds always.
LEMMA StructureInv == Spec => []Structure
BY StructureInit, StructureStep, PTL DEF Spec

\* Type correctness for every instance: whatever the interleaving, pages fill up
\* to their capacity and no further, every address an operation kept over an
\* unlock is that of an item, and what VACUUM noted are items.
THEOREM TypeCorrect == Spec => []TypeOK
<1>1. Structure => TypeOK
  BY DEF Structure
<1> QED BY <1>1, StructureInv, PTL

-----------------------------------------------------------------------------
(* Transactions, snapshots and VACUUM                                      *)

\* Xids are handed out in order, and what is over stays over.
LEMMA XidsInit == Init => Txns
<1> SUFFICES ASSUME Init PROVE Txns
  OBVIOUS
<1>1. Structure /\ TxnsOK
  BY StructureInit, TypeParts DEF Structure
<1>2. Items = {}
  <2>1. \A a \in Addr : ~(a[2] <= used[a[1]])
    BY Constants DEF Init, Slot
  <2> QED BY <2>1 DEF Items
<1>3. Xids
  <2>1. \A x \in Xid : ~(x < NextXid)
    BY <1>1, NextXidIs DEF Init, Xid
  <2> QED BY <2>1 DEF Xids, Init
<1>4. \A b \in Backend : Horizon(b)
  BY DEF Init, Horizon, NoLocals, Xid
<1> QED BY <1>2, <1>3, <1>4 DEF Txns, Snapshots, Buried, Init

\* Transaction ids stay assigned in order.
LEMMA XidsStep ==
    ASSUME Structure, Xids, NEW b \in Backend, Step(b)
    PROVE  Xids' /\ \A x \in Xid : Over(x) => xstat'[x] = xstat[x]
<1>t. TxnsOK /\ Locally(b)
  BY TypeParts DEF Structure
<1>a. /\ xstat \in [Xid -> {"none", "active", "committed", "aborted"}] /\ xid \in [Backend -> 0..MaxXid]
      /\ NextXid \in Nat /\ NextXid' \in Nat /\ \A x \in Xid : x \in Nat
  BY <1>t, NextXidIs, NextXidWillBe DEF TxnsOK, Xid
<1>1. CASE xstat' = xstat /\ xid' = xid
  <2>1. NextXid' = NextXid
    BY <1>1 DEF NextXid
  <2> QED BY <1>1, <2>1 DEF Xids
<1>2. CASE BeginTxn(b)
  <2> DEFINE n == NextXid
  <2>1. /\ n \in Xid /\ xstat[n] = "none" /\ xid[b] = 0
        /\ xstat' = [xstat EXCEPT ![n] = "active"] /\ xid' = [xid EXCEPT ![b] = n]
    BY <1>2, <1>t, NextXidIs DEF BeginTxn
  <2>2. \A x \in Xid : xstat'[x] # "none" <=> x < n + 1
    BY <2>1, <1>a DEF Xids
  <2> HIDE DEF n
  <2>3. NextXid' = n + 1
    <3>1. n \in 1..MaxXid
      BY <2>1 DEF Xid
    <3>2. ~(NextXid' <= n)
      BY <2>2, <3>1, <1>a, NextXidWillBe DEF Xid
    <3>3. ~(n + 1 < NextXid')
      <4>1. CASE n + 1 \in Xid
        BY <4>1, <2>2, <3>1, <1>a, NextXidWillBe
      <4>2. CASE n + 1 \notin Xid
        BY <4>2, <3>1, NextXidWillBe DEF Xid
      <4> QED BY <4>1, <4>2
    <3> QED BY <3>1, <3>2, <3>3, <1>a
  <2> QED BY <2>1, <2>2, <2>3, <1>a DEF Xids, Over
<1>3. ASSUME NEW st \in {"committed", "aborted"}, xid' = [xid EXCEPT ![b] = 0],
             xstat' = [x \in Xid |-> IF x = xid[b] THEN st ELSE xstat[x]]
      PROVE  Xids' /\ \A x \in Xid : Over(x) => xstat'[x] = xstat[x]
  <2>0. \A x \in Xid : x = xid[b] => xstat[x] = "active"
    BY DEF Xids, Xid
  <2>1. \A x \in Xid : xstat'[x] = "none" <=> xstat[x] = "none"
    BY <1>3, <2>0
  <2>2. NextXid' = NextXid
    <3>1. {x \in 1..(MaxXid + 1) : x \in Xid => xstat'[x] = "none"}
            = {x \in 1..(MaxXid + 1) : x \in Xid => xstat[x] = "none"}
      BY <2>1
    <3> QED BY <3>1 DEF NextXid
  <2>3. \A x \in Xid : Over(x) => xstat'[x] = xstat[x]
    BY <1>3, <2>0 DEF Over
  <2>4. \A c \in Backend : xid'[c] # 0 => xid'[c] = xid[c] /\ xstat'[xid[c]] = "active"
    <3> TAKE c \in Backend
    <3>1. CASE c = b
      BY <3>1, <1>3, <1>a
    <3>2. CASE c # b /\ xid[c] # 0
      <4>1. xid'[c] = xid[c] /\ xid[c] \in Xid /\ xid[c] # xid[b]
        BY <3>2, <1>3, <1>a DEF Xids, Xid
      <4> QED BY <4>1, <3>2, <1>3 DEF Xids
    <3> QED BY <3>1, <3>2, <1>3, <1>a
  <2> QED BY <2>1, <2>2, <2>3, <2>4, <1>a DEF Xids
<1>4. CASE CommitTxn(b) \/ AbortTxn(b)
  BY <1>4, <1>3 DEF CommitTxn, AbortTxn, EndTxn
<1>5. CASE pc[b] \in Mutating /\ Error(b)
  <2>1. xid[b] \in Xid
    BY <1>5, <1>t DEF Locally
  <2>2. xstat' = [x \in Xid |-> IF x = xid[b] THEN "aborted" ELSE xstat[x]] /\ xid' = [xid EXCEPT ![b] = 0]
    BY <1>5, <2>1, <1>a DEF Error
  <2> QED BY <2>2, <1>3
<1> QED BY <1>1, <1>2, <1>4, <1>5, TxnsCases DEF txns, ScanBegin, ScanEnd

\* What is over and past for every snapshot stays so: new snapshots see it.
LEMMA PastStep ==
    ASSUME Structure, Txns, NEW b \in Backend, Step(b)
    PROVE  /\ Snapshots'
           /\ \A x \in Xid : Past(x) => Past(x)' /\ xstat'[x] = xstat[x]
<1>t. TxnsOK /\ TxnsOK'
  BY TxnsTypeStep, TypeParts DEF Structure
<1>x. /\ \A x \in Xid : Over(x) => xstat'[x] = xstat[x] /\ Over(x)'
      /\ \A x \in Xid : Over(x) => x < NextXid /\ x \notin Running
      /\ \A x \in Xid : ~(x >= NextXid) /\ x \notin Running => Over(x)
  BY XidsStep, NextXidIs, <1>t DEF Txns, Xids, Over, Running, TxnsOK, Xid
<1>1. \A c \in Backend : \/ snap'[c] = None
                         \/ snap[c] # None /\ snap'[c] = snap[c]
                         \/ snap'[c] = [next |-> NextXid, running |-> Running]
  BY <1>t, TxnsCases DEF TxnsOK, txns, BeginTxn, CommitTxn, AbortTxn, EndTxn, Error, ScanBegin, ScanEnd
<1>2. \A x \in Xid : NextXid \in Nat /\ x \in Nat
  BY NextXidIs DEF Xid
<1>3. \A x \in Xid : Over(x) <=> ~InSnapshot(x, [next |-> NextXid, running |-> Running])
  BY <1>x, <1>2 DEF InSnapshot
<1>4. Snapshots'
  <2> SUFFICES ASSUME NEW c \in Backend, snap'[c] # None, NEW x \in Xid, ~InSnapshot(x, snap'[c])
               PROVE  Over(x)'
    BY DEF Snapshots, InSnapshot
  <2>1. CASE snap[c] # None /\ snap'[c] = snap[c]
    BY <2>1, <1>x DEF Txns, Snapshots
  <2>2. CASE snap'[c] = [next |-> NextXid, running |-> Running]
    BY <2>2, <1>3, <1>x
  <2> QED BY <2>1, <2>2, <1>1
<1>5. ASSUME NEW x \in Xid, Past(x) PROVE Past(x)' /\ xstat'[x] = xstat[x]
  <2>1. Over(x) /\ Over(x)' /\ xstat'[x] = xstat[x]
    BY <1>5, <1>x DEF Past
  <2>2. ASSUME NEW c \in Backend, snap'[c] # None PROVE ~InSnapshot(x, snap'[c])
    BY <2>1, <2>2, <1>1, <1>3, <1>5 DEF Past
  <2> QED BY <2>1, <2>2 DEF Past, InSnapshot
<1> QED BY <1>4, <1>5
\* Only VACUUM sets a horizon and notes dead items.
LEMMA VacuumLocals ==
    ASSUME Structure, NEW b \in Backend, Step(b), ~VacuumBegin(b), ~VacuumCollect(b)
    PROVE  loc'[b].horizon \in {loc[b].horizon, 0} /\ loc'[b].dead \in {loc[b].dead, {}}
<1> DEFINE OK == loc'[b].horizon \in {loc[b].horizon, 0} /\ loc'[b].dead \in {loc[b].dead, {}}
<1>a. loc \in [Backend -> Locals] /\ loc[b] \in Locals
  BY TypeParts DEF Structure, ControlOK
<1>l. ASSUME NEW l, loc' = [loc EXCEPT ![b] = l], l.horizon \in {loc[b].horizon, 0}, l.dead \in {loc[b].dead, {}}
      PROVE  OK
  BY <1>l, <1>a
<1>1. Return(b) => OK
  BY <1>l DEF Return, NoLocals
<1>2. CASE BeginTxn(b) \/ CommitTxn(b) \/ AbortTxn(b) \/ PlaceFull(b) \/ UpdateCrossPage(b)
  BY <1>2 DEF BeginTxn, CommitTxn, AbortTxn, EndTxn, PlaceFull, UpdateCrossPage
<1>3. CASE \/ PlaceHere(b) \/ PlaceNew(b) \/ DeleteApply(b) \/ UpdateSamePage(b) \/ FindNone(b)
           \/ EdgeApply(b) \/ ScanEnd(b) \/ VacuumEnd(b)
  <2> HIDE DEF OK
  <2>1. OK
    BY <1>1, <1>3 DEF PlaceHere, PlaceNew, Put, Captured, Error, DeleteApply, UpdateSamePage, FindNone,
                        EdgeApply, ScanEnd, VacuumEnd
  <2> QED BY <2>1 DEF OK
<1>5. ASSUME NEW task \in {"insert", "insertbig"}, InsertBegin(b, task) PROVE OK
  <2> DEFINE big == task = "insertbig"
             l == [NoLocals EXCEPT !.task = "insert", !.n = lastId + 1, !.seen = TRUE, !.big = big]
  <2>1. loc' = [loc EXCEPT ![b] = l]
    BY <1>5 DEF InsertBegin
  <2> HIDE DEF big
  <2>2. l.horizon = 0 /\ l.dead = {}
    BY DEF NoLocals
  <2> HIDE DEF l, OK
  <2> QED BY <2>1, <2>2, <1>l
<1>6. ASSUME NEW task \in {"delete", "update"}, NEW n \in Node, LoadOld(b, task, n) PROVE OK
  <2> DEFINE s == OldSeen(b, n)
             l == [NoLocals EXCEPT !.task = task, !.n = n, !.seen = s]
  <2>1. loc' = [loc EXCEPT ![b] = l]
    BY <1>6 DEF LoadOld
  <2> HIDE DEF s
  <2>2. l.horizon = 0 /\ l.dead = {}
    BY DEF NoLocals
  <2> HIDE DEF l, OK
  <2> QED BY <2>1, <2>2, <1>l
<1>7. ASSUME NEW n \in Node, EdgeBegin(b, n) PROVE OK
  <2> DEFINE l == [NoLocals EXCEPT !.task = "edge", !.n = n]
  <2>1. loc' = [loc EXCEPT ![b] = l] /\ l.horizon = 0 /\ l.dead = {}
    BY <1>7 DEF EdgeBegin, NoLocals
  <2> HIDE DEF l, OK
  <2> QED BY <2>1, <1>l
<1>8. CASE PlaceBegin(b) \/ FindBegin(b)
  BY <1>8, <1>a DEF PlaceBegin, FindBegin, Locals
<1>9. CASE ScanBegin(b)
  <2> DEFINE l == [NoLocals EXCEPT !.pg = 1, !.lim = nblocks]
  <2>1. loc' = [loc EXCEPT ![b] = l] /\ l.horizon = 0 /\ l.dead = {}
    BY <1>9 DEF ScanBegin, NoLocals
  <2> HIDE DEF l, OK
  <2> QED BY <2>1, <1>l
<1>10. ASSUME NEW a, Found(b, a) PROVE OK
  BY <1>10, <1>a DEF Found, Locals
<1>11. CASE FindPage(b) \/ \E a \in Items : FindCached(b, a)
  <2>1. loc' = [loc EXCEPT ![b].pg = @ + 1] => OK
    BY <1>a DEF Locals
  <2> HIDE DEF OK
  <2>2. OK
    BY <1>11, <1>10, <2>1 DEF FindPage, FindCached
  <2> QED BY <2>2 DEF OK
<1>12. CASE ScanNext(b)
  <2>1. \A a : AfterRecord(b, a).horizon = loc[b].horizon /\ AfterRecord(b, a).dead = loc[b].dead
    BY <1>a DEF AfterRecord, Locals
  <2>2. \A a : loc' = [loc EXCEPT ![b] = AfterRecord(b, a)] => OK
    BY <2>1, <1>a
  <2>3. loc' = [loc EXCEPT ![b].pg = @ + 1, ![b].off = 1] => OK
    BY <1>a DEF Locals
  <2> HIDE DEF AfterRecord, OK
  <2>4. OK
    BY <1>12, <2>2, <2>3 DEF ScanNext
  <2> QED BY <2>4 DEF OK
<1>13. CASE VacuumPage(b)
  BY <1>13, <1>a DEF VacuumPage, Locals
<1> HIDE DEF OK
<1> QED BY <1>2, <1>3, <1>5, <1>6, <1>7, <1>8, <1>9, <1>11, <1>12, <1>13 DEF Step, OK

\* VACUUM: below its horizon everything is past; so are the deleters it noted,
\* and the killers of what is LP_DEAD.
LEMMA VacuumStep ==
    ASSUME Structure, Txns, NEW b \in Backend, Step(b)
    PROVE  (\A c \in Backend : Horizon(c)') /\ Buried'
<1>t. StoreOK /\ TxnsOK /\ ControlOK /\ Locally(b) /\ Xids
  BY TypeParts DEF Structure, Txns
<1>p. \A x \in Xid : Past(x) => Past(x)' /\ xstat'[x] = xstat[x]
  BY PastStep
<1>h. \A c \in Backend : Horizon(c)
  BY DEF Txns
<1>d. \A c \in Backend : \A d \in loc[c].dead : d[3] \in Xid
  BY <1>t DEF ControlOK, Locals
<1>1. ASSUME NEW c \in Backend, loc'[c].horizon \in {loc[c].horizon, 0}, loc'[c].dead \in {loc[c].dead, {}}
      PROVE  Horizon(c)'
  <2>1. \A x \in Xid : ~(x < 0)
    BY DEF Xid
  <2>2. \A x \in Xid : x < loc'[c].horizon => Past(x)
    BY <1>1, <1>h, <2>1 DEF Horizon
  <2>3. \A d \in loc'[c].dead : d[3] \in Xid /\ Past(d[3]) /\ xstat[d[3]] = "committed"
    BY <1>1, <1>h, <1>d DEF Horizon
  <2> QED BY <2>2, <2>3, <1>p DEF Horizon
<1>2. \A c \in Backend : Horizon(c)'
  <2> SUFFICES ASSUME NEW c \in Backend PROVE Horizon(c)'
    OBVIOUS
  <2>1. CASE c # b
    BY <2>1, <1>1, OthersStep
  <2>2. CASE c = b /\ VacuumBegin(b)
    <3> DEFINE o == OldestXmin
               l == [NoLocals EXCEPT !.task = "vacuum", !.pg = 1, !.lim = nblocks, !.horizon = o]
    <3>1. \A x \in Xid : x < o => Past(x)
      <4> SUFFICES ASSUME NEW x \in Xid, x < o PROVE Past(x)
        OBVIOUS
      <4>1. /\ o \in Nat /\ o <= NextXid /\ NextXid \in Nat /\ x \in Nat
            /\ \A y \in Xid : xstat[y] = "active" => o <= y
            /\ \A e \in Backend : snap[e] # None => o <= snap[e].next /\ \A y \in snap[e].running : o <= y
        BY <1>t, OldestXminIs, NextXidIs DEF Xid
      <4>2. Over(x)
        <5>1. xstat[x] # "none"
          BY <4>1, NextXidIs
        <5>2. xstat[x] # "active"
          BY <4>1
        <5> QED BY <5>1, <5>2, <1>t DEF TxnsOK, Over
      <4>3. \A e \in Backend : snap[e] # None => snap[e].next \in Nat
        BY <1>t DEF TxnsOK, Snapshot
      <4>4. \A e \in Backend : snap[e] # None => ~InSnapshot(x, snap[e])
        BY <4>1, <4>3 DEF InSnapshot
      <4> QED BY <4>2, <4>4 DEF Past
    <3> HIDE DEF o
    <3>2. l.horizon = o /\ l.dead = {}
      BY DEF NoLocals
    <3>3. loc'[b] = l
      BY <2>2, <1>t DEF VacuumBegin, ControlOK, o
    <3> HIDE DEF l
    <3> QED BY <3>1, <3>2, <3>3, <2>2, <1>p DEF Horizon
  <2>3. CASE c = b /\ VacuumCollect(b)
    <3> DEFINE D == {a \in OnPage(loc[b].pg) : DeadTo(b, a)}
               E == {<<a, item[a].slot, item[a].xmax>> : a \in D}
    <3>1. loc'[b].horizon = loc[b].horizon /\ (loc'[b].dead = loc[b].dead \/ loc'[b].dead = E)
      <4>1. \/ loc' = [loc EXCEPT ![b].pg = @ + 1]
            \/ loc' = [loc EXCEPT ![b].dead = E]
        BY <2>3 DEF VacuumCollect
      <4> HIDE DEF E
      <4> QED BY <4>1, <1>t DEF ControlOK, Locals
    <3>2. \A d \in E : d[3] \in Xid /\ Past(d[3]) /\ xstat[d[3]] = "committed"
      <4> SUFFICES ASSUME NEW a \in D
                   PROVE  LET x == item[a].xmax IN x \in Xid /\ Past(x) /\ xstat[x] = "committed"
        OBVIOUS
      <4>1. a \in Items /\ DeadTo(b, a)
        BY DEF OnPage
      <4>2. item[a].xmax \in Xid
        BY <4>1, <1>t DEF StoreOK, DeadTo, Item
      <4> QED BY <4>1, <4>2, <1>h DEF DeadTo, Horizon
    <3> HIDE DEF E
    <3>3. \A d \in loc'[b].dead : d[3] \in Xid /\ Past(d[3]) /\ xstat[d[3]] = "committed"
      BY <3>1, <3>2, <1>d, <1>h DEF Horizon
    <3> QED BY <3>1, <3>3, <2>3, <1>h, <1>p DEF Horizon
  <2> QED BY <2>1, <2>2, <2>3, <1>1, VacuumLocals
<1>3. Buried'
  <2>k. Kept(b)
    BY StoreStep
  <2> SUFFICES ASSUME NEW a \in Items', item'[a].lp = "dead"
               PROVE  killer'[a] \in Xid /\ Past(killer'[a]) /\ xstat[killer'[a]] = "committed"
    BY <1>p DEF Buried, Past
  <2>0. a \in Items /\ (item[a].lp # "dead" => VacuumPage(b))
    BY <2>k DEF Kept
  <2>1. CASE killer'[a] = killer[a] /\ item[a].lp = "dead"
    BY <2>1, <2>0 DEF Txns, Buried
  <2>2. CASE VacuumPage(b)
    <3> DEFINE D == loc[b].dead
    <3>0. a \in Addr
      BY <2>0 DEF Items
    <3>1. CASE \E d \in D : d[1] = a
      <4>1. (CHOOSE d \in D : d[1] = a) \in D
        BY <3>1
      <4>2. killer'[a] = (CHOOSE d \in D : d[1] = a)[3]
        BY <3>0, <3>1, <2>2 DEF VacuumPage
      <4> QED BY <4>1, <4>2, <1>d, <1>h DEF Horizon
    <3>2. CASE ~\E d \in D : d[1] = a
      BY <3>0, <3>2, <2>2, <2>1 DEF VacuumPage
    <3> QED BY <3>1, <3>2
  <2>3. CASE ~VacuumPage(b)
    <3>1. killer' = killer
      BY <2>3, StoreCases DEF store, InsertBegin, PlaceHere, PlaceNew, Put, DeleteApply, UpdateSamePage,
                              UpdateCrossPage, EdgeApply
    <3> QED BY <2>0, <2>1, <2>3, <3>1
  <2> QED BY <2>2, <2>3
<1> QED BY <1>2, <1>3

\* Every step keeps the invariant of transactions, snapshots and the horizon.
LEMMA TxnsStep == Structure /\ Txns /\ [Next]_vars => Txns'
<1> SUFFICES ASSUME Structure, Txns, [Next]_vars PROVE Txns'
  OBVIOUS
<1>1. ASSUME NEW b \in Backend, Step(b) PROVE Txns'
  BY <1>1, XidsStep, PastStep, VacuumStep DEF Txns
<1>2. CASE UNCHANGED vars
  <2>1. Items' = Items /\ NextXid' = NextXid
    BY <1>2 DEF vars, store, txns, Items, NextXid
  <2>2. \A x : Past(x)' <=> Past(x)
    BY <1>2 DEF vars, txns, Past, Over, InSnapshot
  <2>3. Xids' /\ Snapshots'
    BY <1>2, <2>1 DEF Txns, vars, txns, Xids, Snapshots, Over, InSnapshot
  <2>4. (\A b \in Backend : Horizon(b)') /\ Buried'
    BY <1>2, <2>1, <2>2 DEF Txns, vars, store, txns, Horizon, Buried
  <2> QED BY <2>3, <2>4 DEF Txns
<1> QED BY <1>1, <1>2 DEF Next

\* VACUUM for every instance: whatever backends do between its two locks of a
\* page, and however long snapshots stay open, it turns an item LP_DEAD only if
\* the deleter has committed for every snapshot in use.
THEOREM VacuumIsSafe == Spec => []VacuumSafe
<1>1. Init => Structure /\ Txns
  BY StructureInit, XidsInit
<1>2. Structure /\ Txns /\ [Next]_vars => (Structure /\ Txns)'
  BY StructureStep, TxnsStep
<1>3. Structure /\ Txns => VacuumSafe
  BY DEF Txns, Buried, Past, VacuumSafe
<1> QED BY <1>1, <1>2, <1>3, PTL DEF Spec
-----------------------------------------------------------------------------
(* Scans                                                                   *)

\* The steps of a backend that scans.
LEMMA ScanCases ==
    ASSUME Structure, NEW b \in Backend, Step(b), pc'[b] = "scan"
    PROVE  ScanBegin(b) \/ (pc[b] = "scan" /\ ScanNext(b))
<1>t. /\ pc \in [Backend -> Control] /\ Locally(b)
  BY TypeParts DEF Structure, ControlOK
<1>1. ~Return(b)
  BY <1>t DEF Return
<1>2. CASE BeginTxn(b) \/ CommitTxn(b) \/ AbortTxn(b) \/ PlaceBegin(b) \/ PlaceFull(b) \/ FindBegin(b)
           \/ UpdateCrossPage(b)
  BY <1>2, <1>t DEF BeginTxn, CommitTxn, AbortTxn, EndTxn, PlaceBegin, PlaceFull, FindBegin, UpdateCrossPage
<1>3. CASE \/ \E task \in {"insert", "insertbig"} : InsertBegin(b, task)
           \/ \E task \in {"delete", "update"}, n \in Node : LoadOld(b, task, n)
           \/ \E n \in Node : EdgeBegin(b, n)
  BY <1>3, <1>t DEF InsertBegin, LoadOld, EdgeBegin
<1>4. CASE FindPage(b) \/ \E a \in Items : FindCached(b, a)
  <2>1. pc[b] = "find" /\ (pc'[b] = pc[b] \/ pc'[b] = loc[b].task)
    BY <1>4, <1>t DEF FindPage, FindCached, Found
  <2> QED BY <2>1, <1>t DEF Locally
<1>5. CASE VacuumBegin(b) \/ VacuumCollect(b) \/ VacuumPage(b)
  BY <1>5, <1>t DEF VacuumBegin, VacuumCollect, VacuumPage
<1>6. ScanNext(b) => pc[b] = "scan"
  BY DEF ScanNext
<1>7. ~(\/ PlaceHere(b) \/ PlaceNew(b) \/ DeleteApply(b) \/ UpdateSamePage(b) \/ FindNone(b)
        \/ EdgeApply(b) \/ ScanEnd(b) \/ VacuumEnd(b))
  BY <1>1 DEF PlaceHere, PlaceNew, Put, Captured, Error, DeleteApply, UpdateSamePage, FindNone,
              EdgeApply, ScanEnd, VacuumEnd
<1> QED BY <1>2, <1>3, <1>4, <1>5, <1>6, <1>7 DEF Step

\* While a backend scans, no version becomes visible to it: new ones belong to
\* transactions that its snapshot takes for running.
LEMMA ShownStep ==
    ASSUME Structure, Txns, NEW b \in Backend, Step(b),
           NEW c \in Backend, pc[c] = "scan", pc'[c] = "scan"
    PROVE  /\ snap'[c] = snap[c]
           /\ \A a \in Items' : Shown(c, snap[c], item[a].xmin)' =>
                 a \in Items /\ Shown(c, snap[c], item[a].xmin)
           /\ \A a \in Items : Shown(c, snap[c], item[a].xmin) => Shown(c, snap[c], item[a].xmin)'
           /\ \A a \in Items' : Visible(c, a)' => a \in Items /\ Visible(c, a)
<1>t. StoreOK /\ TxnsOK /\ Locally(b) /\ Locally(c) /\ Xids /\ Snapshots
  BY TypeParts DEF Structure, Txns
<1>k. Kept(b) /\ \A x \in Xid : Over(x) => xstat'[x] = xstat[x]
  BY StoreStep, XidsStep DEF Txns
<1>1. CASE c = b
  <2>1. ScanNext(b)
    BY <1>1, ScanCases DEF ScanBegin, Start
  <2>2. UNCHANGED <<store, txns>>
    BY <2>1 DEF ScanNext
  <2>3. Items' = Items
    BY <2>2 DEF store, Items
  <2> QED BY <2>2, <2>3 DEF store, txns, Shown, Visible, XminVisible, InSnapshot
<1>2. CASE c # b
  <2>1. xid'[c] = xid[c] /\ snap'[c] = snap[c] /\ snap[c] # None
    BY <1>2, <1>t, OthersStep DEF Locally
  <2>2. \A x \in Xid : xstat'[x] = "committed" /\ ~InSnapshot(x, snap[c]) => xstat[x] = "committed"
    BY <1>t, <1>k, <2>1 DEF Snapshots
  <2>3. \A x \in Xid : xstat[x] = "committed" => xstat'[x] = "committed"
    BY <1>k DEF Over
  <2>4. \A x : InSnapshot(x, snap[c])' <=> InSnapshot(x, snap[c])
    BY <2>1 DEF InSnapshot
  <2>5. \A a \in Items : item[a].xmin \in Xid /\ item'[a].xmin = item[a].xmin
    BY <1>t, <1>k DEF StoreOK, Item, Kept
  <2>6. \A a \in Items : Shown(c, snap[c], item[a].xmin)' <=> Shown(c, snap[c], item[a].xmin)
    BY <2>1, <2>2, <2>3, <2>4, <2>5 DEF Shown
  <2>7. ASSUME NEW a \in Items', a \notin Items PROVE ~Shown(c, snap[c], item[a].xmin)'
    <3>1. item'[a].xmin = xid[b] /\ pc[b] \in Mutating
      BY <2>7, <1>k DEF Kept, Mutating, Applying
    <3>2. xid[b] \in Xid /\ xstat[xid[b]] = "active" /\ xid[b] # xid[c]
      BY <3>1, <1>2, <1>t DEF Locally, Xids, Xid
    <3>3. InSnapshot(xid[b], snap[c])
      BY <3>2, <2>1, <1>t DEF Snapshots, Over
    <3> QED BY <3>1, <3>2, <3>3, <2>1, <2>4 DEF Shown
  <2>8. \A a \in Items : Visible(c, a)' => Visible(c, a)
    <3> TAKE a \in Items
    <3>1. item'[a].xmax = 0 => item[a].xmax = 0
      BY <1>k DEF Kept
    <3>2. item'[a].lp = "normal" => item[a].lp = "normal"
      BY <1>k, <1>t DEF Kept, StoreOK, Item
    <3> QED BY <3>1, <3>2, <2>6 DEF Visible, XminVisible
  <2>9. \A a \in Items' : Visible(c, a)' => a \in Items
    BY <2>7 DEF Visible, XminVisible
  <2> QED BY <2>1, <2>6, <2>7, <2>8, <2>9
<1> QED BY <1>1, <1>2

\* A scan keeps everything visible behind its position.
LEMMA ProgressStep ==
    ASSUME Structure, Txns, NEW b \in Backend, Step(b), NEW c \in Backend, Progress(c)
    PROVE  Progress(c)'
<1>t. StoreOK /\ TxnsOK /\ ControlOK /\ Relation /\ Locally(c)
  BY TypeParts DEF Structure
<1> SUFFICES ASSUME pc'[c] = "scan" PROVE Progress(c)'
  BY DEF Progress
<1>1. CASE c # b
  <2>1. pc[c] = "scan" /\ loc'[c] = loc[c]
    BY <1>1, OthersStep
  <2>2. \A a : Behind(c, a)' <=> Behind(c, a)
    BY <2>1 DEF Behind
  <2>3. /\ \A a \in Items' : Visible(c, a)' => a \in Items /\ Visible(c, a)
        /\ \A a \in Items' : Shown(c, snap[c], item[a].xmin)' =>
              a \in Items /\ Shown(c, snap[c], item[a].xmin)
    BY <2>1, ShownStep
  <2> QED BY <2>1, <2>2, <2>3 DEF Progress
<1>2. CASE c = b /\ ScanBegin(b)
  <2> DEFINE l == [NoLocals EXCEPT !.pg = 1, !.lim = nblocks]
  <2>1. loc'[b] = l /\ Items' = Items /\ l.pg = 1 /\ l.off = 1 /\ l.lim = nblocks
    BY <1>2, <1>t DEF ScanBegin, store, Items, ControlOK, NoLocals
  <2> HIDE DEF l
  <2>2. \A a \in Items : ~Behind(b, a)'
    <3> TAKE a \in Items
    <3>1. a[1] >= 1 /\ a[2] >= 1 /\ a[1] \in Nat /\ a[2] \in Nat
      BY Constants DEF Items, Page, Slot
    <3> QED BY <3>1, <2>1 DEF Behind
  <2>3. \A a \in Items : a[1] <= nblocks
    <3> TAKE a \in Items
    <3>1. a[1] \in Page /\ a[2] \in Slot /\ a[2] <= used[a[1]]
      BY Constants DEF Items
    <3>2. used[a[1]] # 0
      BY <3>1 DEF Slot
    <3> QED BY <3>1, <3>2, <1>t DEF Relation
  <2> QED BY <1>2, <2>1, <2>2, <2>3 DEF Progress
<1>3. CASE c = b /\ pc[b] = "scan" /\ ScanNext(b)
  <2> DEFINE rest == {a \in OnPage(loc[b].pg) : a[2] >= loc[b].off /\ Visible(b, a)}
  <2>0. UNCHANGED <<store, txns>> /\ Items' = Items /\ forked' = forked
    BY <1>3 DEF ScanNext, store, Items
  <2>1. \A a : Visible(b, a)' <=> Visible(b, a)
    BY <2>0 DEF store, txns, Shown, Visible, XminVisible, InSnapshot
  <2>2. \A a \in Items : a[1] \in Nat /\ a[2] \in Nat
    BY Constants DEF Items, Page, Slot
  <2>3. loc[b].pg \in Nat /\ loc[b].off \in Nat
    BY <1>t DEF ControlOK, Locals
  <2>4. \A a \in Items : Visible(b, a) /\ Behind(b, a) => a \in loc[b].got
    BY <1>3 DEF Progress
  <2>5. \A a \in Items : Shown(b, snap[b], item[a].xmin)' => a[1] <= loc[b].lim
    BY <1>3, <2>0 DEF Progress, Shown, InSnapshot, store, txns
  <2>6. \A a \in Items : Visible(b, a) /\ a[1] = loc[b].pg /\ a[2] >= loc[b].off => a \in rest
    BY DEF OnPage
  <2>7. ASSUME NEW s \in rest, \A r \in rest : s[2] <= r[2], loc' = [loc EXCEPT ![b] = AfterRecord(b, s)]
        PROVE  Progress(b)'
    <3>1. /\ loc'[b].pg = loc[b].pg /\ loc'[b].off = s[2] + 1 /\ loc'[b].lim = loc[b].lim
          /\ loc'[b].got = loc[b].got \cup {s}
      BY <2>7, <1>t DEF AfterRecord, ControlOK, Locals
    <3>2. s \in Items /\ s[1] = loc[b].pg
      BY DEF OnPage
    <3> HIDE DEF rest
    <3>3. ASSUME NEW a \in Items, Visible(b, a), Behind(b, a)' PROVE a \in loc[b].got \cup {s}
      <4>1. CASE Behind(b, a)
        BY <4>1, <3>3, <2>4
      <4>2. CASE ~Behind(b, a)
        <5>1. a[1] = loc[b].pg /\ a[2] >= loc[b].off /\ a[2] < s[2] + 1
          BY <4>2, <3>1, <3>2, <3>3, <2>2, <2>3 DEF Behind
        <5>2. a \in rest
          BY <5>1, <3>3, <2>6
        <5>3. a[2] = s[2]
          BY <5>1, <5>2, <2>2, <2>7, <3>2
        <5>4. a = <<a[1], a[2]>> /\ s = <<s[1], s[2]>>
          BY <3>2, Constants DEF Items
        <5> QED BY <5>1, <5>3, <5>4, <3>2
      <4> QED BY <4>1, <4>2
    <3> QED BY <2>0, <2>1, <2>5, <3>1, <3>3 DEF Progress
  <2>8. ASSUME rest = {}, loc' = [loc EXCEPT ![b].pg = @ + 1, ![b].off = 1]
        PROVE  Progress(b)'
    <3>1. /\ loc'[b].pg = loc[b].pg + 1 /\ loc'[b].off = 1 /\ loc'[b].lim = loc[b].lim
          /\ loc'[b].got = loc[b].got
      BY <2>8, <1>t DEF ControlOK, Locals
    <3>2. \A a \in Items : ~(a[2] < 1)
      BY Constants DEF Items, Slot
    <3>3. ASSUME NEW a \in Items, Visible(b, a), Behind(b, a)' PROVE a \in loc[b].got
      <4> HIDE DEF rest
      <4>1. Behind(b, a)
        <5>1. a[1] < loc[b].pg + 1
          BY <3>1, <3>2, <3>3 DEF Behind
        <5>2. ~(a[1] = loc[b].pg /\ a[2] >= loc[b].off)
          BY <2>6, <2>8, <3>3
        <5> QED BY <5>1, <5>2, <2>2, <2>3 DEF Behind
      <4> QED BY <4>1, <3>3, <2>4
    <3> QED BY <2>0, <2>1, <2>5, <3>1, <3>3 DEF Progress
  <2> QED BY <1>3, <2>7, <2>8 DEF ScanNext
<1> QED BY <1>1, <1>2, <1>3, ScanCases

\* The invariant of scans: structure, transactions, and the progress of each.
Scans == Structure /\ Txns /\ \A b \in Backend : Progress(b)

\* No scan is under way at first.
LEMMA ScansInit == Init => Scans
<1>1. Init => \A b \in Backend : Progress(b)
  BY DEF Init, Progress
<1> QED BY <1>1, StructureInit, XidsInit DEF Scans

\* Every step keeps the progress of all scans.
LEMMA ScansStep == Scans /\ [Next]_vars => Scans'
<1> SUFFICES ASSUME Scans, [Next]_vars PROVE Scans'
  OBVIOUS
<1>1. Structure' /\ Txns'
  BY StructureStep, TxnsStep DEF Scans
<1>2. ASSUME NEW b \in Backend, Step(b) PROVE \A c \in Backend : Progress(c)'
  BY <1>2, ProgressStep DEF Scans
<1>3. CASE UNCHANGED vars
  <2>1. Items' = Items
    BY <1>3 DEF vars, store, Items
  <2>2. \A b \in Backend : Progress(b)'
    BY <2>1, <1>3 DEF Scans, vars, store, txns, Progress, Visible, XminVisible, Shown, InSnapshot, Behind
  <2> QED BY <1>1, <2>2 DEF Scans
<1> QED BY <1>1, <1>2, <1>3 DEF Scans, Next

\* Completeness of scans for every instance: a scan unlocks the page after each
\* record and meanwhile others insert, delete, update, extend the relation and
\* vacuum; it still returns every version its snapshot shows that nobody deleted.
THEOREM ScansComplete == Spec => []ScanComplete
<1>1. Scans => ScanComplete
  <2> SUFFICES ASSUME Scans, NEW b \in Backend, ScanDone(b), NEW a \in Items,
                      Visible(b, a)
               PROVE  a \in loc[b].got
    BY DEF ScanComplete, Visible, XminVisible
  <2>1. pc[b] = "scan" /\ Progress(b) /\ loc[b].pg > loc[b].lim
    BY DEF ScanDone, Scans
  <2>2. a[1] <= loc[b].lim
    BY <2>1 DEF Progress, Visible, XminVisible
  <2>3. a[1] \in Nat /\ loc[b].pg \in Nat /\ loc[b].lim \in Nat
    BY Constants, TypeParts DEF Items, Scans, Structure, ControlOK, Locals, Page
  <2> QED BY <2>1, <2>2, <2>3 DEF Progress, Behind
<1> QED BY <1>1, ScansInit, ScansStep, PTL DEF Spec

-----------------------------------------------------------------------------
(* Node ids                                                                *)

\* How the task and the node of a backend change.
LEMMA TaskStep ==
    ASSUME Structure, NEW b \in Backend, Step(b)
    PROVE  \/ /\ loc'[b].task = loc[b].task /\ loc'[b].n = loc[b].n /\ lastId' = lastId
              /\ pc'[b] \in Mutating => pc[b] \in Mutating
              /\ pc'[b] \in Placing => pc[b] \in Placing \/ UpdateCrossPage(b)
           \/ /\ loc'[b].task \in {"none", "vacuum"} /\ pc'[b] \notin Mutating /\ lastId' = lastId
           \/ /\ loc'[b].task \in Task[b] \ {"insert"} /\ pc'[b] = "loaded"
              /\ loc'[b].n <= lastId /\ lastId' = lastId
           \/ /\ loc'[b].task = "insert" /\ pc'[b] = "size"
              /\ loc'[b].n = lastId + 1 /\ lastId' = lastId + 1
<1> DEFINE A == /\ loc'[b].task = loc[b].task /\ loc'[b].n = loc[b].n /\ lastId' = lastId
                /\ pc'[b] \in Mutating => pc[b] \in Mutating
                /\ pc'[b] \in Placing => pc[b] \in Placing \/ UpdateCrossPage(b)
           B == loc'[b].task \in {"none", "vacuum"} /\ pc'[b] \notin Mutating /\ lastId' = lastId
           C == /\ loc'[b].task \in Task[b] \ {"insert"} /\ pc'[b] = "loaded"
                /\ loc'[b].n <= lastId /\ lastId' = lastId
           D == /\ loc'[b].task = "insert" /\ pc'[b] = "size"
                /\ loc'[b].n = lastId + 1 /\ lastId' = lastId + 1
<1>a. pc \in [Backend -> Control] /\ loc \in [Backend -> Locals] /\ loc[b] \in Locals /\ Locally(b)
  BY TypeParts DEF Structure, ControlOK
<1>l. ASSUME NEW l, loc' = [loc EXCEPT ![b] = l]
      PROVE  loc'[b] = l
  BY <1>l, <1>a
<1>1. Return(b) /\ lastId' = lastId => B
  BY <1>a DEF Return, NoLocals, Mutating, Placing, Applying
<1>2. CASE BeginTxn(b) \/ CommitTxn(b) \/ AbortTxn(b)
  <2>1. A
    BY <1>2 DEF BeginTxn, CommitTxn, AbortTxn, EndTxn, store, Mutating, Placing, Applying
  <2> QED BY <2>1
<1>3. CASE PlaceFull(b) \/ UpdateCrossPage(b)
  <2>1. A
    BY <1>3, <1>a DEF PlaceFull, UpdateCrossPage, store, Mutating, Placing, Applying
  <2> QED BY <2>1
<1>4. CASE \/ PlaceHere(b) \/ PlaceNew(b) \/ DeleteApply(b) \/ UpdateSamePage(b) \/ FindNone(b)
           \/ EdgeApply(b) \/ ScanEnd(b) \/ VacuumEnd(b)
  <2>1. Return(b) /\ lastId' = lastId
    BY <1>4 DEF PlaceHere, PlaceNew, Put, Captured, Error, DeleteApply, UpdateSamePage, FindNone,
                EdgeApply, ScanEnd, VacuumEnd, store
  <2> HIDE DEF B
  <2>2. B
    BY <2>1, <1>1
  <2> QED BY <2>2 DEF B
<1>5. ASSUME NEW task \in {"insert", "insertbig"}, InsertBegin(b, task) PROVE D
  <2> DEFINE big == task = "insertbig"
             l == [NoLocals EXCEPT !.task = "insert", !.n = lastId + 1, !.seen = TRUE, !.big = big]
  <2>1. loc' = [loc EXCEPT ![b] = l] /\ pc'[b] = "size" /\ lastId' = lastId + 1
    BY <1>5, <1>a DEF InsertBegin
  <2> HIDE DEF big
  <2>2. l.task = "insert" /\ l.n = lastId + 1
    BY DEF NoLocals
  <2> HIDE DEF l
  <2> QED BY <2>1, <2>2, <1>l
<1>6. ASSUME NEW task \in {"delete", "update"}, NEW n \in Node, LoadOld(b, task, n) PROVE C
  <2> DEFINE s == OldSeen(b, n)
             l == [NoLocals EXCEPT !.task = task, !.n = n, !.seen = s]
  <2>1. loc' = [loc EXCEPT ![b] = l] /\ pc'[b] = "loaded" /\ lastId' = lastId /\ n <= lastId /\ task \in Task[b]
    BY <1>6, <1>a DEF LoadOld, store, Start
  <2> HIDE DEF s
  <2>2. l.task = task /\ l.n = n
    BY DEF NoLocals
  <2> HIDE DEF l
  <2> QED BY <2>1, <2>2, <1>l
<1>7. ASSUME NEW n \in Node, EdgeBegin(b, n) PROVE C
  <2> DEFINE l == [NoLocals EXCEPT !.task = "edge", !.n = n]
  <2>1. loc' = [loc EXCEPT ![b] = l] /\ pc'[b] = "loaded" /\ lastId' = lastId /\ n <= lastId /\ "edge" \in Task[b]
    BY <1>7, <1>a DEF EdgeBegin, store, Start
  <2>2. l.task = "edge" /\ l.n = n
    BY DEF NoLocals
  <2> HIDE DEF l
  <2> QED BY <2>1, <2>2, <1>l
<1>8. CASE PlaceBegin(b) \/ FindBegin(b)
  <2>1. A
    BY <1>8, <1>a DEF PlaceBegin, FindBegin, Locals, store, Mutating, Placing, Applying
  <2> QED BY <2>1
<1>9. CASE ScanBegin(b)
  <2> DEFINE l == [NoLocals EXCEPT !.pg = 1, !.lim = nblocks]
  <2>1. loc' = [loc EXCEPT ![b] = l] /\ l.task = "none" /\ pc'[b] = "scan" /\ lastId' = lastId
    BY <1>9, <1>a DEF ScanBegin, NoLocals, store
  <2> HIDE DEF l
  <2>2. B
    BY <2>1, <1>l DEF Mutating, Placing, Applying
  <2> QED BY <2>2
<1>10. CASE VacuumBegin(b)
  <2> DEFINE o == OldestXmin
             l == [NoLocals EXCEPT !.task = "vacuum", !.pg = 1, !.lim = nblocks, !.horizon = o]
  <2> HIDE DEF o
  <2>1. loc' = [loc EXCEPT ![b] = l] /\ l.task = "vacuum" /\ pc'[b] = "vacuum" /\ lastId' = lastId
    BY <1>10, <1>a DEF VacuumBegin, NoLocals, store, o
  <2> HIDE DEF l
  <2>2. B
    BY <2>1, <1>l DEF Mutating, Placing, Applying
  <2> QED BY <2>2
<1>11. ASSUME NEW a, Found(b, a), pc[b] = "find", lastId' = lastId PROVE A
  <2>1. loc'[b].task = loc[b].task /\ loc'[b].n = loc[b].n /\ pc'[b] = loc[b].task
    BY <1>11, <1>a DEF Found, Locals
  <2>2. loc[b].task \in {"delete", "update", "edge"}
    BY <1>11, <1>a DEF Locally
  <2> QED BY <2>1, <2>2, <1>11 DEF Mutating, Placing, Applying
<1>12. CASE FindPage(b) \/ \E a \in Items : FindCached(b, a)
  <2>1. pc[b] = "find" /\ lastId' = lastId
    BY <1>12 DEF FindPage, FindCached, store
  <2>2. loc' = [loc EXCEPT ![b].pg = @ + 1] /\ pc' = pc => A
    BY <2>1, <1>a DEF Locals, Mutating, Placing, Applying
  <2> HIDE DEF A
  <2>3. A
    BY <1>12, <1>11, <2>1, <2>2 DEF FindPage, FindCached
  <2> QED BY <2>3 DEF A
<1>13. CASE ScanNext(b)
  <2>1. \A a : AfterRecord(b, a).task = loc[b].task /\ AfterRecord(b, a).n = loc[b].n
    BY <1>a DEF AfterRecord, Locals
  <2>2. pc' = pc /\ lastId' = lastId /\ pc[b] = "scan"
    BY <1>13 DEF ScanNext, store
  <2>3. \A a : loc' = [loc EXCEPT ![b] = AfterRecord(b, a)] => A
    BY <2>1, <2>2, <1>a DEF Mutating, Placing, Applying
  <2>4. loc' = [loc EXCEPT ![b].pg = @ + 1, ![b].off = 1] => A
    BY <2>2, <1>a DEF Locals, Mutating, Placing, Applying
  <2> HIDE DEF AfterRecord, A
  <2>5. A
    BY <1>13, <2>3, <2>4 DEF ScanNext
  <2> QED BY <2>5 DEF A
<1>14. CASE VacuumCollect(b)
  <2> DEFINE E == {<<a, item[a].slot, item[a].xmax>> : a \in {a \in OnPage(loc[b].pg) : DeadTo(b, a)}}
  <2>1. /\ loc' = [loc EXCEPT ![b].pg = @ + 1] \/ loc' = [loc EXCEPT ![b].dead = E]
        /\ pc'[b] \in {"vacuum", "vacuumpage"} /\ lastId' = lastId
    BY <1>14, <1>a DEF VacuumCollect, store
  <2> HIDE DEF E
  <2>2. A
    BY <2>1, <1>a DEF Locals, Mutating, Placing, Applying
  <2> QED BY <2>2
<1>15. CASE VacuumPage(b)
  <2>1. A
    BY <1>15, <1>a DEF VacuumPage, Locals, Mutating, Placing, Applying
  <2> QED BY <2>1
<1> HIDE DEF A, B, C, D
<1>16. A \/ B \/ C \/ D
  BY <1>2, <1>3, <1>4, <1>5, <1>6, <1>7, <1>8, <1>9, <1>10, <1>12, <1>13, <1>14, <1>15 DEF Step, A, B, C, D
<1> QED BY <1>16 DEF A, B, C, D

\* Node ids stay unique to an insert until its item is there.
LEMMA FreshStep ==
    ASSUME Structure, Fresh, NEW b \in Backend, Step(b)
    PROVE  Fresh'
<1>t. StoreOK /\ ControlOK /\ \A c \in Backend : Locally(c)
  BY TypeParts DEF Structure
<1>k. Kept(b)
  BY StoreStep
<1>n. lastId \in Nat /\ (\A c \in Backend : loc[c].n \in Nat) /\ \A a \in Items : item[a].id \in Nat
  BY <1>t DEF StoreOK, ControlOK, Locals, Item, Node
<1>l. lastId' \in Nat /\ lastId <= lastId'
  BY <1>n, TaskStep
<1>o. \A c \in Backend \ {b} : pc'[c] = pc[c] /\ loc'[c] = loc[c]
  BY OthersStep
<1>w. ASSUME NEW a \in Items', a \notin Items
      PROVE  /\ item'[a].id = loc[b].n /\ pc[b] \in Mutating /\ pc'[b] = "idle"
             /\ NewNode(b) \/ \E e \in Items : item[e].id = loc[b].n
  <2>1. item'[a].id = loc[b].n /\ pc[b] \in Placing \cup {"update"} /\ pc'[b] = "idle"
    BY <1>w, <1>k DEF Kept
  <2>2. CASE pc[b] \in Placing
    BY <2>1, <2>2, <1>t DEF Locally, NewNode, NewVersion, Mutating, Fresh
  <2>3. CASE pc[b] = "update"
    <3>1. loc[b].at \in Items /\ item[loc[b].at].id = loc[b].n
      BY <2>3, <1>t DEF Locally, Applying
    <3> QED BY <2>1, <2>3, <3>1 DEF Mutating, Applying
  <2> QED BY <2>1, <2>2, <2>3
<1>1. \A a \in Items' : item'[a].id <= lastId'
  <2> TAKE a \in Items'
  <2>1. CASE a \in Items
    BY <2>1, <1>k, <1>l, <1>n DEF Kept, Fresh
  <2>2. CASE a \notin Items
    BY <2>2, <1>w, <1>l, <1>n DEF Fresh
  <2> QED BY <2>1, <2>2
<1>2. \A c \in Backend : pc'[c] \in Mutating => loc'[c].n <= lastId'
  <2> SUFFICES ASSUME NEW c \in Backend, pc'[c] \in Mutating PROVE loc'[c].n <= lastId'
    OBVIOUS
  <2>1. CASE c # b
    BY <2>1, <1>o, <1>l, <1>n DEF Fresh
  <2>2. CASE c = b
    BY <2>2, <1>n, TaskStep DEF Fresh
  <2> QED BY <2>1, <2>2
<1>3. \A c \in Backend : NewNode(c)' =>
         \/ c = b /\ loc'[b].n = lastId + 1 /\ Items' = Items
         \/ NewNode(c) /\ loc'[c].n = loc[c].n
  <2> SUFFICES ASSUME NEW c \in Backend, NewNode(c)'
               PROVE  \/ c = b /\ loc'[b].n = lastId + 1 /\ Items' = Items
                      \/ NewNode(c) /\ loc'[c].n = loc[c].n
    OBVIOUS
  <2>1. CASE c # b
    BY <2>1, <1>o DEF NewNode
  <2>2. CASE c = b
    <3>1. pc'[b] \in Placing /\ pc'[b] \in Mutating /\ loc'[b].task = "insert"
      BY <2>2 DEF NewNode, Mutating
    <3>2. Items' = Items
      BY <3>1, <1>k, <1>w DEF Placing, Kept
    <3>3. UpdateCrossPage(b) => loc[b].task = "update"
      BY <1>t DEF UpdateCrossPage, Locally, Applying
    <3>4. pc'[b] # "loaded"
      BY <3>1 DEF Placing
    <3> QED BY <2>2, <3>1, <3>2, <3>3, <3>4, TaskStep DEF NewNode
  <2> QED BY <2>1, <2>2
<1>4. \A c \in Backend : NewNode(c)' => \A a \in Items' : item'[a].id # loc'[c].n
  <2> SUFFICES ASSUME NEW c \in Backend, NewNode(c)', NEW a \in Items' PROVE item'[a].id # loc'[c].n
    OBVIOUS
  <2>1. CASE c = b /\ loc'[b].n = lastId + 1 /\ Items' = Items
    BY <2>1, <1>k, <1>n DEF Kept, Fresh
  <2>2. CASE NewNode(c) /\ loc'[c].n = loc[c].n /\ a \in Items
    BY <2>2, <1>k DEF Kept, Fresh
  <2>3. CASE NewNode(c) /\ loc'[c].n = loc[c].n /\ a \notin Items
    <3>1. c # b
      BY <2>3, <1>w DEF NewNode, Placing
    <3> QED BY <2>3, <3>1, <1>w DEF Fresh
  <2> QED BY <2>1, <2>2, <2>3, <1>3
<1>5. \A c \in Backend : NewVersion(c)' => \E a \in Items' : item'[a].id = loc'[c].n
  <2> SUFFICES ASSUME NEW c \in Backend, NewVersion(c)'
               PROVE  \E a \in Items : item[a].id = loc'[c].n
    BY <1>k DEF Kept
  <2>1. CASE c # b
    BY <2>1, <1>o DEF NewVersion, Fresh
  <2>2. CASE c = b
    <3>1. pc'[b] \in Placing /\ pc'[b] \in Mutating /\ loc'[b].task = "update" /\ pc'[b] # "loaded"
      BY <2>2 DEF NewVersion, Mutating, Placing
    <3>2. loc'[b].n = loc[b].n /\ (NewVersion(b) \/ UpdateCrossPage(b))
      BY <3>1, TaskStep DEF NewVersion
    <3>3. UpdateCrossPage(b) => loc[b].at \in Items /\ item[loc[b].at].id = loc[b].n
      BY <1>t DEF UpdateCrossPage, Locally, Applying
    <3> QED BY <2>2, <3>2, <3>3 DEF Fresh
  <2> QED BY <2>1, <2>2
<1>6. \A c, e \in Backend : NewNode(c)' /\ NewNode(e)' /\ loc'[c].n = loc'[e].n => c = e
  <2> SUFFICES ASSUME NEW c \in Backend, NEW e \in Backend, NewNode(c)', NewNode(e)', loc'[c].n = loc'[e].n
               PROVE  c = e
    OBVIOUS
  <2>1. \A d \in Backend : NewNode(d) => loc[d].n # lastId + 1
    BY <1>n DEF NewNode, Fresh, Mutating
  <2> QED BY <2>1, <1>3 DEF Fresh
<1> HIDE DEF NewNode, NewVersion
<1> QED BY <1>1, <1>2, <1>4, <1>5, <1>6 DEF Fresh

\* The invariants about ids that every scan and every header relies on.
Ids == Structure /\ Fresh /\ \A b \in Backend : AtHand(b)

\* At first there are no items.
LEMMA NoItems == Init => Items = {}
<1>1. Init => \A a \in Addr : ~(a[2] <= used[a[1]])
  BY Constants DEF Init, Slot
<1> QED BY <1>1 DEF Items

\* What a step leaves of a backend's update under way: where it was, or the
\* version that a cross-page update has just deleted.
LEMMA AtHandKept ==
    ASSUME Structure, NEW b \in Backend, Step(b), NewVersion(b)'
    PROVE  /\ NewVersion(b) \/ UpdateCrossPage(b)
           /\ loc'[b].n = loc[b].n /\ loc'[b].at = loc[b].at /\ loc'[b].slot = loc[b].slot
<1>t. /\ pc \in [Backend -> Control] /\ loc \in [Backend -> Locals] /\ loc[b] \in Locals /\ Locally(b)
  BY TypeParts DEF Structure, ControlOK
<1>p. pc'[b] \in Placing /\ loc'[b].task = "update"
  BY DEF NewVersion
<1>1. ~Return(b)
  BY <1>t, <1>p DEF Return, Placing
<1>2. CASE BeginTxn(b) \/ CommitTxn(b) \/ AbortTxn(b) \/ ScanNext(b)
  <2>1. pc'[b] \in {"idle", "scan"}
    BY <1>2, <1>t DEF BeginTxn, CommitTxn, AbortTxn, EndTxn, ScanNext
  <2> QED BY <2>1, <1>p DEF Placing
<1>3. CASE PlaceFull(b) \/ UpdateCrossPage(b)
  <2>1. loc' = loc /\ (UpdateCrossPage(b) \/ pc[b] \in Placing)
    BY <1>3 DEF PlaceFull, UpdateCrossPage, Placing
  <2> QED BY <2>1, <1>p DEF NewVersion
<1>4. CASE PlaceBegin(b)
  <2>1. pc[b] \in Placing /\ loc' = [loc EXCEPT ![b].lim = nblocks]
    BY <1>4 DEF PlaceBegin, Placing
  <2> QED BY <2>1, <1>p, <1>t DEF NewVersion, Locals
<1>5. ASSUME NEW task \in {"insert", "insertbig"}, InsertBegin(b, task) PROVE FALSE
  <2> DEFINE big == task = "insertbig"
             l == [NoLocals EXCEPT !.task = "insert", !.n = lastId + 1, !.seen = TRUE, !.big = big]
  <2>1. loc' = [loc EXCEPT ![b] = l]
    BY <1>5 DEF InsertBegin
  <2> HIDE DEF big
  <2>2. l.task = "insert"
    BY DEF NoLocals
  <2> HIDE DEF l
  <2> QED BY <2>1, <2>2, <1>p, <1>t
<1>6. ~(\/ \E task \in {"delete", "update"}, n \in Node : LoadOld(b, task, n)
        \/ \E n \in Node : EdgeBegin(b, n))
  <2>1. \A task, n : LoadOld(b, task, n) => pc'[b] = "loaded"
    BY <1>t DEF LoadOld
  <2>2. \A n : EdgeBegin(b, n) => pc'[b] = "loaded"
    BY <1>t DEF EdgeBegin
  <2> HIDE DEF LoadOld, EdgeBegin
  <2> QED BY <2>1, <2>2, <1>p DEF Placing
<1>7. ~(FindBegin(b) \/ FindPage(b) \/ \E a \in Items : FindCached(b, a))
  <2>1. FindBegin(b) => pc'[b] = "find"
    BY <1>t DEF FindBegin
  <2>2. FindPage(b) \/ (\E a \in Items : FindCached(b, a)) => pc'[b] \in {"find"} \cup Applying
    BY <1>t DEF FindPage, FindCached, Found, Locally, Applying
  <2> QED BY <2>1, <2>2, <1>p DEF Placing, Applying
<1>8. ~(ScanBegin(b) \/ VacuumBegin(b) \/ VacuumCollect(b) \/ VacuumPage(b))
  BY <1>t, <1>p DEF ScanBegin, VacuumBegin, VacuumCollect, VacuumPage, Placing
<1>9. ~(\/ PlaceHere(b) \/ PlaceNew(b) \/ DeleteApply(b) \/ UpdateSamePage(b) \/ FindNone(b)
        \/ EdgeApply(b) \/ ScanEnd(b) \/ VacuumEnd(b))
  BY <1>1 DEF PlaceHere, PlaceNew, Put, Captured, Error, DeleteApply, UpdateSamePage, FindNone,
              EdgeApply, ScanEnd, VacuumEnd
<1> QED BY <1>2, <1>3, <1>4, <1>5, <1>6, <1>7, <1>8, <1>9 DEF Step

\* An update keeps what it has found while it looks for room.
LEMMA AtHandStep ==
    ASSUME Structure, NEW b \in Backend, Step(b), NEW c \in Backend, AtHand(c)
    PROVE  AtHand(c)'
<1> SUFFICES ASSUME NewVersion(c)' PROVE AtHand(c)'
  BY DEF AtHand
<1>k. Kept(b)
  BY StoreStep
<1>1. /\ loc'[c].n = loc[c].n /\ loc'[c].at = loc[c].at /\ loc'[c].slot = loc[c].slot
      /\ loc[c].at \in Items /\ item[loc[c].at].id = loc[c].n /\ loc[c].slot = item[loc[c].at].slot
  <2>1. CASE c # b
    BY <2>1, OthersStep DEF AtHand, NewVersion
  <2>2. CASE c = b
    <3>1. NewVersion(b) \/ UpdateCrossPage(b)
      BY <2>2, AtHandKept
    <3>2. UpdateCrossPage(b) =>
            loc[b].at \in Items /\ item[loc[b].at].id = loc[b].n /\ loc[b].slot = item[loc[b].at].slot
      BY DEF UpdateCrossPage, Structure, Locally, Applying
    <3> QED BY <2>2, <3>1, <3>2, AtHandKept DEF AtHand
  <2> QED BY <2>1, <2>2
<1> QED BY <1>1, <1>k DEF AtHand, Kept

\* Node ids at first.
LEMMA IdsInit == Init => Ids
<1>1. Init => Fresh /\ \A b \in Backend : AtHand(b)
  BY NoItems DEF Init, Fresh, AtHand, NoLocals, NewNode, NewVersion, Mutating, Placing, Applying
<1> QED BY <1>1, StructureInit DEF Ids

\* Every step keeps node ids unique.
LEMMA IdsStep == Ids /\ [Next]_vars => Ids'
<1> SUFFICES ASSUME Ids, [Next]_vars PROVE Ids'
  OBVIOUS
<1>1. Structure'
  BY StructureStep DEF Ids
<1>2. ASSUME NEW b \in Backend, Step(b) PROVE Fresh' /\ \A c \in Backend : AtHand(c)'
  BY <1>2, FreshStep, AtHandStep DEF Ids
<1>3. CASE UNCHANGED vars
  <2>1. Items' = Items
    BY <1>3 DEF vars, store, Items
  <2>2. Fresh' /\ \A c \in Backend : AtHand(c)'
    BY <2>1, <1>3 DEF Ids, vars, store, Fresh, AtHand, NewNode, NewVersion
  <2> QED BY <1>1, <2>2 DEF Ids
<1> QED BY <1>1, <1>2, <1>3 DEF Ids, Next

\* A new item is the first of its node, or it has the slot number of another one.
LEMMA NewItems ==
    ASSUME Ids, NEW b \in Backend, Step(b), NEW a \in Items', a \notin Items
    PROVE  /\ item'[a].id = loc[b].n
           /\ \/ /\ NewNode(b) /\ item'[a].slot = a[2]
                 /\ \A c \in Items : item[c].id # item'[a].id
              \/ /\ NewVersion(b) \/ pc[b] = "update"
                 /\ loc[b].at \in Items
                 /\ item[loc[b].at].id = item'[a].id /\ item[loc[b].at].slot = item'[a].slot
<1>1. /\ item'[a].id = loc[b].n /\ pc[b] \in Placing \cup {"update"}
      /\ item'[a].slot = IF loc[b].task = "insert" THEN a[2] ELSE loc[b].slot
  BY StoreStep DEF Ids, Kept
<1>t. Structure /\ Locally(b) /\ Fresh /\ AtHand(b)
  BY DEF Ids, Structure
<1>2. CASE NewNode(b)
  BY <1>1, <1>2, <1>t DEF Fresh, NewNode
<1>3. CASE NewVersion(b)
  BY <1>1, <1>3, <1>t DEF AtHand, NewVersion
<1>4. CASE pc[b] = "update"
  BY <1>1, <1>4, <1>t DEF Locally, Applying
<1> QED BY <1>1, <1>2, <1>3, <1>4, <1>t DEF Locally, NewNode, NewVersion

-----------------------------------------------------------------------------
(* Headers                                                                 *)

\* The steps that write headers.
LEMMA HeaderCases ==
    ASSUME NEW b \in Backend, Step(b), ~EdgeApply(b), ~VacuumPage(b)
    PROVE  hdr' = hdr /\ edges' = edges
BY StoreCases DEF store, InsertBegin, PlaceHere, PlaceNew, Put, DeleteApply, UpdateSamePage, UpdateCrossPage

\* The items that name an undisturbed header are those of the node.
LEMMA Together ==
    ASSUME Headers, NEW a \in Items, NEW c \in Items, Undisturbed(a)
    PROVE  HeaderOf(c) = HeaderOf(a) <=> item[c].id = item[a].id
<1>a. \A e \in Items : e = <<e[1], e[2]>>
  BY Constants DEF Items
<1>m. ~Moved(item[a].id)
  BY DEF Undisturbed
<1>1. ASSUME item[c].id = item[a].id PROVE HeaderOf(c) = HeaderOf(a)
  <2>1. c[1] = a[1]
    BY <1>1, <1>m DEF Moved
  <2>2. item[c].slot = item[a].slot
    BY <1>1 DEF Headers
  <2> QED BY <2>1, <2>2 DEF HeaderOf
<1>2. ASSUME HeaderOf(c) = HeaderOf(a) PROVE item[c].id = item[a].id
  <2>1. PICK e \in Items : item[e].id = item[a].id /\ item[e].slot = e[2]
    BY DEF Headers
  <2>2. PICK f \in Items : item[f].id = item[c].id /\ item[f].slot = f[2]
    BY DEF Headers
  <2>3. ~Moved(item[c].id)
    BY <1>2 DEF Undisturbed
  <2>4. e[1] = a[1] /\ f[1] = c[1]
    BY <2>1, <2>2, <2>3, <1>m DEF Moved
  <2>5. item[a].slot = e[2] /\ item[c].slot = f[2]
    BY <2>1, <2>2 DEF Headers
  <2>6. e = f
    BY <2>4, <2>5, <1>2, <1>a DEF HeaderOf
  <2> QED BY <2>1, <2>2, <2>6
<1> QED BY <1>1, <1>2

\* Every step keeps headers and nodes together.
LEMMA HeadersStep ==
    ASSUME Ids, Headers, NEW b \in Backend, Step(b)
    PROVE  Headers'
<1>t. Structure /\ StoreOK /\ StoreOK' /\ ControlOK /\ Locally(b) /\ Kept(b)
  BY TypeParts, StoreStep DEF Ids, Structure
<1>a. /\ \A e \in Items' : e \in Addr /\ e = <<e[1], e[2]>>
      /\ \A e \in Items : e \in Addr /\ item[e].id \in Node /\ item[e].lp \in {"normal", "dead"}
      /\ \A e \in Items' : item'[e].lp \in {"normal", "dead"}
  BY Constants, <1>t DEF Items, StoreOK, Item
<1>o. \A e \in Items : /\ e \in Items' /\ item'[e].id = item[e].id /\ item'[e].slot = item[e].slot
                       /\ HeaderOf(e)' = HeaderOf(e)
                       /\ item[e].lp = "dead" => item'[e].lp = "dead"
  BY <1>t DEF Kept, HeaderOf
<1>e. \A e, f \in Items' : e \notin Items /\ f \notin Items => e = f
  BY <1>t DEF Kept
<1>n. ASSUME NEW e \in Items', e \notin Items
      PROVE  \/ item'[e].slot = e[2] /\ \A c \in Items : item[c].id # item'[e].id
             \/ \E c \in Items : item[c].id = item'[e].id /\ item[c].slot = item'[e].slot
  BY <1>n, NewItems
<1>m. \A n : Moved(n) => Moved(n)'
  BY <1>o DEF Moved
<1>u. ASSUME NEW e \in Items, Undisturbed(e)' PROVE Undisturbed(e)
  <2> SUFFICES ASSUME NEW c \in Items
               PROVE  /\ item[c].id = item[e].id => item[c].lp = "normal"
                      /\ HeaderOf(c) = HeaderOf(e) => ~Moved(item[c].id)
    BY DEF Undisturbed
  <2>1. /\ item'[c].id = item'[e].id => item'[c].lp = "normal"
        /\ HeaderOf(c)' = HeaderOf(e)' => ~Moved(item[c].id)'
    BY <1>u, <1>o DEF Undisturbed
  <2>2. item[c].id = item[e].id => item[c].lp = "normal"
    BY <2>1, <1>o, <1>a
  <2>3. HeaderOf(c) = HeaderOf(e) => ~Moved(item[c].id)
    <3> HAVE HeaderOf(c) = HeaderOf(e)
    <3>1. ~Moved(item[c].id)'
      BY <2>1, <1>o
    <3>2. Moved(item[c].id) => Moved(item[c].id)'
      BY <1>o DEF Moved
    <3> QED BY <3>1, <3>2
  <2> QED BY <2>2, <2>3
<1>1. \A a, c \in Items' : item'[a].id = item'[c].id => item'[a].slot = item'[c].slot
  <2>1. ASSUME NEW a \in Items', NEW c \in Items, a \notin Items, item'[a].id = item'[c].id
        PROVE  item'[a].slot = item'[c].slot
    <3>1. PICK e \in Items : item[e].id = item'[a].id /\ item[e].slot = item'[a].slot
      BY <2>1, <1>n, <1>o
    <3> QED BY <3>1, <2>1, <1>o DEF Headers
  <2>2. ASSUME NEW a \in Items, NEW c \in Items, item'[a].id = item'[c].id
        PROVE  item'[a].slot = item'[c].slot
    BY <2>2, <1>o DEF Headers
  <2> QED BY <2>1, <2>2, <1>e
<1>2. \A a \in Items' : \E c \in Items' : item'[c].id = item'[a].id /\ item'[c].slot = c[2]
  <2>1. \A a \in Items : \E c \in Items' : item'[c].id = item[a].id /\ item'[c].slot = c[2]
    BY <1>o DEF Headers
  <2>2. ASSUME NEW a \in Items', a \notin Items
        PROVE  \E c \in Items' : item'[c].id = item'[a].id /\ item'[c].slot = c[2]
    <3>1. CASE item'[a].slot = a[2]
      BY <3>1
    <3>2. CASE \E c \in Items : item[c].id = item'[a].id
      BY <3>2, <2>1
    <3> QED BY <3>1, <3>2, <2>2, <1>n
  <2> QED BY <2>1, <2>2, <1>o
<1>w. EdgeApply(b) => /\ Items' = Items /\ item' = item
                      /\ loc[b].at \in Items /\ item[loc[b].at].id = loc[b].n /\ loc[b].n \in Node
                      /\ hdr' = [hdr EXCEPT ![HeaderOf(loc[b].at)] = @ + 1]
                      /\ edges' = [edges EXCEPT ![loc[b].n] = @ + 1]
  <2> HAVE EdgeApply(b)
  <2>1. /\ loc[b].at \in Items /\ loc[b].slot = item[loc[b].at].slot /\ item[loc[b].at].id = loc[b].n
        /\ loc[b].n \in Node
    BY <1>t DEF EdgeApply, Locally, Mutating, Applying
  <2> QED BY <2>1 DEF EdgeApply, Items, HeaderOf
<1>v. VacuumPage(b) => /\ Items' = Items /\ edges' = edges
                       /\ \A h \in Addr : hdr'[h] = hdr[h] \/
                             (hdr'[h] = 0 /\ \E e \in Items : HeaderOf(e) = h /\ item'[e].lp = "dead")
  <2> HAVE VacuumPage(b)
  <2>1. Items' = Items /\ edges' = edges
    BY DEF VacuumPage, Items
  <2>2. ASSUME NEW d \in loc[b].dead
        PROVE  /\ d[1] \in Items /\ HeaderOf(d[1]) = <<d[1][1], d[2]>>
               /\ item'[d[1]].lp = "dead"
    <3>1. d[1] \in Items /\ d[2] = item[d[1]].slot
      BY <1>t DEF Locally
    <3>2. item'[d[1]] = [item[d[1]] EXCEPT !.lp = "dead"] /\ item[d[1]] \in Item
      BY <3>1, <1>t DEF VacuumPage, Items, StoreOK
    <3> QED BY <3>1, <3>2 DEF HeaderOf, Item
  <2>3. ASSUME NEW h \in Addr, hdr'[h] # hdr[h]
        PROVE  hdr'[h] = 0 /\ \E e \in Items : HeaderOf(e) = h /\ item'[e].lp = "dead"
    <3>1. hdr'[h] = 0 /\ \E d \in loc[b].dead : h = <<d[1][1], d[2]>>
      BY <2>3 DEF VacuumPage
    <3> QED BY <3>1, <2>2
  <2> QED BY <2>1, <2>3
<1>h. \A e \in Items : HeaderOf(e) \in Addr
  BY <1>t, <1>a, Constants DEF HeaderOf, StoreOK, Item
<1>3. \A h \in Addr : hdr'[h] # 0 => \E c \in Items' : HeaderOf(c)' = h
  <2>1. \A h \in Addr : hdr'[h] # 0 => hdr[h] # 0 \/ (EdgeApply(b) /\ h = HeaderOf(loc[b].at))
    BY HeaderCases, <1>w, <1>v, <1>t DEF StoreOK
  <2>2. \A h \in Addr : hdr'[h] # 0 => \E c \in Items : HeaderOf(c) = h
    BY <2>1, <1>w DEF Headers
  <2> QED BY <2>2, <1>o
<1>4. \A n \in Node : edges'[n] # 0 => \E c \in Items' : item'[c].id = n
  <2>1. \A n \in Node : edges'[n] # 0 => edges[n] # 0 \/ (EdgeApply(b) /\ n = loc[b].n)
    BY HeaderCases, <1>w, <1>v, <1>t DEF StoreOK
  <2>2. \A n \in Node : edges'[n] # 0 => \E c \in Items : item[c].id = n
    BY <2>1, <1>w DEF Headers
  <2> QED BY <2>2, <1>o
<1>5. ASSUME NEW a \in Items', Undisturbed(a)' PROVE hdr'[HeaderOf(a)'] = edges'[item'[a].id]
  <2>1. CASE ~EdgeApply(b) /\ ~VacuumPage(b) /\ a \in Items
    <3>1. hdr[HeaderOf(a)] = edges[item[a].id]
      BY <2>1, <1>5, <1>u DEF Headers
    <3> QED BY <2>1, <3>1, <1>o, HeaderCases
  <2>2. CASE ~EdgeApply(b) /\ ~VacuumPage(b) /\ a \notin Items
    <3>0. ~Moved(item[a].id)'
      BY <1>5 DEF Undisturbed
    <3>1. ASSUME NEW c \in Items, item[c].id = item'[a].id, item[c].slot = item'[a].slot
          PROVE  hdr[HeaderOf(a)'] = edges[item'[a].id]
      <4>1. c[1] = a[1]
        BY <3>0, <3>1, <1>o DEF Moved
      <4>2. HeaderOf(a)' = HeaderOf(c)
        BY <4>1, <3>1 DEF HeaderOf
      <4>3. Undisturbed(c)'
        BY <4>2, <3>1, <1>5, <1>o DEF Undisturbed
      <4>4. hdr[HeaderOf(c)] = edges[item[c].id]
        BY <4>3, <1>u DEF Headers
      <4> QED BY <4>2, <4>4, <3>1
    <3>2. ASSUME item'[a].slot = a[2], \A c \in Items : item[c].id # item'[a].id
          PROVE  hdr[HeaderOf(a)'] = edges[item'[a].id]
      <4>1. item'[a].id \in Node /\ edges[item'[a].id] = 0
        <5>1. item'[a].id \in Node
          BY <1>t DEF StoreOK, Item
        <5> QED BY <5>1, <3>2 DEF Headers
      <4>2. HeaderOf(a)' = a /\ a \in Addr
        BY <3>2, <1>a DEF HeaderOf
      <4>3. ASSUME hdr[a] # 0 PROVE FALSE
        <5>1. PICK c \in Items : HeaderOf(c) = a
          BY <4>2, <4>3 DEF Headers
        <5>2. ~Moved(item[c].id)'
          BY <5>1, <4>2, <1>5, <1>o DEF Undisturbed
        <5>3. PICK e \in Items : item[e].id = item[c].id /\ item[e].slot = e[2]
          BY DEF Headers
        <5>4. e[1] = c[1]
          BY <5>2, <5>3, <1>o DEF Moved
        <5>5. item[c].slot = e[2]
          BY <5>3 DEF Headers
        <5>6. e = a
          BY <5>1, <5>4, <5>5, <1>a, <1>o DEF HeaderOf
        <5> QED BY <5>6, <2>2
      <4> QED BY <4>1, <4>2, <4>3
    <3>3. hdr[HeaderOf(a)'] = edges[item'[a].id]
      BY <3>1, <3>2, <2>2, <1>n
    <3> QED BY <3>3, <2>2, HeaderCases
  <2>3. CASE EdgeApply(b)
    <3> DEFINE at == loc[b].at
    <3>1. /\ a \in Items /\ at \in Items /\ item[at].id = loc[b].n
          /\ item' = item /\ Undisturbed(a) /\ HeaderOf(a)' = HeaderOf(a)
      BY <2>3, <1>w, <1>5, <1>u DEF HeaderOf
    <3>2. HeaderOf(at) = HeaderOf(a) <=> item[at].id = item[a].id
      BY <3>1, Together
    <3>3. /\ hdr'[HeaderOf(a)] = IF HeaderOf(at) = HeaderOf(a) THEN hdr[HeaderOf(a)] + 1 ELSE hdr[HeaderOf(a)]
          /\ edges'[item[a].id] = IF loc[b].n = item[a].id THEN edges[item[a].id] + 1 ELSE edges[item[a].id]
      BY <2>3, <1>w, <1>h, <1>a, <1>t, <3>1 DEF StoreOK
    <3>4. hdr[HeaderOf(a)] = edges[item[a].id]
      BY <3>1 DEF Headers
    <3> QED BY <3>1, <3>2, <3>3, <3>4
  <2>4. CASE VacuumPage(b)
    <3>1. a \in Items /\ Undisturbed(a) /\ edges' = edges
      BY <2>4, <1>v, <1>5, <1>u
    <3>2. ASSUME hdr'[HeaderOf(a)] # hdr[HeaderOf(a)] PROVE FALSE
      <4>1. PICK e \in Items : HeaderOf(e) = HeaderOf(a) /\ item'[e].lp = "dead"
        BY <3>1, <3>2, <2>4, <1>v, <1>h
      <4>2. item[e].id = item[a].id
        BY <3>1, <4>1, Together
      <4> QED BY <4>1, <4>2, <3>1, <1>5, <1>o DEF Undisturbed
    <3>3. hdr[HeaderOf(a)] = edges[item[a].id]
      BY <3>1 DEF Headers
    <3> QED BY <3>1, <3>2, <3>3, <1>o
  <2> QED BY <2>1, <2>2, <2>3, <2>4
<1> QED BY <1>1, <1>2, <1>3, <1>4, <1>5 DEF Headers

\* Updates of a node on its page, edges recorded through any of its versions and
\* VACUUM of other nodes do not disturb its header: as long as no version of it
\* has been vacuumed, and neither it nor a node that names its header has moved to
\* another page, the header of a live node holds its edges.
THEOREM HeadersIntact == Spec => []HeaderIntact
<1> DEFINE Inv == Ids /\ Headers
<1>1. Init => Inv
  <2>1. Init => Headers
    BY NoItems DEF Init, Headers
  <2> QED BY <2>1, IdsInit
<1>2. Inv /\ [Next]_vars => Inv'
  <2> SUFFICES ASSUME Inv, [Next]_vars PROVE Inv'
    OBVIOUS
  <2>1. ASSUME NEW b \in Backend, Step(b) PROVE Headers'
    BY <2>1, HeadersStep
  <2>2. CASE UNCHANGED vars
    <3>1. Items' = Items
      BY <2>2 DEF vars, store, Items
    <3> QED BY <3>1, <2>2, IdsStep DEF vars, store, Headers, Undisturbed, HeaderOf, Moved
  <2> QED BY <2>1, <2>2, IdsStep DEF Next
<1>3. Inv => HeaderIntact
  BY DEF HeaderIntact, Headers, Live
<1> QED BY <1>1, <1>2, <1>3, PTL DEF Spec

-----------------------------------------------------------------------------
(* Versions                                                                *)

\* An update deletes the version it has found.
LEMMA OldDeleted ==
    ASSUME Structure, NEW b \in Backend, Step(b), pc[b] = "update"
    PROVE  item'[loc[b].at].xmax # 0 \/ UNCHANGED store
<1>t. StoreOK /\ Locally(b) /\ xid[b] \in Xid /\ loc[b].at \in Items
  BY TypeParts DEF Structure, Locally, Mutating, Applying
<1>i. loc[b].at \in Addr /\ item \in [Addr -> Item \cup {NoItem}] /\ item[loc[b].at] \in Item /\ xid[b] # 0
  BY <1>t DEF StoreOK, Items, Xid
<1>1. CASE UpdateCrossPage(b)
  BY <1>1, <1>i DEF UpdateCrossPage, Item
<1>2. CASE UpdateSamePage(b)
  <2> DEFINE at == loc[b].at
             a == <<at[1], used[at[1]] + 1>>
             v == Version(b, a, 0)
  <2>1. item' = [item EXCEPT ![at].xmax = xid[b], ![a] = v] /\ HasSpace(at[1])
    BY <1>2 DEF UpdateSamePage
  <2>2. a # at
    <3>1. at[2] <= used[at[1]] /\ at[2] \in Nat /\ used[at[1]] \in Nat
      BY <1>t, Constants DEF Items, StoreOK, Slot
    <3> QED BY <3>1
  <2> HIDE DEF v, a
  <2> QED BY <2>1, <2>2, <1>i DEF Item
<1>3. ~(\/ \E task \in {"insert", "insertbig"} : InsertBegin(b, task)
        \/ PlaceHere(b) \/ PlaceNew(b) \/ DeleteApply(b) \/ EdgeApply(b) \/ VacuumPage(b))
  BY DEF InsertBegin, Start, PlaceHere, PlaceNew, DeleteApply, EdgeApply, VacuumPage
<1> QED BY <1>1, <1>2, <1>3, StoreCases

\* What was replaced is an item with a deleter.
LEMMA ReplacedStep ==
    ASSUME Structure, \A a \in replaced : a \in Items /\ item[a].xmax # 0, NEW b \in Backend, Step(b)
    PROVE  \A a \in replaced' : a \in Items /\ a \in Items' /\ item'[a].xmax # 0
<1>t. Kept(b) /\ Locally(b)
  BY StoreStep DEF Structure
<1>1. \A a \in replaced : a \in Items /\ a \in Items' /\ item'[a].xmax # 0
  BY <1>t DEF Kept
<1>2. CASE UpdateSamePage(b) \/ UpdateCrossPage(b)
  <2>1. pc[b] = "update" /\ Replaces(b)
    BY <1>2 DEF UpdateSamePage, UpdateCrossPage
  <2>2. loc[b].at \in Items /\ loc[b].at \in Items'
    BY <2>1, <1>t DEF Locally, Applying, Kept
  <2>3. item'[loc[b].at].xmax # 0
    <3>1. CASE UNCHANGED store
      <4>1. loc[b].at \in replaced
        BY <3>1, <2>1 DEF store, Replaces
      <4> QED BY <4>1, <1>1
    <3> QED BY <3>1, <2>1, OldDeleted
  <2> QED BY <1>1, <2>1, <2>2, <2>3 DEF Replaces
<1>3. CASE replaced' = replaced
  BY <1>3, <1>1
<1> QED BY <1>2, <1>3, ReplaceStep

\* A node of which no version was replaced twice keeps having one tip at most.
LEMMA TipsStep ==
    ASSUME Ids, Tips, NEW b \in Backend, Step(b)
    PROVE  Tips'
<1>t. Structure /\ Fresh /\ ControlOK /\ Kept(b) /\ HistoryOK /\ \A c \in Backend : Locally(c) /\ AtHand(c)
  BY TypeParts, StoreStep DEF Ids, Structure
<1>o. \A c \in Backend \ {b} : pc'[c] = pc[c] /\ loc'[c] = loc[c]
  BY OthersStep, <1>t
<1>k. \A a \in Items : a \in Items' /\ item'[a].id = item[a].id
  BY <1>t DEF Kept
<1>e. \A e, f \in Items' : e \notin Items /\ f \notin Items => e = f
  BY <1>t DEF Kept
<1>1. \A a \in replaced' : a \in Items /\ a \in Items' /\ item'[a].xmax # 0
  BY <1>t, ReplacedStep DEF Tips
<1>r. replaced \subseteq replaced' /\ forked \subseteq forked'
  BY ReplaceStep DEF Replaces
<1>v. \A c \in Backend : NewVersion(c)' =>
         /\ loc'[c].n = loc[c].n
         /\ NewVersion(c) \/ (c = b /\ UpdateCrossPage(b))
  <2> SUFFICES ASSUME NEW c \in Backend, NewVersion(c)'
               PROVE  loc'[c].n = loc[c].n /\ (NewVersion(c) \/ (c = b /\ UpdateCrossPage(b)))
    OBVIOUS
  <2>1. CASE c # b
    BY <2>1, <1>o DEF NewVersion
  <2>2. CASE c = b
    BY <2>2, <1>t, AtHandKept
  <2> QED BY <2>1, <2>2
<1> SUFFICES ASSUME NEW n \in Node, n \notin forked'
             PROVE  /\ \A a, c \in Items' : Tip(a, n)' /\ Tip(c, n)' => a = c
                    /\ \A d \in Backend : NewVersion(d)' /\ loc'[d].n = n => \A a \in Items' : ~Tip(a, n)'
                    /\ \A d, e \in Backend :
                          NewVersion(d)' /\ NewVersion(e)' /\ loc'[d].n = n /\ loc'[e].n = n => d = e
  BY <1>1 DEF Tips
<1>n. /\ n \notin forked
      /\ \A a, c \in Items : Tip(a, n) /\ Tip(c, n) => a = c
      /\ \A d \in Backend : NewVersion(d) /\ loc[d].n = n => \A a \in Items : ~Tip(a, n)
      /\ \A d, e \in Backend : NewVersion(d) /\ NewVersion(e) /\ loc[d].n = n /\ loc[e].n = n => d = e
  BY <1>r DEF Tips
<1>p. \A a \in Items : Tip(a, n)' => Tip(a, n)
  BY <1>k, <1>r DEF Tip
\* An update that replaces now finds the tip.
<1>u. ASSUME pc[b] = "update", Replaces(b), loc[b].n = n
      PROVE  /\ Tip(loc[b].at, n) /\ \A a \in Items : ~Tip(a, n)'
             /\ \A d \in Backend : ~(NewVersion(d) /\ loc[d].n = n)
  <2>1. loc[b].at \in Items /\ item[loc[b].at].id = n
    BY <1>u, <1>t DEF Locally, Applying
  <2>2. loc[b].at \notin replaced /\ loc[b].at \in replaced'
    BY <1>u, <1>n DEF Replaces
  <2>3. Tip(loc[b].at, n)
    BY <2>1, <2>2 DEF Tip
  <2>4. \A a \in Items : ~Tip(a, n)'
    BY <2>2, <2>3, <1>p, <1>n DEF Tip
  <2> QED BY <2>1, <2>3, <2>4, <1>n
\* A new item of the node: nothing else of it is a tip, no update is under way.
<1>w. ASSUME NEW a \in Items', a \notin Items, item'[a].id = n
      PROVE  /\ \A c \in Items : ~Tip(c, n)'
             /\ \A d \in Backend : ~(NewVersion(d)' /\ loc'[d].n = n)
  <2>1. loc[b].n = n /\ pc'[b] = "idle"
    BY <1>w, <1>t, NewItems DEF Kept
  <2>2. ~NewVersion(b)'
    BY <2>1 DEF NewVersion, Placing
  <2>3. CASE NewNode(b)
    <3>1. \A c \in Items : item[c].id # n
      BY <2>3, <2>1, <1>t DEF Fresh
    <3>2. \A d \in Backend : NewVersion(d) => loc[d].n # n
      BY <3>1, <1>t DEF AtHand
    <3> QED BY <3>1, <3>2, <2>2, <1>p, <1>v DEF Tip
  <2>4. CASE NewVersion(b)
    <3>1. \A c \in Items : ~Tip(c, n)
      BY <2>4, <2>1, <1>n
    <3>2. \A d \in Backend : NewVersion(d) /\ loc[d].n = n => d = b
      BY <2>4, <2>1, <1>n
    <3> QED BY <3>1, <3>2, <2>2, <1>p, <1>v
  <2>5. CASE pc[b] = "update"
    <3>1. Replaces(b)
      <4>1. ~UNCHANGED store
        BY <1>w DEF store, Items
      <4>2. ~(\/ \E task \in {"insert", "insertbig"} : InsertBegin(b, task)
              \/ PlaceHere(b) \/ PlaceNew(b) \/ DeleteApply(b) \/ EdgeApply(b) \/ VacuumPage(b))
        BY <2>5 DEF InsertBegin, Start, PlaceHere, PlaceNew, DeleteApply, EdgeApply, VacuumPage
      <4>3. UpdateSamePage(b) \/ UpdateCrossPage(b)
        BY <4>1, <4>2, StoreCases
      <4> QED BY <4>3 DEF UpdateSamePage, UpdateCrossPage
    <3>2. \A c \in Items : ~Tip(c, n)'
      BY <3>1, <2>5, <2>1, <1>u
    <3>3. \A d \in Backend : ~(NewVersion(d) /\ loc[d].n = n)
      BY <3>1, <2>5, <2>1, <1>u
    <3> QED BY <3>2, <3>3, <2>2, <1>v
  <2> QED BY <2>3, <2>4, <2>5, <1>w, <1>t, NewItems
<1>2. \A a, c \in Items' : Tip(a, n)' /\ Tip(c, n)' => a = c
  <2> SUFFICES ASSUME NEW a \in Items', NEW c \in Items', Tip(a, n)', Tip(c, n)' PROVE a = c
    OBVIOUS
  <2>0. item'[a].id = n /\ item'[c].id = n
    BY DEF Tip
  <2>1. CASE a \in Items /\ c \in Items
    BY <2>1, <1>p, <1>n
  <2>2. CASE a \notin Items \/ c \notin Items
    BY <2>0, <2>2, <1>w, <1>e
  <2> QED BY <2>1, <2>2
<1>x. ASSUME UpdateCrossPage(b), loc[b].n = n
      PROVE  /\ \A a \in Items' : ~Tip(a, n)'
             /\ \A d \in Backend : ~(NewVersion(d) /\ loc[d].n = n)
  <2>1. pc[b] = "update" /\ Replaces(b) /\ Items' = Items
    BY <1>x DEF UpdateCrossPage, Items
  <2> QED BY <2>1, <1>x, <1>u
<1>3. \A d \in Backend : NewVersion(d)' /\ loc'[d].n = n => \A a \in Items' : ~Tip(a, n)'
  <2> SUFFICES ASSUME NEW d \in Backend, NewVersion(d)', loc'[d].n = n, NEW a \in Items', Tip(a, n)'
               PROVE  FALSE
    OBVIOUS
  <2>1. a \in Items
    BY <1>w DEF Tip
  <2>2. CASE NewVersion(d) /\ loc[d].n = n
    BY <2>1, <2>2, <1>n, <1>p
  <2>3. CASE UpdateCrossPage(b) /\ loc[b].n = n
    BY <2>3, <1>x
  <2> QED BY <2>2, <2>3, <1>v
<1>4. \A d, e \in Backend :
         NewVersion(d)' /\ NewVersion(e)' /\ loc'[d].n = n /\ loc'[e].n = n => d = e
  <2> SUFFICES ASSUME NEW d \in Backend, NEW e \in Backend, NewVersion(d)', NewVersion(e)',
                      loc'[d].n = n, loc'[e].n = n
               PROVE  d = e
    OBVIOUS
  <2> QED BY <1>v, <1>x, <1>n
<1> QED BY <1>2, <1>3, <1>4

\* A scan keeps having one version of each node.
LEMMA OnceStep ==
    ASSUME Structure, Txns, Tips, NEW b \in Backend, Step(b), NEW c \in Backend, Once(c)
    PROVE  Once(c)'
<1>t. /\ pc \in [Backend -> Control] /\ loc \in [Backend -> Locals] /\ loc[b] \in Locals
  BY TypeParts DEF Structure, ControlOK
<1>k. Kept(b)
  BY StoreStep
<1>f. forked \subseteq forked'
  BY ReplaceStep DEF Replaces
<1> SUFFICES ASSUME pc'[c] = "scan" PROVE Once(c)'
  BY DEF Once
<1>1. CASE c # b
  <2>1. pc[c] = "scan" /\ loc'[c] = loc[c]
    BY <1>1, OthersStep
  <2>2. /\ \A a \in Items : Shown(c, snap[c], item[a].xmin) => Shown(c, snap[c], item[a].xmin)'
        /\ \A a \in Items' : Visible(c, a)' => a \in Items /\ Visible(c, a)
    BY <2>1, ShownStep
  <2>3. \A a \in Items : a \in Items' /\ item'[a].id = item[a].id
    BY <1>k DEF Kept
  <2>4. \A a \in loc[c].got : a \in Items /\ Shown(c, snap[c], item[a].xmin)
    BY <2>1 DEF Once
  <2>5. \A a \in loc[c].got, e \in Items :
           (e \in loc[c].got \/ Visible(c, e)) /\ item[a].id = item[e].id => a = e \/ item[a].id \in forked
    BY <2>1 DEF Once
  <2>6. \A a \in loc[c].got, e \in Items' :
           (e \in loc[c].got \/ Visible(c, e)') /\ item'[a].id = item'[e].id => a = e \/ item'[a].id \in forked'
    BY <2>2, <2>3, <2>4, <2>5, <1>f
  <2> QED BY <2>1, <2>2, <2>3, <2>4, <2>6 DEF Once
<1>2. CASE c = b /\ ScanBegin(b)
  <2>1. loc'[b].got = {}
    <3> DEFINE l == [NoLocals EXCEPT !.pg = 1, !.lim = nblocks]
    <3>1. loc' = [loc EXCEPT ![b] = l] /\ l.got = {}
      BY <1>2 DEF ScanBegin, NoLocals
    <3> HIDE DEF l
    <3> QED BY <3>1, <1>t
  <2> QED BY <1>2, <2>1 DEF Once
<1>3. CASE c = b /\ pc[b] = "scan" /\ ScanNext(b)
  <2>0. UNCHANGED <<store, txns>> /\ Items' = Items /\ forked' = forked
    BY <1>3 DEF ScanNext, store, Items
  <2>1. \A a : /\ Visible(b, a)' <=> Visible(b, a)
               /\ Shown(b, snap[b], item[a].xmin)' <=> Shown(b, snap[b], item[a].xmin)
               /\ item'[a].id = item[a].id
    BY <2>0 DEF store, txns, Shown, Visible, XminVisible, InSnapshot
  <2>4. \A a \in loc[b].got : a \in Items /\ Shown(b, snap[b], item[a].xmin)
    BY <1>3 DEF Once
  <2>5. \A a \in loc[b].got, e \in Items :
           (e \in loc[b].got \/ Visible(b, e)) /\ item[a].id = item[e].id => a = e \/ item[a].id \in forked
    BY <1>3 DEF Once
  <2>6. ASSUME NEW s \in Items, Visible(b, s), loc'[b].got = loc[b].got \cup {s}
        PROVE  Once(b)'
    <3>1. \A e \in Items : Visible(b, e) /\ item[s].id = item[e].id => s = e \/ item[s].id \in forked
      <4> SUFFICES ASSUME NEW e \in Items, Visible(b, e), item[s].id = item[e].id, item[s].id \notin forked
                   PROVE  s = e
        OBVIOUS
      <4>1. s \notin replaced /\ e \notin replaced
        BY <2>6 DEF Tips, Visible
      <4>2. item[s].id \in Node
        BY TypeParts DEF Structure, StoreOK, Item
      <4>3. Tip(s, item[s].id) /\ Tip(e, item[s].id)
        BY <4>1 DEF Tip
      <4> QED BY <4>2, <4>3 DEF Tips
    <3>2. \A a \in loc[b].got \cup {s}, e \in Items :
             (e \in loc[b].got \cup {s} \/ Visible(b, e)) /\ item[a].id = item[e].id => a = e \/ item[a].id \in forked
      BY <2>4, <2>5, <2>6, <3>1
    <3>3. \A a \in loc[b].got \cup {s} : a \in Items /\ Shown(b, snap[b], item[a].xmin)
      BY <2>4, <2>6 DEF Visible, XminVisible
    <3> QED BY <2>0, <2>1, <2>6, <3>2, <3>3 DEF Once
  <2>7. ASSUME loc'[b].got = loc[b].got PROVE Once(b)'
    BY <2>0, <2>1, <2>4, <2>5, <2>7 DEF Once
  <2>8. \A s : loc' = [loc EXCEPT ![b] = AfterRecord(b, s)] => loc'[b].got = loc[b].got \cup {s}
    BY <1>t DEF AfterRecord, Locals
  <2>9. loc' = [loc EXCEPT ![b].pg = @ + 1, ![b].off = 1] => loc'[b].got = loc[b].got
    BY <1>t DEF Locals
  <2>10. \/ \E s \in Items : Visible(b, s) /\ loc' = [loc EXCEPT ![b] = AfterRecord(b, s)]
         \/ loc' = [loc EXCEPT ![b].pg = @ + 1, ![b].off = 1]
    BY <1>3 DEF ScanNext, OnPage
  <2> QED BY <1>3, <2>6, <2>7, <2>8, <2>9, <2>10
<1> QED BY <1>1, <1>2, <1>3, ScanCases

\* Whatever updates, inserts, deletes and VACUUM do while it is under way, no
\* scan returns two versions of a node, unless two updates have replaced the same
\* version of it.
THEOREM ScansOnce == Spec => []ScanOnce
<1> DEFINE Inv == Ids /\ Txns /\ Tips /\ \A b \in Backend : Once(b)
<1>1. Init => Inv
  <2>1. Init => Tips /\ \A b \in Backend : Once(b)
    BY NoItems DEF Init, Tips, Once, NewVersion, Placing
  <2> QED BY <2>1, IdsInit, XidsInit
<1>2. Inv /\ [Next]_vars => Inv'
  <2> SUFFICES ASSUME Inv, [Next]_vars PROVE Inv'
    OBVIOUS
  <2>1. Ids' /\ Txns'
    BY IdsStep, TxnsStep DEF Ids
  <2>2. ASSUME NEW b \in Backend, Step(b) PROVE Tips' /\ \A c \in Backend : Once(c)'
    BY <2>2, TipsStep, OnceStep DEF Ids
  <2>3. CASE UNCHANGED vars
    <3>1. Items' = Items
      BY <2>3 DEF vars, store, Items
    <3>2. Tips'
      BY <3>1, <2>3 DEF vars, store, Tips, Tip, NewVersion
    <3>3. \A c \in Backend : Once(c)'
      BY <3>1, <2>3 DEF vars, store, txns, Once, Visible, XminVisible, Shown, InSnapshot
    <3> QED BY <2>1, <3>2, <3>3
  <2> QED BY <2>1, <2>2, <2>3 DEF Next
<1>3. Inv => ScanOnce
  <2> SUFFICES ASSUME Inv, NEW b \in Backend, ScanDone(b), NEW a \in loc[b].got, NEW c \in loc[b].got,
                      item[a].id = item[c].id
               PROVE  a = c \/ item[a].id \in forked
    BY DEF ScanOnce
  <2>1. Once(b) /\ pc[b] = "scan"
    BY DEF ScanDone
  <2>2. c \in Items
    BY <2>1 DEF Once
  <2> QED BY <2>1, <2>2 DEF Once
<1> QED BY <1>1, <1>2, <1>3, PTL DEF Spec
=============================================================================
