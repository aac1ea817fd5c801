--------------------------- MODULE EdgeStoreProofs ---------------------------
(***************************************************************************)
(* Proofs about EdgeStore, for any number of backends, nodes, edges, pages *)
(* and transactions.                                                       *)
(***************************************************************************)
EXTENDS EdgeStore, FiniteSetTheorems, TLAPS

\* The states of insert_edge, and those in which it has both node pages locked.
Inserting == {"lock1", "lock2", "findpage", "locklast", "extend", "extending",
              "locknew", "apply"}
BothLocked == Inserting \ {"lock1", "lock2"}

\* What an insert in a given state holds of the node pages, and who holds one.
NodeLocks(b) ==
    /\ pc[b] \in Inserting => loc[b].src \in Node /\ loc[b].tgt \in Node /\ loc[b].e \in Edge
    /\ pc[b] = "lock2" => LockSeq(b)[1] < LockSeq(b)[2] /\ nlock[LockSeq(b)[1]] = b
    /\ pc[b] \in BothLocked => nlock[Blk[loc[b].src]] = b /\ nlock[Blk[loc[b].tgt]] = b
    /\ \A k \in NodeBlk : nlock[k] = b =>
        \/ pc[b] = "lock2" /\ k = LockSeq(b)[1]
        \/ pc[b] \in BothLocked

\* The same for the edge pages.
EdgeLocks(b) ==
    /\ pc[b] = "apply" => loc[b].pg \in Page /\ elock[loc[b].pg] = b
    /\ \A p \in Page : elock[p] = b => pc[b] = "apply" /\ loc[b].pg = p
    /\ \A p \in Page : b \in eshare[p] => pc[b] = "onpage" /\ loc[b].cur[1] = p
    /\ pc[b] = "onpage" => loc[b].cur \in Addr

\* A busy backend is in a transaction.
InTxn(b) == pc[b] # "idle" => xid[b] \in Xid

\* The page an insert works on exists, and has room once it is locked.
PageOf(b) ==
    /\ pc[b] \in {"locklast", "extending", "locknew", "apply"} => loc[b].pg \in Page
    /\ pc[b] = "apply" => used[loc[b].pg] < PageCap

\* Slots in use hold items.
Content == \A a \in Items : item[a] \in Item

\* As long as no block was handed out twice: the page an insert works on is in the
\* relation, or is at most its next page, and nobody else initialises it.
Placed(b) ==
    /\ pc[b] \in {"locklast", "locknew", "apply"} => loc[b].pg <= nblocks
    /\ pc[b] = "extending" => loc[b].pg <= nblocks + 1
    /\ pc[b] = "locknew" => used[loc[b].pg] = Zeroed
Alone(b, c) ==
    pc[b] = "locknew" /\ pc[c] = "locknew" /\ loc[b].pg = loc[c].pg => b = c
Pages ==
    /\ \A p \in Page : p <= nblocks <=> used[p] # Absent
    /\ \A b \in Backend : Placed(b)
    /\ \A b, c \in Backend : Alone(b, c)

\* Under the node locks the copies of the headers stay what the pages hold, and the
\* page chosen comes after every edge of the two chains.
Heads(b) ==
    pc[b] \in BothLocked =>
        loc[b].srcAdj = hdr[loc[b].src] /\ loc[b].tgtAdj = hdr[loc[b].tgt]
Position(b) ==
    pc[b] \in {"locklast", "locknew", "apply"} =>
        \A a \in Items : item[a].src = loc[b].src \/ item[a].tgt = loc[b].tgt => a[1] <= loc[b].pg

\* The inductive invariants: what locks and control state guarantee in any case,
\* and what makes the chains exact until a block is handed out twice.
Local(b) == NodeLocks(b) /\ EdgeLocks(b) /\ InTxn(b) /\ PageOf(b)
Structure == TypeOK /\ Content /\ \A b \in Backend : Local(b)
IInv ==
    /\ twice = {}
    /\ Structure /\ Pages /\ (\A b \in Backend : Heads(b) /\ Position(b)) /\ Chains
Inv == Structure /\ (twice = {} => IInv)
-----------------------------------------------------------------------------

USE EdgeStoreAssumption

\* What follows from the assumption on the constants alone.
LEMMA Constants ==
    /\ Null \in Ptr /\ Addr \subseteq Ptr /\ Null \notin Addr
    /\ EmptyHeader \in Header
    /\ NoLocals \in Locals
    /\ Absent \in Nat /\ Zeroed \in Nat /\ Zeroed # Absent /\ PageCap < Zeroed /\ PageCap < Absent
    /\ \A n \in Node : Blk[n] \in NodeBlk /\ Blk[n] \in Nat
    /\ \A k \in NodeBlk : k \in Nat
    /\ \A i \in Item : i # NoItem
<1>1. Null \in Ptr /\ Addr \subseteq Ptr /\ Null \notin Addr
  BY DEF Null, Ptr, Addr, Page, Slot
<1>2. EmptyHeader \in Header
  BY <1>1 DEF EmptyHeader, Header
<1>3. NoLocals \in Locals
  BY <1>1, <1>2 DEF NoLocals, Locals
<1>4. /\ Absent \in Nat /\ Zeroed \in Nat /\ Zeroed # Absent
      /\ PageCap < Zeroed /\ PageCap < Absent
  BY DEF Absent, Zeroed
<1>5. /\ \A n \in Node : Blk[n] \in NodeBlk /\ Blk[n] \in Nat
      /\ \A k \in NodeBlk : k \in Nat
  BY DEF NodeBlk
<1>6. \A i \in Item : i # NoItem
  BY DEF Item, NoItem, Edge
<1> QED BY <1>1, <1>2, <1>3, <1>4, <1>5, <1>6

\* An empty edge relation with all locks free satisfies the invariant.
LEMMA InitInv == Init => IInv
<1> SUFFICES ASSUME Init PROVE IInv
  OBVIOUS
<1> USE Constants DEF Init
<1>1. TypeOK
  BY DEF TypeOK, StoreOK, LocksOK, TxnsOK, ControlOK, Control, Xid
<1>2. Items = {}
  BY DEF Items, Addr, Page, Slot
<1>3. \A b \in Backend : Local(b) /\ Heads(b) /\ Position(b) /\ Placed(b)
  BY <1>2 DEF Local, NodeLocks, EdgeLocks, InTxn, PageOf, Placed, Heads, Position, Inserting, BothLocked
<1>4. Pages
  BY <1>3 DEF Pages, Alone, Page
<1>5. Chains
  BY <1>2 DEF Chains, OutItems, InItems, LastOf, EmptyHeader
<1> QED BY <1>1, <1>2, <1>3, <1>4, <1>5 DEF IInv, Structure, Content

\* A group of variables that does not change keeps its types.
LEMMA Unchanged ==
    /\ StoreOK /\ UNCHANGED store => StoreOK'
    /\ LocksOK /\ UNCHANGED locks => LocksOK'
    /\ TxnsOK /\ UNCHANGED txns => TxnsOK'
    /\ ControlOK /\ UNCHANGED <<pc, loc>> => ControlOK'
BY DEF StoreOK, LocksOK, TxnsOK, ControlOK, store, locks, txns

\* The control state of one backend changes.
LEMMA ControlStep ==
    ASSUME ControlOK, NEW b \in Backend, NEW l \in Locals, NEW c \in Control,
           pc' = pc \/ pc' = [pc EXCEPT ![b] = c],
           loc' = loc \/ loc' = [loc EXCEPT ![b] = l]
    PROVE  ControlOK'
BY DEF ControlOK

\* An operation that ends in ereport(ERROR) keeps every variable in its type.
LEMMA ErrorType == ASSUME TypeOK, NEW b \in Backend, xid[b] # 0, Error(b) PROVE TypeOK'
<1>1. StoreOK'
  BY Unchanged DEF TypeOK, Error
<1>2. LocksOK'
  BY DEF TypeOK, LocksOK, Error
<1>3. TxnsOK'
  BY DEF TypeOK, TxnsOK, Error, Xid
<1>4. ControlOK'
  BY ControlStep, Constants DEF TypeOK, Error, Control
<1> QED BY <1>1, <1>2, <1>3, <1>4 DEF TypeOK

\* Type correctness is preserved by every step.
LEMMA TypeStep == Structure /\ [Next]_vars => TypeOK'
<1> SUFFICES ASSUME Structure, [Next]_vars PROVE TypeOK'
  OBVIOUS
<1>s. TypeOK /\ Content /\ \A b \in Backend : NodeLocks(b) /\ EdgeLocks(b) /\ InTxn(b) /\ PageOf(b)
  BY DEF Structure, Local
<1>t. StoreOK /\ LocksOK /\ TxnsOK /\ ControlOK
  BY <1>s DEF TypeOK
<1>q. StoreOK' /\ LocksOK' /\ TxnsOK' /\ ControlOK' => TypeOK'
  BY DEF TypeOK
<1>a. \A b \in Backend : loc[b] \in Locals /\ pc[b] \in Control /\ (pc[b] # "idle" => xid[b] # 0)
  BY <1>s, <1>t DEF ControlOK, InTxn, Xid
<1>b. \A a \in Items : a \in Addr /\ item[a] \in Item
  BY <1>s DEF Content, Items
<1>1. ASSUME NEW b \in Backend, BeginTxn(b) \/ CommitTxn(b) \/ AbortTxn(b)
      PROVE TypeOK'
  <2>1. StoreOK' /\ LocksOK' /\ ControlOK'
    BY <1>1, <1>t, Unchanged DEF BeginTxn, CommitTxn, AbortTxn, EndTxn
  <2>2. TxnsOK'
    <3>1. PICK x \in Xid, st \in {"active", "committed", "aborted"}, y \in 0..MaxXid :
            xstat' = [xstat EXCEPT ![x] = st] /\ xid' = [xid EXCEPT ![b] = y]
      <4>1. CASE BeginTxn(b)
        <5>1. PICK x \in Xid :
                xstat' = [xstat EXCEPT ![x] = "active"] /\ xid' = [xid EXCEPT ![b] = x]
          BY <4>1 DEF BeginTxn
        <5>2. x \in 0..MaxXid
          BY DEF Xid
        <5> QED BY <5>1, <5>2
      <4>2. CASE CommitTxn(b) \/ AbortTxn(b)
        <5>1. xid[b] \in Xid /\ 0 \in 0..MaxXid
          BY <4>2, <1>t DEF CommitTxn, AbortTxn, EndTxn, TxnsOK, Xid
        <5> QED BY <5>1, <4>2 DEF CommitTxn, AbortTxn, EndTxn
      <4> QED BY <1>1, <4>1, <4>2
    <3> QED BY <3>1, <1>t DEF TxnsOK
  <2> QED BY <2>1, <2>2, <1>q
<1>2. ASSUME NEW b \in Backend, NEW s \in Node, NEW t \in Node, InsertFind(b, s, t)
      PROVE TypeOK'
  <2>0. xid[b] # 0 /\ lastId < MaxEdge
    BY <1>2 DEF InsertFind, Start
  <2>1. CASE Error(b)
    BY <2>0, <2>1, <1>s, ErrorType
  <2>2. CASE ~Error(b)
    <3> DEFINE l == [NoLocals EXCEPT !.e = lastId + 1, !.src = s, !.tgt = t]
    <3>0. lastId + 1 \in 0..MaxEdge
      BY <2>0, <1>t DEF StoreOK
    <3>1. l \in Locals
      BY <3>0, Constants DEF Locals, NoLocals
    <3>2. StoreOK'
      BY <1>2, <2>2, <1>t, <3>0 DEF InsertFind, StoreOK
    <3>3. LocksOK' /\ TxnsOK'
      BY <1>2, <2>2, <1>t, Unchanged DEF InsertFind
    <3>4. ControlOK'
      <4>1. pc' = [pc EXCEPT ![b] = "lock1"] /\ loc' = [loc EXCEPT ![b] = l]
        BY <1>2, <2>2 DEF InsertFind
      <4> HIDE DEF l
      <4> QED BY <3>1, <4>1, <1>t, ControlStep DEF Control
    <3> QED BY <3>2, <3>3, <3>4, <1>q
  <2> QED BY <2>1, <2>2
<1>3. ASSUME NEW b \in Backend, pc[b] \in Inserting
      PROVE /\ [loc[b] EXCEPT !.srcAdj = hdr[loc[b].src], !.tgtAdj = hdr[loc[b].tgt]] \in Locals
            /\ LockSeq(b)[1] \in NodeBlk /\ LockSeq(b)[2] \in NodeBlk
  <2>1. loc[b].src \in Node /\ loc[b].tgt \in Node /\ loc[b] \in Locals
    BY <1>3, <1>s, <1>a DEF NodeLocks
  <2>2. hdr[loc[b].src] \in Header /\ hdr[loc[b].tgt] \in Header
    BY <2>1, <1>t DEF StoreOK
  <2>3. LockSeq(b)[1] \in NodeBlk /\ LockSeq(b)[2] \in NodeBlk
    BY <2>1, Constants DEF LockSeq
  <2> QED BY <2>1, <2>2, <2>3 DEF Locals
<1>4. ASSUME NEW b \in Backend, LockFirst(b) \/ LockSecond(b)
      PROVE TypeOK'
  <2>0. pc[b] \in Inserting
    BY <1>4 DEF LockFirst, LockSecond, Inserting
  <2> DEFINE l == [loc[b] EXCEPT !.srcAdj = hdr[loc[b].src], !.tgtAdj = hdr[loc[b].tgt]]
  <2>1. StoreOK' /\ TxnsOK'
    BY <1>4, <1>t, Unchanged DEF LockFirst, LockSecond
  <2>2. LocksOK'
    BY <1>4, <1>3, <2>0, <1>t DEF LockFirst, LockSecond, LocksOK
  <2>3. \E c \in Control : pc' = [pc EXCEPT ![b] = c]
    BY <1>4 DEF LockFirst, LockSecond, Control
  <2>4. loc' = loc \/ loc' = [loc EXCEPT ![b] = l]
    BY <1>4, <1>t DEF LockFirst, LockSecond, ReadHeaders, ControlOK
  <2>5. l \in Locals
    BY <1>3, <2>0
  <2>6. ControlOK'
    <3> HIDE DEF l
    <3> QED BY <2>3, <2>4, <2>5, <1>t, ControlStep
  <2> QED BY <2>1, <2>2, <2>6, <1>q
<1>5. ASSUME NEW b \in Backend, FindLastPage(b) \/ ExtendBegin(b)
      PROVE TypeOK'
  <2>1. StoreOK' /\ LocksOK' /\ TxnsOK'
    BY <1>5, <1>t, Unchanged DEF FindLastPage, ExtendBegin
  <2>2. \E c \in Control : pc' = [pc EXCEPT ![b] = c]
    BY <1>5 DEF FindLastPage, ExtendBegin, Control
  <2>3. PICK q \in 0..(MaxPages + 1) : loc' = loc \/ loc' = [loc EXCEPT ![b] = [loc[b] EXCEPT !.pg = q]]
    BY <1>5, <1>t DEF FindLastPage, ExtendBegin, StoreOK, ControlOK
  <2> DEFINE l == [loc[b] EXCEPT !.pg = q]
  <2>4. l \in Locals
    BY <1>a DEF Locals
  <2>5. ControlOK'
    <3>1. loc' = loc \/ loc' = [loc EXCEPT ![b] = l]
      BY <2>3
    <3> HIDE DEF l
    <3> QED BY <2>2, <2>4, <3>1, <1>t, ControlStep
  <2> QED BY <2>1, <2>5, <1>q
<1>6. ASSUME NEW b \in Backend, LockLastPage(b)
      PROVE TypeOK'
  <2>1. StoreOK' /\ TxnsOK'
    BY <1>6, <1>t, Unchanged DEF LockLastPage
  <2>2. LocksOK'
    BY <1>6, <1>t DEF LockLastPage, LocksOK
  <2>3. ControlOK'
    BY <1>6, <1>t, <1>a, ControlStep DEF LockLastPage, Control
  <2> QED BY <2>1, <2>2, <2>3, <1>q
<1>7. ASSUME NEW b \in Backend, ExtendEnd(b)
      PROVE TypeOK'
  <2>0. xid[b] # 0 /\ pc[b] = "extending" /\ loc[b].pg \in Page
    BY <1>7, <1>a, <1>s DEF ExtendEnd, PageOf
  <2>1. CASE Error(b)
    BY <2>0, <2>1, <1>s, ErrorType
  <2>2. CASE ~Error(b)
    <3>1. StoreOK'
      <4>1. Zeroed \in 0..Absent /\ loc[b].pg \in 0..MaxPages
        BY <2>0 DEF Zeroed, Absent, Page
      <4>2. /\ used' = [used EXCEPT ![loc[b].pg] = Zeroed]
            /\ nblocks' = nblocks \/ nblocks' = loc[b].pg
            /\ UNCHANGED <<hdr, present, item, lastId>>
        BY <1>7, <2>2 DEF ExtendEnd
      <4>3. twice' \subseteq Page
        BY <1>7, <2>0, <2>2, <1>t DEF ExtendEnd, StoreOK
      <4> QED BY <4>1, <4>2, <4>3, <1>t DEF StoreOK
    <3>2. LocksOK' /\ TxnsOK'
      BY <1>7, <2>2, <1>t, Unchanged DEF ExtendEnd
    <3>3. ControlOK'
      BY <1>7, <2>2, <1>t, <1>a, ControlStep DEF ExtendEnd, Control
    <3> QED BY <3>1, <3>2, <3>3, <1>q
  <2> QED BY <2>1, <2>2
<1>8. ASSUME NEW b \in Backend, LockNewPage(b)
      PROVE TypeOK'
  <2>1. StoreOK'
    <3>1. 0 \in 0..Absent
      BY DEF Absent
    <3>2. used' \in [Page -> 0..Absent]
      BY <3>1, <1>8, <1>t DEF LockNewPage, StoreOK
    <3>3. item' \in [Addr -> Item \cup {NoItem}]
      BY <1>8, <1>t DEF LockNewPage, StoreOK
    <3> QED BY <3>2, <3>3, <1>8, <1>t DEF LockNewPage, StoreOK
  <2>2. LocksOK'
    BY <1>8, <1>t DEF LockNewPage, LocksOK
  <2>3. TxnsOK'
    BY <1>8, <1>t, Unchanged DEF LockNewPage
  <2>4. ControlOK'
    BY <1>8, <1>t, <1>a, ControlStep DEF LockNewPage, Control
  <2> QED BY <2>1, <2>2, <2>3, <2>4, <1>q
<1>9. ASSUME NEW b \in Backend, InsertApply(b)
      PROVE TypeOK'
  <2>0. /\ pc[b] = "apply" /\ xid[b] \in Xid
        /\ loc[b].src \in Node /\ loc[b].tgt \in Node /\ loc[b].e \in Edge
        /\ loc[b].srcAdj \in Header /\ loc[b].tgtAdj \in Header
        /\ loc[b].pg \in Page /\ used[loc[b].pg] \in Nat /\ used[loc[b].pg] < PageCap
    <3>1. pc[b] = "apply" /\ pc[b] \in Inserting
      BY <1>9 DEF InsertApply, Inserting
    <3>2. loc[b].srcAdj \in Header /\ loc[b].tgtAdj \in Header
      BY <1>a DEF Locals
    <3>3. loc[b].pg \in Page /\ used[loc[b].pg] < PageCap
      BY <3>1, <1>s DEF PageOf
    <3>4. used[loc[b].pg] \in Nat
      BY <3>3, <1>t, Constants DEF StoreOK
    <3>5. xid[b] \in Xid
      BY <3>1, <1>s DEF InTxn
    <3> QED BY <3>1, <3>2, <3>3, <3>4, <3>5, <1>s DEF NodeLocks
  <2>1. NewAddr(b) \in Addr
    BY <2>0 DEF NewAddr, Addr, Slot
  <2>2. NewItem(b) \in Item
    BY <2>0 DEF NewItem, Item, Header
  <2>3. NewHeaders(b) \in [Node -> Header]
    <3>1. NewAddr(b) \in Ptr
      BY <2>1, Constants
    <3>h. ASSUME NEW h \in Header, NEW p \in Ptr, NEW k \in Nat
          PROVE  [h EXCEPT !.out = p, !.outDegree = k] \in Header /\ [h EXCEPT !.in = p, !.inDegree = k] \in Header
      BY DEF Header
    <3>k. loc[b].srcAdj.outDegree + 1 \in Nat /\ loc[b].tgtAdj.inDegree + 1 \in Nat
      BY <2>0 DEF Header
    <3>2. NewSrcAdj(b) \in Header
      BY <2>0, <3>1, <3>h, <3>k DEF NewSrcAdj
    <3>3. NewTgtAdj(b) \in Header
      BY <2>0, <3>1, <3>2, <3>h, <3>k DEF NewTgtAdj
    <3>4. hdr \in [Node -> Header]
      BY <1>t DEF StoreOK
    <3> QED BY <3>2, <3>3, <3>4 DEF NewHeaders
  <2>4. StoreOK'
    <3>1. hdr' \in [Node -> Header]
      BY <2>3, <1>9 DEF InsertApply
    <3>2. item' \in [Addr -> Item \cup {NoItem}]
      BY <2>1, <2>2, <1>9, <1>t DEF InsertApply, StoreOK
    <3>3. used' \in [Page -> 0..Absent]
      BY <2>0, <1>9, <1>t, Constants DEF InsertApply, StoreOK
    <3> QED BY <3>1, <3>2, <3>3, <1>9, <1>t DEF InsertApply, StoreOK
  <2>5. LocksOK'
    BY <1>9, <1>t DEF InsertApply, LocksOK
  <2>6. TxnsOK'
    BY <1>9, <1>t, Unchanged DEF InsertApply
  <2>7. ControlOK'
    BY <1>9, <1>t, ControlStep, Constants DEF InsertApply, Return, Control
  <2> QED BY <2>4, <2>5, <2>6, <2>7, <1>q
<1>10. ASSUME NEW b \in Backend, NEW e \in Edge, NEW task \in {"delete", "props"}, ScanBegin(b, e, task)
       PROVE TypeOK'
  <2>1. StoreOK' /\ LocksOK' /\ TxnsOK'
    BY <1>10, <1>t, Unchanged DEF ScanBegin
  <2> DEFINE l == [NoLocals EXCEPT !.e = e, !.pg = 1, !.lim = nblocks]
  <2>2. l \in Locals
    <3>1. e \in 0..MaxEdge /\ 1 \in 0..(MaxPages + 1) /\ nblocks \in 0..MaxPages
      BY <1>t DEF Edge, StoreOK
    <3> QED BY <3>1, Constants DEF Locals, NoLocals
  <2>3. pc' = [pc EXCEPT ![b] = task] /\ loc' = [loc EXCEPT ![b] = l] /\ task \in Control
    BY <1>10 DEF ScanBegin, Control
  <2>4. ControlOK'
    <3> HIDE DEF l
    <3> QED BY <2>2, <2>3, <1>t, ControlStep
  <2> QED BY <2>1, <2>4, <1>q
<1>11. ASSUME NEW b \in Backend, ScanPage(b)
       PROVE TypeOK'
  <2>1. LocksOK' /\ TxnsOK'
    BY <1>11, <1>t, Unchanged DEF ScanPage
  <2>2. StoreOK'
    <3>1. item' \in [Addr -> Item \cup {NoItem}]
      <4>1. CASE item' = item
        BY <4>1, <1>t DEF StoreOK
      <4>2. CASE \E a \in Addr : Qualifies(b, a) /\ Change(b, a)
        <5>1. PICK a \in Addr : Qualifies(b, a) /\ Change(b, a)
          BY <4>2
        <5>2. a \in Items /\ item[a] \in Item
          BY <5>1, <1>b DEF Qualifies
        <5>3. xid[b] \in Xid
          BY <1>11, <1>s DEF ScanPage, InTxn
        <5>4. [item[a] EXCEPT !.xmax = xid[b]] \in Item /\ [item[a] EXCEPT !.propsBy = xid[b]] \in Item
          BY <5>2, <5>3 DEF Item
        <5> QED BY <5>1, <5>4, <1>t DEF Change, StoreOK
      <4> QED BY <4>1, <4>2, <1>11 DEF ScanPage
    <3> QED BY <3>1, <1>11, <1>t DEF ScanPage, StoreOK
  <2>3. ControlOK'
    <3>1. CASE Return(b)
      BY <3>1, <1>t, ControlStep, Constants DEF Return, Control
    <3>2. CASE ~Return(b)
      <4> DEFINE l == [loc[b] EXCEPT !.pg = loc[b].pg + 1]
      <4>1. loc[b].pg + 1 \in 0..(MaxPages + 1)
        BY <1>11, <1>a DEF ScanPage, Locals
      <4>2. l \in Locals
        BY <4>1, <1>a DEF Locals
      <4>3. pc' = pc /\ loc' = [loc EXCEPT ![b] = l]
        BY <1>11, <3>2, <1>t DEF ScanPage, ControlOK
      <4> HIDE DEF l
      <4> QED BY <4>2, <4>3, <1>t, <1>a, ControlStep
    <3> QED BY <3>1, <3>2
  <2> QED BY <2>1, <2>2, <2>3, <1>q
<1>x. ASSUME NEW b \in Backend, PropsTooLong(b)
      PROVE TypeOK'
  <2>1. xid[b] # 0 /\ Error(b)
    BY <1>x, <1>a, <1>s DEF PropsTooLong
  <2> QED BY <2>1, <1>s, ErrorType
<1>12. ASSUME NEW b \in Backend, ScanEnd(b) \/ FollowEnd(b)
       PROVE TypeOK'
  <2>1. StoreOK' /\ LocksOK' /\ TxnsOK'
    BY <1>12, <1>t, Unchanged DEF ScanEnd, FollowEnd
  <2>2. ControlOK'
    BY <1>12, <1>t, ControlStep, Constants DEF ScanEnd, FollowEnd, Return, Control
  <2> QED BY <2>1, <2>2, <1>q
<1>13. ASSUME NEW b \in Backend, NEW n \in Node, DropNode(b, n)
       PROVE TypeOK'
  <2>1. StoreOK'
    BY <1>13, <1>t DEF DropNode, StoreOK
  <2>2. LocksOK' /\ TxnsOK' /\ ControlOK'
    BY <1>13, <1>t, Unchanged DEF DropNode
  <2> QED BY <2>1, <2>2, <1>q
<1>14. ASSUME NEW b \in Backend, NEW n \in Node, NEW dir \in {"out", "in", "both"}, FollowBegin(b, n, dir)
       PROVE TypeOK'
  <2>1. StoreOK' /\ LocksOK' /\ TxnsOK'
    BY <1>14, <1>t, Unchanged DEF FollowBegin
  <2> DEFINE l == [NoLocals EXCEPT
                     !.src = n,
                     !.dir = IF dir = "in" THEN "in" ELSE "out",
                     !.cur = IF dir = "in" THEN hdr[n].in ELSE hdr[n].out,
                     !.inHead = IF dir = "both" THEN hdr[n].in ELSE Null,
                     !.start = Alive(n, dir)]
  <2>2. Alive(n, dir) \subseteq Edge
    <3>1. \A a \in Items : item[a].id \in Edge
      BY <1>b DEF Item
    <3> QED BY <3>1 DEF Alive
  <2>3. hdr[n].in \in Ptr /\ hdr[n].out \in Ptr
    BY <1>t DEF StoreOK, Header
  <2>4. l \in Locals
    BY <2>2, <2>3, Constants DEF Locals, NoLocals
  <2>5. pc' = [pc EXCEPT ![b] = "follow"] /\ loc' = [loc EXCEPT ![b] = l]
    BY <1>14 DEF FollowBegin
  <2>6. ControlOK'
    <3> HIDE DEF l
    <3> QED BY <2>4, <2>5, <1>t, ControlStep DEF Control
  <2> QED BY <2>1, <2>6, <1>q
<1>15. ASSUME NEW b \in Backend, FollowLock(b)
       PROVE TypeOK'
  <2>1. StoreOK' /\ TxnsOK'
    BY <1>15, <1>t, Unchanged DEF FollowLock
  <2>2. LocksOK'
    BY <1>15, <1>t DEF FollowLock, LocksOK
  <2>3. ControlOK'
    BY <1>15, <1>t, <1>a, ControlStep DEF FollowLock, Control
  <2> QED BY <2>1, <2>2, <2>3, <1>q
<1>16. ASSUME NEW b \in Backend, FollowItem(b)
       PROVE TypeOK'
  <2>1. StoreOK' /\ TxnsOK'
    BY <1>16, <1>t, Unchanged DEF FollowItem
  <2>2. LocksOK'
    BY <1>16, <1>t DEF FollowItem, LocksOK
  <2>3. pc' = pc \/ pc' = [pc EXCEPT ![b] = "follow"]
    BY <1>16 DEF FollowItem
  <2>4. CASE loc[b].cur \notin Items
    <3> DEFINE l == [loc[b] EXCEPT !.cur = Null]
    <3>1. l \in Locals
      BY <1>a, Constants DEF Locals
    <3>2. loc' = [loc EXCEPT ![b] = l]
      BY <1>16, <2>4, <1>t DEF FollowItem, ControlOK
    <3>3. ControlOK'
      <4> HIDE DEF l
      <4> QED BY <3>1, <3>2, <2>3, <1>t, ControlStep DEF Control
    <3> QED BY <2>1, <2>2, <3>3, <1>q
  <2>5. CASE loc[b].cur \in Items
    <3> DEFINE c == loc[b].cur
               g == IF item[c].xmax = 0 THEN loc[b].got \cup {item[c].id} ELSE loc[b].got
               l == [loc[b] EXCEPT !.cur = NextPtr(b), !.got = g]
    <3>1. item[c] \in Item
      BY <2>5, <1>b
    <3>2. NextPtr(b) \in Ptr /\ g \in SUBSET Edge
      BY <3>1, <1>a DEF NextPtr, Item, Locals
    <3>3. loc' = [loc EXCEPT ![b] = l]
      BY <1>16, <2>5, <1>t DEF FollowItem, ControlOK
    <3>4. l \in Locals
      <4> HIDE DEF g
      <4> QED BY <3>2, <1>a DEF Locals
    <3>5. ControlOK'
      <4> HIDE DEF l
      <4> QED BY <3>3, <3>4, <2>3, <1>t, ControlStep DEF Control
    <3> QED BY <2>1, <2>2, <3>5, <1>q
  <2> QED BY <2>4, <2>5
<1>17. ASSUME NEW b \in Backend, FollowSecond(b)
       PROVE TypeOK'
  <2>1. StoreOK' /\ LocksOK' /\ TxnsOK'
    BY <1>17, <1>t, Unchanged DEF FollowSecond
  <2> DEFINE l == [loc[b] EXCEPT !.cur = loc[b].inHead, !.inHead = Null, !.dir = "in"]
  <2>2. l \in Locals
    BY <1>a, Constants DEF Locals
  <2>3. pc' = pc /\ loc' = [loc EXCEPT ![b] = l]
    BY <1>17, <1>t DEF FollowSecond, ControlOK
  <2>4. ControlOK'
    <3> HIDE DEF l
    <3> QED BY <2>2, <2>3, <1>t, <1>a, ControlStep
  <2> QED BY <2>1, <2>4, <1>q
<1>18. CASE UNCHANGED vars
  BY <1>18, <1>t, <1>q, Unchanged DEF vars
<1> QED
  BY <1>1, <1>2, <1>4, <1>5, <1>6, <1>7, <1>8, <1>9, <1>10, <1>11, <1>x, <1>12, <1>13, <1>14,
     <1>15, <1>16, <1>17, <1>18 DEF Next, Step, InsertStep, ScanStep, FollowStep

-----------------------------------------------------------------------------
(* Locks                                                                   *)

\* A step of one backend leaves the control state, the transaction and the
\* locks of every other backend alone.
Untouched(c) ==
    /\ pc'[c] = pc[c] /\ loc'[c] = loc[c] /\ xid'[c] = xid[c]
    /\ \A k \in NodeBlk : nlock'[k] = c <=> nlock[k] = c
    /\ \A p \in Page : elock'[p] = c <=> elock[p] = c
    /\ \A p \in Page : c \in eshare'[p] <=> c \in eshare[p]

\* What a step of one backend leaves alone of the others: their control state,
\* their locals, their transactions and the locks they hold.
LEMMA OthersStep ==
    ASSUME Structure, NEW b \in Backend, Step(b), NEW c \in Backend, c # b
    PROVE  Untouched(c)
<1>t. /\ pc \in [Backend -> Control] /\ loc \in [Backend -> Locals]
      /\ xid \in [Backend -> 0..MaxXid]
      /\ nlock \in [NodeBlk -> Backend \cup {None}]
      /\ elock \in [Page -> Backend \cup {None}]
      /\ eshare \in [Page -> SUBSET Backend]
  BY DEF Structure, TypeOK, LocksOK, TxnsOK, ControlOK
<1>1. CASE UNCHANGED locks
  <2>1. pc'[c] = pc[c] /\ loc'[c] = loc[c] /\ xid'[c] = xid[c]
    BY <1>1, <1>t DEF Step, InsertStep, ScanStep, FollowStep, BeginTxn, CommitTxn, AbortTxn, EndTxn,
         InsertFind, Error, Return, LockFirst, LockSecond, ReadHeaders, FindLastPage, LockLastPage,
         ExtendBegin, ExtendEnd, LockNewPage, InsertApply, ScanBegin, ScanPage, PropsTooLong, ScanEnd, DropNode,
         FollowBegin, FollowLock, FollowItem, FollowSecond, FollowEnd, txns
  <2> QED BY <1>1, <2>1 DEF Untouched, locks
<1>2. CASE Error(b)
  BY <1>2, <1>t DEF Error, Untouched
<1>3. CASE LockFirst(b) \/ LockSecond(b)
  BY <1>3, <1>t DEF LockFirst, LockSecond, ReadHeaders, Untouched, txns
<1>4. CASE LockLastPage(b)
  BY <1>4, <1>t DEF LockLastPage, EdgePageFree, Untouched, txns
<1>5. CASE LockNewPage(b)
  BY <1>5, <1>t DEF LockNewPage, EdgePageFree, Untouched, txns
<1>6. CASE InsertApply(b)
  <2>1. elock[loc[b].pg] = b
    BY <1>6 DEF InsertApply, Structure, Local, EdgeLocks
  <2> QED BY <1>6, <2>1, <1>t DEF InsertApply, Return, Untouched, txns
<1>7. CASE FollowLock(b)
  BY <1>7, <1>t DEF FollowLock, Untouched, txns
<1>8. CASE FollowItem(b)
  BY <1>8, <1>t DEF FollowItem, Untouched, txns
<1> QED
  BY <1>1, <1>2, <1>3, <1>4, <1>5, <1>6, <1>7, <1>8 DEF Step, InsertStep, ScanStep, FollowStep,
     BeginTxn, CommitTxn, AbortTxn, EndTxn, InsertFind, FindLastPage, ExtendBegin, ExtendEnd,
     ScanBegin, ScanPage, PropsTooLong, ScanEnd, DropNode, FollowBegin, FollowSecond, FollowEnd, locks

\* What holds of a backend's locks survives the steps of the others.
LEMMA OthersKeep ==
    ASSUME Structure, NEW c \in Backend, Untouched(c)
    PROVE  NodeLocks(c)' /\ EdgeLocks(c)' /\ InTxn(c)'
<1>l. NodeLocks(c) /\ EdgeLocks(c) /\ InTxn(c)
  BY DEF Structure, Local
<1>1. NodeLocks(c)'
  <2>1. pc[c] \in Inserting => Blk[loc[c].src] \in NodeBlk /\ Blk[loc[c].tgt] \in NodeBlk
    BY <1>l, Constants DEF NodeLocks
  <2>2. LockSeq(c)' = LockSeq(c) /\ (pc[c] \in Inserting => LockSeq(c)[1] \in NodeBlk)
    BY <2>1 DEF LockSeq, Untouched
  <2> QED BY <1>l, <2>1, <2>2 DEF NodeLocks, Untouched, Inserting, BothLocked
<1>2. EdgeLocks(c)'
  BY <1>l DEF EdgeLocks, Untouched
<1>3. InTxn(c)'
  BY <1>l DEF InTxn, Untouched
<1> QED BY <1>1, <1>2, <1>3

\* The backend that moves: its node locks.
LEMMA NodeLocksStep ==
    ASSUME Structure, NEW b \in Backend, Step(b)
    PROVE  NodeLocks(b)'
<1>t. /\ pc \in [Backend -> Control] /\ loc \in [Backend -> Locals]
      /\ nlock \in [NodeBlk -> Backend \cup {None}]
      /\ lastId \in 0..MaxEdge
  BY DEF Structure, TypeOK, StoreOK, LocksOK, ControlOK
<1>l. NodeLocks(b)
  BY DEF Structure, Local
<1>k. \A n \in Node : Blk[n] \in NodeBlk /\ Blk[n] \in Nat
  BY Constants
<1>1. CASE UNCHANGED <<pc, loc, nlock>>
  BY <1>1, <1>l DEF NodeLocks, LockSeq
<1>2. CASE pc[b] \notin Inserting /\ pc'[b] \notin Inserting /\ nlock' = nlock
  BY <1>2, <1>l DEF NodeLocks, Inserting, BothLocked
<1>3. CASE pc'[b] = "idle" /\ \A k \in NodeBlk : nlock'[k] # b
  BY <1>3 DEF NodeLocks, Inserting, BothLocked
<1>4. CASE /\ pc[b] \in BothLocked /\ pc'[b] \in BothLocked /\ nlock' = nlock
           /\ loc'[b].src = loc[b].src /\ loc'[b].tgt = loc[b].tgt /\ loc'[b].e = loc[b].e
  BY <1>4, <1>l DEF NodeLocks, Inserting, BothLocked
<1>5. ASSUME NEW s \in Node, NEW t \in Node, InsertFind(b, s, t)
      PROVE  NodeLocks(b)'
  <2>1. CASE Error(b)
    BY <2>1, <1>3, <1>t DEF Error
  <2>2. CASE ~Error(b)
    <3>1. pc[b] = "idle" /\ pc'[b] = "lock1" /\ nlock' = nlock /\ lastId + 1 \in Edge
      BY <1>5, <2>2, <1>t DEF InsertFind, Start, locks, Edge
    <3>2. loc'[b] = [NoLocals EXCEPT !.e = lastId + 1, !.src = s, !.tgt = t]
      BY <1>5, <2>2, <1>t DEF InsertFind
    <3>3. loc'[b].src = s /\ loc'[b].tgt = t /\ loc'[b].e = lastId + 1
      BY <3>2 DEF NoLocals
    <3> QED BY <3>1, <3>3, <1>l DEF NodeLocks, Inserting, BothLocked
  <2> QED BY <2>1, <2>2
<1>6. CASE LockFirst(b)
  <2>1. loc[b].src \in Node /\ loc[b].tgt \in Node /\ loc[b].e \in Edge /\ pc[b] = "lock1"
    BY <1>6, <1>l DEF NodeLocks, LockFirst, Inserting
  <2>2. LockSeq(b)[1] \in NodeBlk /\ nlock' = [nlock EXCEPT ![LockSeq(b)[1]] = b]
    BY <1>6, <2>1, <1>k DEF LockFirst, LockSeq
  <2>3. loc'[b].src = loc[b].src /\ loc'[b].tgt = loc[b].tgt /\ loc'[b].e = loc[b].e
    BY <1>6, <1>t DEF LockFirst, ReadHeaders, Locals
  <2>4. \A k \in NodeBlk : nlock'[k] = b => k = LockSeq(b)[1]
    BY <2>1, <2>2, <1>l, <1>t DEF NodeLocks, BothLocked
  <2>5. CASE SamePage(b)
    <3>1. pc'[b] = "findpage" /\ Blk[loc[b].src] = LockSeq(b)[1] /\ Blk[loc[b].tgt] = LockSeq(b)[1]
      BY <1>6, <1>t, <2>5 DEF LockFirst, LockSeq, SamePage
    <3> QED BY <2>1, <2>2, <2>3, <3>1, <1>t DEF NodeLocks, Inserting, BothLocked
  <2>6. CASE ~SamePage(b)
    <3>1. pc'[b] = "lock2" /\ LockSeq(b)[1] < LockSeq(b)[2]
      BY <1>6, <1>t, <1>k, <2>1, <2>6 DEF LockFirst, LockSeq, SamePage
    <3>2. LockSeq(b)' = LockSeq(b)
      BY <2>3 DEF LockSeq
    <3>3. nlock'[LockSeq(b)[1]] = b
      BY <2>2, <1>t
    <3> QED BY <2>1, <2>3, <2>4, <3>1, <3>2, <3>3 DEF NodeLocks, Inserting, BothLocked
  <2> QED BY <2>5, <2>6
<1>7. CASE LockSecond(b)
  <2>1. loc[b].src \in Node /\ loc[b].tgt \in Node /\ loc[b].e \in Edge /\ pc[b] = "lock2"
    BY <1>7, <1>l DEF NodeLocks, LockSecond, Inserting
  <2>2. nlock' = [nlock EXCEPT ![LockSeq(b)[2]] = b] /\ pc'[b] = "findpage"
    BY <1>7, <1>t DEF LockSecond
  <2>3. loc'[b].src = loc[b].src /\ loc'[b].tgt = loc[b].tgt /\ loc'[b].e = loc[b].e
    BY <1>7, <1>t DEF LockSecond, ReadHeaders, Locals
  <2>4. nlock[LockSeq(b)[1]] = b
    BY <2>1, <1>l DEF NodeLocks
  <2> QED BY <2>1, <2>2, <2>3, <2>4, <1>t, <1>k DEF NodeLocks, Inserting, BothLocked, LockSeq
<1>8. CASE FindLastPage(b) \/ LockLastPage(b) \/ ExtendBegin(b) \/ LockNewPage(b) \/ (ExtendEnd(b) /\ ~Error(b))
  <2>1. pc[b] \in BothLocked /\ pc'[b] \in BothLocked /\ nlock' = nlock
    BY <1>8, <1>t DEF FindLastPage, LockLastPage, ExtendBegin, LockNewPage, ExtendEnd, Inserting, BothLocked, locks
  <2>2. loc'[b].src = loc[b].src /\ loc'[b].tgt = loc[b].tgt /\ loc'[b].e = loc[b].e
    BY <1>8, <1>t DEF FindLastPage, LockLastPage, ExtendBegin, LockNewPage, ExtendEnd, Locals
  <2> QED BY <2>1, <2>2, <1>4
<1>9. CASE Error(b) \/ InsertApply(b)
  <2>1. pc'[b] = "idle" /\ \A k \in NodeBlk : nlock'[k] # b
    BY <1>9, <1>t DEF Error, InsertApply, Return
  <2> QED BY <2>1, <1>3
<1>10. CASE BeginTxn(b) \/ CommitTxn(b) \/ AbortTxn(b) \/ \E n \in Node : DropNode(b, n)
  <2>1. UNCHANGED <<pc, loc, nlock>>
    BY <1>10 DEF BeginTxn, CommitTxn, AbortTxn, EndTxn, DropNode, locks
  <2> QED BY <2>1, <1>1
<1>11. CASE \/ \E e \in Edge, task \in {"delete", "props"} : ScanBegin(b, e, task)
            \/ ScanStep(b) /\ ~Error(b)
            \/ \E n \in Node, dir \in {"out", "in", "both"} : FollowBegin(b, n, dir)
            \/ FollowStep(b)
  <2>1. pc[b] \notin Inserting /\ pc'[b] \notin Inserting /\ nlock' = nlock
    BY <1>11, <1>t DEF ScanBegin, Start, ScanStep, ScanPage, PropsTooLong, ScanEnd, Return, FollowBegin, FollowStep,
       FollowLock, FollowItem, FollowSecond, FollowEnd, FollowDone, Inserting, locks
  <2> QED BY <2>1, <1>2
<1> QED BY <1>5, <1>6, <1>7, <1>8, <1>9, <1>10, <1>11 DEF Step, InsertStep

\* The backend that moves: its edge page locks.
LEMMA EdgeLocksStep ==
    ASSUME Structure, NEW b \in Backend, Step(b)
    PROVE  EdgeLocks(b)'
<1>t. /\ pc \in [Backend -> Control] /\ loc \in [Backend -> Locals]
      /\ elock \in [Page -> Backend \cup {None}]
      /\ eshare \in [Page -> SUBSET Backend]
  BY DEF Structure, TypeOK, LocksOK, ControlOK
<1>l. EdgeLocks(b) /\ PageOf(b)
  BY DEF Structure, Local
<1>1. CASE UNCHANGED <<pc, loc, elock, eshare>>
  BY <1>1, <1>l DEF EdgeLocks
<1>2. CASE pc[b] \notin {"apply", "onpage"} /\ pc'[b] \notin {"apply", "onpage"}
           /\ UNCHANGED <<elock, eshare>>
  BY <1>2, <1>l DEF EdgeLocks
<1>3. CASE Error(b)
  <2>1. pc[b] # "onpage"
    BY <1>3, <1>t DEF Step, InsertStep, ScanStep, FollowStep, InsertFind, Start, LockFirst, LockSecond,
       FindLastPage, LockLastPage, ExtendBegin, ExtendEnd, LockNewPage, InsertApply, ScanBegin,
       ScanPage, PropsTooLong, ScanEnd, DropNode, FollowBegin, FollowLock, FollowItem, FollowSecond, FollowEnd,
       FollowDone, BeginTxn, CommitTxn, AbortTxn, EndTxn, Error, store, locks, txns
  <2>2. pc'[b] = "idle" /\ (\A p \in Page : elock'[p] # b) /\ eshare' = eshare
    BY <1>3, <1>t DEF Error
  <2> QED BY <2>1, <2>2, <1>l DEF EdgeLocks
<1>4. CASE (LockLastPage(b) /\ HasSpace(loc[b].pg)) \/ LockNewPage(b)
  <2>1. loc[b].pg \in Page /\ pc[b] \notin {"apply", "onpage"}
    BY <1>4, <1>l DEF LockLastPage, LockNewPage, PageOf
  <2>2. /\ pc'[b] = "apply" /\ loc' = loc /\ eshare' = eshare
        /\ elock' = [elock EXCEPT ![loc[b].pg] = b]
    BY <1>4, <1>t DEF LockLastPage, LockNewPage
  <2> QED BY <2>1, <2>2, <1>l, <1>t DEF EdgeLocks
<1>5. CASE InsertApply(b)
  <2>1. /\ pc[b] = "apply" /\ pc'[b] = "idle" /\ eshare' = eshare
        /\ elock' = [elock EXCEPT ![loc[b].pg] = None]
    BY <1>5, <1>t DEF InsertApply, Return
  <2> QED BY <2>1, <1>l, <1>t DEF EdgeLocks
<1>6. CASE FollowLock(b)
  <2>1. loc[b].cur \in Addr
    BY <1>6, <1>t DEF FollowLock, Locals, Ptr
  <2>2. /\ pc[b] = "follow" /\ pc'[b] = "onpage" /\ loc' = loc /\ elock' = elock
        /\ eshare' = [eshare EXCEPT ![loc[b].cur[1]] = eshare[loc[b].cur[1]] \cup {b}]
    BY <1>6, <1>t DEF FollowLock
  <2> QED BY <2>1, <2>2, <1>l, <1>t DEF EdgeLocks
<1>7. CASE FollowItem(b)
  <2> DEFINE c == loc[b].cur
  <2>1. pc[b] = "onpage" /\ c \in Addr /\ c[1] \in Page
    BY <1>7, <1>l DEF FollowItem, EdgeLocks, Addr
  <2>2. elock' = elock
    BY <1>7 DEF FollowItem
  <2>3. CASE pc'[b] = "follow" /\ eshare' = [eshare EXCEPT ![c[1]] = @ \ {b}]
    BY <2>1, <2>2, <2>3, <1>l, <1>t DEF EdgeLocks
  <2>4. CASE c \in Items /\ NextPtr(b) # Null /\ NextPtr(b)[1] = c[1] /\ UNCHANGED <<pc, eshare>>
    <3>1. loc'[b].cur = NextPtr(b)
      BY <1>7, <2>4, <1>t DEF FollowItem, Locals
    <3>2. NextPtr(b) \in Addr
      BY <2>4 DEF Structure, Content, Item, NextPtr, Ptr
    <3> QED BY <2>1, <2>2, <2>4, <3>1, <3>2, <1>l, <1>t DEF EdgeLocks
  <2> QED BY <1>7, <2>3, <2>4, <1>t DEF FollowItem
<1>8. CASE BeginTxn(b) \/ CommitTxn(b) \/ AbortTxn(b) \/ \E n \in Node : DropNode(b, n)
  <2>1. UNCHANGED <<pc, loc, elock, eshare>>
    BY <1>8 DEF BeginTxn, CommitTxn, AbortTxn, EndTxn, DropNode, locks
  <2> QED BY <2>1, <1>1
<1>9. CASE \/ \E s, t \in Node : InsertFind(b, s, t) /\ ~Error(b)
           \/ LockFirst(b) \/ LockSecond(b) \/ FindLastPage(b) \/ ExtendBegin(b)
           \/ LockLastPage(b) /\ ~HasSpace(loc[b].pg)
           \/ ExtendEnd(b) /\ ~Error(b)
  <2>1. pc[b] \notin {"apply", "onpage"} /\ pc'[b] \notin {"apply", "onpage"} /\ UNCHANGED <<elock, eshare>>
    BY <1>9, <1>t DEF InsertFind, Start, LockFirst, LockSecond, FindLastPage, ExtendBegin, LockLastPage,
       ExtendEnd, locks
  <2> QED BY <2>1, <1>2
<1>10. CASE \/ \E e \in Edge, task \in {"delete", "props"} : ScanBegin(b, e, task)
            \/ ScanStep(b) /\ ~Error(b)
            \/ \E n \in Node, dir \in {"out", "in", "both"} : FollowBegin(b, n, dir)
            \/ FollowSecond(b) \/ FollowEnd(b)
  <2>1. pc[b] \notin {"apply", "onpage"} /\ pc'[b] \notin {"apply", "onpage"} /\ UNCHANGED <<elock, eshare>>
    BY <1>10, <1>t DEF ScanBegin, Start, ScanStep, ScanPage, PropsTooLong, ScanEnd, Return, FollowBegin,
       FollowSecond, FollowEnd, FollowDone, locks
  <2> QED BY <2>1, <1>2
<1> QED BY <1>3, <1>4, <1>5, <1>6, <1>7, <1>8, <1>9, <1>10 DEF Step, InsertStep, FollowStep

\* The backend that moves is in a transaction while it runs an operation.
LEMMA InTxnStep ==
    ASSUME Structure, NEW b \in Backend, Step(b)
    PROVE  InTxn(b)'
<1>t. pc \in [Backend -> Control] /\ xid \in [Backend -> 0..MaxXid]
  BY DEF Structure, TypeOK, TxnsOK, ControlOK
<1>l. InTxn(b)
  BY DEF Structure, Local
<1>1. CASE pc'[b] = "idle"
  BY <1>1 DEF InTxn
<1>2. CASE xid[b] # 0 /\ xid' = xid
  BY <1>2, <1>t DEF InTxn, Xid
<1>3. pc'[b] = "idle" \/ (xid[b] # 0 /\ xid' = xid)
  <2>1. pc[b] # "idle" => xid[b] # 0
    BY <1>l DEF InTxn, Xid
  <2> QED
    BY <2>1, <1>t DEF Step, InsertStep, ScanStep, FollowStep, InsertFind, Start, LockFirst, LockSecond,
       FindLastPage, LockLastPage, ExtendBegin, ExtendEnd, LockNewPage, InsertApply, ScanBegin,
       ScanPage, PropsTooLong, ScanEnd, DropNode, FollowBegin, FollowLock, FollowItem, FollowSecond, FollowEnd,
       FollowDone, BeginTxn, CommitTxn, AbortTxn, EndTxn, Error, Return, txns
<1> QED BY <1>1, <1>2, <1>3

-----------------------------------------------------------------------------
(* What a step does to the store: nothing, or one of these four things.    *)

Rewrites(b) ==
    /\ xid[b] \in Xid
    /\ UNCHANGED <<hdr, nblocks, used>>
    /\ \E a \in Items : item' = [item EXCEPT ![a].xmax = xid[b]]
                        \/ item' = [item EXCEPT ![a].propsBy = xid[b]]
Extends(b) ==
    /\ pc[b] = "extending" /\ pc'[b] = "locknew"
    /\ used[loc[b].pg] \in {Absent, Zeroed}
    /\ used[loc[b].pg] = Zeroed => twice' # {}
    /\ used' = [used EXCEPT ![loc[b].pg] = Zeroed]
    /\ nblocks' = IF nblocks < loc[b].pg THEN loc[b].pg ELSE nblocks
    /\ UNCHANGED <<hdr, item, loc>>

\* The ways a step may change the pages: not at all, an item rewritten, the
\* relation extended, a new page initialised, an item inserted.
LEMMA StoreStep ==
    ASSUME Structure, NEW b \in Backend, Step(b)
    PROVE  \/ UNCHANGED <<hdr, nblocks, used, item>>
           \/ Rewrites(b)
           \/ Extends(b)
           \/ LockNewPage(b)
           \/ InsertApply(b)
<1>t. pc \in [Backend -> Control]
  BY DEF Structure, TypeOK, ControlOK
<1>1. CASE ScanPage(b)
  <2>1. CASE item' = item
    BY <1>1, <2>1 DEF ScanPage
  <2>2. CASE \E a \in Addr : Qualifies(b, a) /\ Change(b, a)
    <3>1. xid[b] \in Xid
      BY <1>1 DEF ScanPage, Structure, Local, InTxn
    <3> QED BY <1>1, <2>2, <3>1 DEF ScanPage, Rewrites, Qualifies, Change
  <2> QED BY <1>1, <2>1, <2>2 DEF ScanPage
<1>2. CASE ExtendEnd(b) /\ ~Error(b)
  BY <1>2, <1>t DEF ExtendEnd, Extends
<1> QED BY <1>1, <1>2 DEF Step, InsertStep, ScanStep, FollowStep, InsertFind, LockFirst, LockSecond,
       FindLastPage, LockLastPage, ExtendBegin, ExtendEnd, ScanBegin, PropsTooLong, ScanEnd, DropNode, FollowBegin,
       FollowLock, FollowItem, FollowSecond, FollowEnd, BeginTxn, CommitTxn, AbortTxn, EndTxn, Error, store

\* The slots in use, and what is in them, after each of these.
LEMMA ItemsSame ==
    ASSUME UNCHANGED used
    PROVE  Items' = Items
BY DEF Items

\* A delete or a rewrite of properties keeps the slots, ids, end points and
\* pointers of all items.
LEMMA ItemsRewrites ==
    ASSUME Structure, NEW b \in Backend, Rewrites(b)
    PROVE  /\ Items' = Items
           /\ \A a \in Items :
                /\ item'[a] \in Item
                /\ item'[a].id = item[a].id /\ item'[a].src = item[a].src /\ item'[a].tgt = item[a].tgt
                /\ item'[a].nextOut = item[a].nextOut /\ item'[a].nextIn = item[a].nextIn
<1>1. Items' = Items
  BY ItemsSame DEF Rewrites
<1>2. PICK c \in Items : item' = [item EXCEPT ![c].xmax = xid[b]]
                        \/ item' = [item EXCEPT ![c].propsBy = xid[b]]
  BY DEF Rewrites
<1>3. ASSUME NEW a \in Items
      PROVE  /\ item'[a] \in Item
             /\ item'[a].id = item[a].id /\ item'[a].src = item[a].src /\ item'[a].tgt = item[a].tgt
             /\ item'[a].nextOut = item[a].nextOut /\ item'[a].nextIn = item[a].nextIn
  <2>1. item[a] \in Item /\ a \in Addr /\ item \in [Addr -> Item \cup {NoItem}]
    BY DEF Structure, Content, Items, TypeOK, StoreOK
  <2>2. item'[a] = item[a] \/ item'[a] = [item[a] EXCEPT !.xmax = xid[b]]
                           \/ item'[a] = [item[a] EXCEPT !.propsBy = xid[b]]
    BY <1>2, <2>1
  <2> QED BY <2>1, <2>2 DEF Item, Rewrites
<1> QED BY <1>1, <1>3

\* A zeroed page adds no items.
LEMMA ItemsExtends ==
    ASSUME Structure, NEW b \in Backend, Extends(b)
    PROVE  Items' = Items
<1>1. used \in [Page -> 0..Absent] /\ loc[b].pg \in Page
  BY DEF Structure, TypeOK, StoreOK, Local, PageOf, Extends
<1>2. \A a \in Addr : a[1] \in Page
  BY DEF Addr
<1> QED BY <1>1, <1>2, Constants DEF Items, Extends

\* init_edge_page of a page leaves the items of the other pages.
LEMMA ItemsNewPage ==
    ASSUME Structure, NEW b \in Backend, LockNewPage(b)
    PROVE  /\ Items' = {a \in Items : a[1] # loc[b].pg}
           /\ \A a \in Items' : item'[a] = item[a]
<1>1. used \in [Page -> 0..Absent] /\ loc[b].pg \in Page
  BY DEF Structure, TypeOK, StoreOK, Local, PageOf, LockNewPage
<1>2. \A a \in Addr : a[1] \in Page /\ a[2] \in Nat /\ a[2] > 0
  BY DEF Addr, Slot
<1>3. used' = [used EXCEPT ![loc[b].pg] = 0]
  BY DEF LockNewPage
<1>4. \A a \in Addr : a \in Items' <=> a \in Items /\ a[1] # loc[b].pg
  BY <1>1, <1>2, <1>3 DEF Items
<1>5. Items' = {a \in Items : a[1] # loc[b].pg}
  BY <1>4 DEF Items
<1>6. \A a \in Items' : item'[a] = item[a]
  BY <1>5 DEF LockNewPage, Items
<1> QED BY <1>5, <1>6

\* insert_edge adds exactly one item.
LEMMA ItemsInsert ==
    ASSUME Structure, NEW b \in Backend, InsertApply(b)
    PROVE  /\ NewAddr(b) \in Addr /\ NewAddr(b) \notin Items
           /\ Items' = Items \cup {NewAddr(b)}
           /\ item'[NewAddr(b)] = NewItem(b) /\ NewItem(b) \in Item
           /\ \A a \in Items : item'[a] = item[a]
<1>0. pc[b] = "apply" /\ pc[b] \in Inserting /\ loc[b] \in Locals
  BY DEF Structure, TypeOK, ControlOK, InsertApply, Inserting
<1>1. /\ used \in [Page -> 0..Absent] /\ loc[b].pg \in Page /\ used[loc[b].pg] < PageCap
      /\ item \in [Addr -> Item \cup {NoItem}]
  BY <1>0 DEF Structure, TypeOK, StoreOK, Local, PageOf
<1>2. used[loc[b].pg] \in Nat
  BY <1>1, Constants
<1>3. NewAddr(b) \in Addr /\ NewAddr(b)[1] = loc[b].pg /\ NewAddr(b)[2] = used[loc[b].pg] + 1
  BY <1>1, <1>2 DEF NewAddr, Addr, Slot
<1>4. NewItem(b) \in Item
  <2>1. loc[b].src \in Node /\ loc[b].tgt \in Node /\ loc[b].e \in Edge /\ xid[b] \in Xid
    BY <1>0 DEF Structure, Local, NodeLocks, InTxn
  <2>2. loc[b].srcAdj \in Header /\ loc[b].tgtAdj \in Header
    BY <1>0 DEF Locals
  <2> QED BY <2>1, <2>2 DEF NewItem, Item, Header
<1>5. /\ used' = [used EXCEPT ![loc[b].pg] = used[loc[b].pg] + 1]
      /\ item' = [item EXCEPT ![NewAddr(b)] = NewItem(b)]
  BY DEF InsertApply
<1>6. NewAddr(b) \notin Items
  BY <1>2, <1>3 DEF Items
<1>7. \A a \in Addr : a \in Items' <=> a \in Items \/ a = NewAddr(b)
  <2> SUFFICES ASSUME NEW a \in Addr PROVE a \in Items' <=> a \in Items \/ a = NewAddr(b)
    OBVIOUS
  <2>1. a[1] \in Page /\ a[2] \in Nat /\ a = <<a[1], a[2]>>
    BY DEF Addr, Slot
  <2>2. CASE a[1] # loc[b].pg
    <3>1. used'[a[1]] = used[a[1]] /\ a # NewAddr(b)
      BY <2>1, <2>2, <1>1, <1>3, <1>5
    <3> QED BY <3>1 DEF Items
  <2>3. CASE a[1] = loc[b].pg
    <3>1. used'[a[1]] = used[loc[b].pg] + 1
      BY <2>1, <2>3, <1>1, <1>5
    <3>2. a = NewAddr(b) <=> a[2] = used[loc[b].pg] + 1
      BY <2>1, <2>3 DEF NewAddr
    <3> QED BY <2>1, <2>3, <3>1, <3>2, <1>1, <1>2 DEF Items
  <2> QED BY <2>2, <2>3
<1>8. Items' = Items \cup {NewAddr(b)}
  BY <1>3, <1>7 DEF Items
<1>9. \A a \in Items : item'[a] = item[a] /\ a \in Addr
  BY <1>1, <1>5, <1>6 DEF Items
<1> QED BY <1>1, <1>3, <1>4, <1>5, <1>6, <1>8, <1>9

\* Slots in use hold items after every step.
LEMMA ContentStep ==
    ASSUME Structure, NEW b \in Backend, Step(b)
    PROVE  Content'
<1>c. Content
  BY DEF Structure
<1>1. CASE UNCHANGED <<hdr, nblocks, used, item>>
  BY <1>1, <1>c, ItemsSame DEF Content
<1>2. CASE Rewrites(b)
  BY <1>2, ItemsRewrites DEF Content
<1>3. CASE Extends(b)
  BY <1>3, <1>c, ItemsExtends DEF Content, Extends
<1>4. CASE LockNewPage(b)
  BY <1>4, <1>c, ItemsNewPage DEF Content
<1>5. CASE InsertApply(b)
  BY <1>5, <1>c, ItemsInsert DEF Content
<1> QED BY <1>1, <1>2, <1>3, <1>4, <1>5, StoreStep

\* The page an insert works on keeps existing and having room.
LEMMA PageOfStep ==
    ASSUME Structure, NEW b \in Backend, Step(b), NEW c \in Backend
    PROVE  PageOf(c)'
<1>t. /\ pc \in [Backend -> Control] /\ loc \in [Backend -> Locals]
      /\ used \in [Page -> 0..Absent] /\ nblocks \in 0..MaxPages
      /\ elock \in [Page -> Backend \cup {None}]
  BY DEF Structure, TypeOK, ControlOK, StoreOK, LocksOK
<1>l. PageOf(b) /\ PageOf(c) /\ EdgeLocks(b) /\ EdgeLocks(c)
  BY DEF Structure, Local
<1>1. CASE c # b
  <2>1. pc'[c] = pc[c] /\ loc'[c] = loc[c]
    BY <1>1, OthersStep DEF Untouched
  <2>2. pc[c] = "apply" => used'[loc[c].pg] < PageCap
    <3> SUFFICES ASSUME pc[c] = "apply" PROVE used'[loc[c].pg] < PageCap
      OBVIOUS
    <3>1. loc[c].pg \in Page /\ used[loc[c].pg] < PageCap /\ elock[loc[c].pg] = c
      BY <1>l DEF PageOf, EdgeLocks
    <3>2. CASE UNCHANGED <<hdr, nblocks, used, item>> \/ Rewrites(b)
      BY <3>1, <3>2 DEF Rewrites
    <3>3. CASE Extends(b)
      BY <3>1, <3>3, <1>t, Constants DEF Extends
    <3>4. CASE LockNewPage(b)
      BY <3>1, <3>4, <1>t DEF LockNewPage
    <3>5. CASE InsertApply(b)
      <4>1. elock[loc[b].pg] = b
        BY <3>5, <1>l DEF InsertApply, EdgeLocks
      <4>2. loc[b].pg # loc[c].pg
        BY <3>1, <4>1, <1>1
      <4> QED BY <3>1, <3>5, <4>2, <1>t DEF InsertApply
    <3> QED BY <3>2, <3>3, <3>4, <3>5, StoreStep
  <2> QED BY <2>1, <2>2, <1>l DEF PageOf
<1>2. CASE c = b
  <2>1. CASE pc'[b] \notin {"locklast", "extending", "locknew", "apply"}
    BY <1>2, <2>1 DEF PageOf
  <2>2. CASE UNCHANGED <<pc, loc, used>>
    BY <1>2, <2>2, <1>l DEF PageOf
  <2>3. CASE FindLastPage(b)
    <3>1. pc'[b] = "extend" \/ (pc'[b] = "locklast" /\ loc'[b].pg = nblocks /\ nblocks \in Page)
      BY <2>3, <1>t DEF FindLastPage, Page, Locals
    <3> QED BY <1>2, <3>1 DEF PageOf
  <2>4. CASE ExtendBegin(b)
    <3>1. pc'[b] = "extending" /\ loc'[b].pg = nblocks + 1 /\ nblocks + 1 \in Page
      BY <2>4, <1>t DEF ExtendBegin, Page, Locals
    <3> QED BY <1>2, <3>1 DEF PageOf
  <2>5. CASE LockLastPage(b)
    <3>1. loc' = loc /\ used' = used /\ loc[b].pg \in Page
      BY <2>5, <1>l DEF LockLastPage, PageOf, store
    <3>2. pc'[b] = "extend" \/ (pc'[b] = "apply" /\ used[loc[b].pg] < PageCap)
      BY <2>5, <1>t DEF LockLastPage, HasSpace
    <3> QED BY <1>2, <3>1, <3>2 DEF PageOf
  <2>6. CASE Extends(b)
    BY <1>2, <2>6, <1>l, <1>t DEF Extends, PageOf
  <2>7. CASE LockNewPage(b)
    <3>1. pc'[b] = "apply" /\ loc' = loc /\ loc[b].pg \in Page /\ used'[loc[b].pg] = 0
      BY <2>7, <1>t, <1>l DEF LockNewPage, PageOf
    <3> QED BY <1>2, <3>1 DEF PageOf
  <2>8. CASE ExtendEnd(b) /\ ~Error(b)
    <3>1. Extends(b)
      BY <2>8, <1>t DEF ExtendEnd, Extends
    <3> QED BY <3>1, <2>6
  <2> QED BY <2>1, <2>2, <2>3, <2>4, <2>5, <2>7, <2>8, <1>t DEF Step, InsertStep, ScanStep,
       FollowStep, InsertFind, LockFirst, LockSecond, InsertApply, ScanBegin, ScanPage, PropsTooLong, ScanEnd,
       DropNode, FollowBegin, FollowLock, FollowItem, FollowSecond, FollowEnd, BeginTxn, CommitTxn,
       AbortTxn, EndTxn, Error, Return, store
<1> QED BY <1>1, <1>2

\* The invariant of locks and control state is inductive.
LEMMA StructureStep == Structure /\ [Next]_vars => Structure'
<1> SUFFICES ASSUME Structure, [Next]_vars PROVE Structure'
  OBVIOUS
<1>1. TypeOK'
  BY TypeStep
<1>2. CASE UNCHANGED vars
  <2>1. Content'
    BY <1>2, ItemsSame DEF Structure, Content, vars, store
  <2>2. \A b \in Backend : Local(b)'
    BY <1>2 DEF Structure, Local, NodeLocks, EdgeLocks, InTxn, PageOf, LockSeq, vars, store, locks, txns
  <2> QED BY <1>1, <2>1, <2>2 DEF Structure
<1>3. ASSUME NEW b \in Backend, Step(b)
      PROVE  Structure'
  <2>1. Content'
    BY <1>3, ContentStep
  <2>2. ASSUME NEW c \in Backend
        PROVE  NodeLocks(c)' /\ EdgeLocks(c)' /\ InTxn(c)'
    BY <1>3, OthersStep, OthersKeep, NodeLocksStep, EdgeLocksStep, InTxnStep
  <2>3. ASSUME NEW c \in Backend
        PROVE  PageOf(c)'
    BY <1>3, PageOfStep
  <2> QED BY <1>1, <2>1, <2>2, <2>3 DEF Structure, Local
<1> QED BY <1>2, <1>3 DEF Next

\* The locks and the control state fit together in every reachable state.
LEMMA StructureInv == Spec => []Structure
<1>1. Init => Structure
  BY InitInv DEF IInv
<1> QED BY <1>1, StructureStep, PTL DEF Spec

\* Type correctness of the edge store, for any number of backends, nodes,
\* edges, pages and transactions, and whoever extends the relation: in particular
\* an edge page is never filled beyond its capacity.
THEOREM TypeCorrect == Spec => []TypeOK
<1>1. Structure => TypeOK
  BY DEF Structure
<1> QED BY <1>1, StructureInv, PTL

\* The lock order of insert_edge, delete_edge, update_edge_props and the
\* traversal: whoever waits for a buffer holds only buffers that come before it.
THEOREM LockOrderHolds == Spec => []LockOrder
<1>1. Structure => LockOrder
  <2> SUFFICES ASSUME Structure, NEW b \in Backend
               PROVE  /\ \A k \in NodeBlk : WaitsForNodeBlk(b, k) =>
                          /\ \A j \in NodeBlk : nlock[j] = b => j < k
                          /\ \A p \in Page : elock[p] # b /\ b \notin eshare[p]
                      /\ WaitsForEdgePage(b) => \A p \in Page : elock[p] # b /\ b \notin eshare[p]
    BY DEF LockOrder
  <2>1. NodeLocks(b) /\ EdgeLocks(b)
    BY DEF Structure, Local
  <2> QED BY <2>1 DEF WaitsForNodeBlk, WaitsForEdgePage, NodeLocks, EdgeLocks, Inserting, BothLocked
<1> QED BY <1>1, StructureInv, PTL

-----------------------------------------------------------------------------
(* Pages, heads and chains, until a block is handed out twice.             *)

\* An insert whose control state and pages are left alone stays placed.
LEMMA PagesStep ==
    ASSUME twice' = {}, Structure, Pages, NEW b \in Backend, Step(b)
    PROVE  Pages'
<1>t. /\ pc \in [Backend -> Control] /\ loc \in [Backend -> Locals]
      /\ used \in [Page -> 0..Absent] /\ nblocks \in 0..MaxPages
      /\ elock \in [Page -> Backend \cup {None}]
  BY DEF Structure, TypeOK, ControlOK, StoreOK, LocksOK
<1>l. \A c \in Backend : PageOf(c) /\ EdgeLocks(c) /\ Placed(c)
  BY DEF Structure, Local, Pages
<1>o. \A c \in Backend : c # b => pc'[c] = pc[c] /\ loc'[c] = loc[c]
  BY OthersStep DEF Untouched
<1>p. \A p \in Page : p \in Nat /\ p >= 1
  BY DEF Page
<1>1. CASE UNCHANGED <<nblocks, used>> /\ pc'[b] \notin {"locklast", "extending", "locknew", "apply"}
  <2>1. \A c \in Backend : Placed(c)'
    BY <1>1, <1>l, <1>o DEF Placed
  <2>2. \A c, d \in Backend : Alone(c, d)'
    BY <1>1, <1>o DEF Pages, Alone
  <2> QED BY <1>1, <2>1, <2>2 DEF Pages
<1>2. CASE UNCHANGED <<nblocks, used, pc, loc>>
  BY <1>2 DEF Pages, Placed, Alone
<1>3. CASE FindLastPage(b)
  <2>1. UNCHANGED <<nblocks, used>>
    BY <1>3 DEF FindLastPage, store
  <2>2. CASE pc'[b] = "locklast" /\ loc'[b].pg = nblocks
    <3>1. \A c \in Backend : Placed(c)'
      BY <2>1, <2>2, <1>l, <1>o, <1>t DEF Placed
    <3>2. \A c, d \in Backend : Alone(c, d)'
      BY <2>2, <1>o DEF Pages, Alone
    <3> QED BY <2>1, <3>1, <3>2 DEF Pages
  <2>3. CASE pc'[b] = "extend"
    BY <2>1, <2>3, <1>1
  <2> QED BY <1>3, <2>2, <2>3, <1>t DEF FindLastPage, Locals
<1>4. CASE LockLastPage(b)
  <2>1. UNCHANGED <<nblocks, used, loc>> /\ pc[b] = "locklast" /\ (pc'[b] = "apply" \/ pc'[b] = "extend")
    BY <1>4, <1>t DEF LockLastPage, store
  <2>2. \A c \in Backend : Placed(c)'
    BY <2>1, <1>l, <1>o DEF Placed
  <2>3. \A c, d \in Backend : Alone(c, d)'
    BY <2>1, <1>o DEF Pages, Alone
  <2> QED BY <2>1, <2>2, <2>3 DEF Pages
<1>5. CASE ExtendBegin(b)
  <2>1. UNCHANGED <<nblocks, used>> /\ pc'[b] = "extending" /\ loc'[b].pg = nblocks + 1
    BY <1>5, <1>t DEF ExtendBegin, Locals, store
  <2>2. ASSUME NEW c \in Backend PROVE Placed(c)'
    <3>1. CASE c = b
      BY <2>1, <3>1, <1>t DEF Placed
    <3>2. CASE c # b
      BY <2>1, <3>2, <1>l, <1>o DEF Placed
    <3> QED BY <3>1, <3>2
  <2>3. \A c, d \in Backend : Alone(c, d)'
    BY <2>1, <1>o DEF Pages, Alone
  <2> QED BY <2>1, <2>2, <2>3 DEF Pages
<1>6. CASE Extends(b)
  <2>1. /\ pc[b] = "extending" /\ pc'[b] = "locknew" /\ loc' = loc
        /\ loc[b].pg = nblocks + 1 /\ loc[b].pg \in Page
        /\ used' = [used EXCEPT ![loc[b].pg] = Zeroed] /\ nblocks' = loc[b].pg
    <3>1. loc[b].pg \in Page /\ loc[b].pg <= nblocks + 1 /\ used[loc[b].pg] = Absent
      BY <1>6, <1>l DEF Extends, Placed, PageOf
    <3>2. loc[b].pg = nblocks + 1
      BY <3>1, <1>t, <1>p DEF Pages
    <3> QED BY <1>6, <3>1, <3>2, <1>t DEF Extends
  <2>3. ASSUME NEW c \in Backend PROVE Placed(c)'
    <3>1. CASE c = b
      BY <2>1, <3>1, <1>t DEF Placed
    <3>2. CASE c # b
      <4>1. pc[c] = "locknew" => loc[c].pg \in Page /\ loc[c].pg # loc[b].pg
        BY <2>1, <1>l, <1>t, <1>p DEF PageOf, Placed
      <4>2. pc[c] \in {"locklast", "locknew", "apply"} => loc[c].pg <= nblocks'
        BY <2>1, <1>l, <1>t, <1>p DEF PageOf, Placed
      <4>3. pc[c] = "extending" => loc[c].pg <= nblocks' + 1
        BY <2>1, <1>l, <1>t, <1>p DEF PageOf, Placed
      <4> QED BY <2>1, <3>2, <4>1, <4>2, <4>3, <1>l, <1>o, <1>t DEF Placed
    <3> QED BY <3>1, <3>2
  <2>4. ASSUME NEW c \in Backend, NEW d \in Backend PROVE Alone(c, d)'
    <3>1. \A g \in Backend : g # b /\ pc[g] = "locknew" => loc[g].pg # loc[b].pg
      BY <2>1, <1>l, <1>t, <1>p DEF PageOf, Placed
    <3> QED BY <2>1, <3>1, <1>o DEF Pages, Alone
  <2>5. \A p \in Page : p <= nblocks' <=> used'[p] # Absent
    BY <2>1, <1>t, <1>p, Constants DEF Pages
  <2> QED BY <2>3, <2>4, <2>5 DEF Pages
<1>7. CASE LockNewPage(b)
  <2>1. /\ pc[b] = "locknew" /\ pc'[b] = "apply" /\ loc' = loc /\ nblocks' = nblocks
        /\ loc[b].pg \in Page /\ loc[b].pg <= nblocks /\ used' = [used EXCEPT ![loc[b].pg] = 0]
    BY <1>7, <1>l, <1>t DEF LockNewPage, Placed, PageOf
  <2>2. ASSUME NEW c \in Backend PROVE Placed(c)'
    <3>1. CASE c = b
      BY <2>1, <3>1 DEF Placed
    <3>2. CASE c # b
      <4>1. pc[c] = "locknew" => loc[c].pg \in Page /\ loc[c].pg # loc[b].pg
        BY <2>1, <3>2, <1>l DEF PageOf, Pages, Alone
      <4> QED BY <2>1, <3>2, <4>1, <1>l, <1>o, <1>t DEF Placed
    <3> QED BY <3>1, <3>2
  <2>3. \A c, d \in Backend : Alone(c, d)'
    BY <2>1, <1>o DEF Pages, Alone
  <2>4. \A p \in Page : p <= nblocks' <=> used'[p] # Absent
    BY <2>1, <1>t, <1>p DEF Pages, Absent
  <2> QED BY <2>2, <2>3, <2>4 DEF Pages
<1>8. CASE InsertApply(b)
  <2>1. /\ pc[b] = "apply" /\ pc'[b] = "idle" /\ nblocks' = nblocks
        /\ loc[b].pg \in Page /\ loc[b].pg <= nblocks /\ used[loc[b].pg] < PageCap
        /\ used' = [used EXCEPT ![loc[b].pg] = used[loc[b].pg] + 1]
    BY <1>8, <1>l, <1>t DEF InsertApply, Return, Placed, PageOf
  <2>2. ASSUME NEW c \in Backend PROVE Placed(c)'
    <3>1. CASE c = b
      BY <2>1, <3>1 DEF Placed
    <3>2. CASE c # b
      <4>1. pc[c] = "locknew" => loc[c].pg \in Page /\ loc[c].pg # loc[b].pg
        BY <2>1, <1>l, Constants DEF PageOf, Placed, Zeroed
      <4> QED BY <2>1, <3>2, <4>1, <1>l, <1>o, <1>t DEF Placed
    <3> QED BY <3>1, <3>2
  <2>3. \A c, d \in Backend : Alone(c, d)'
    BY <2>1, <1>o DEF Pages, Alone
  <2>4. used[loc[b].pg] \in Nat /\ used[loc[b].pg] + 1 # Absent /\ used[loc[b].pg] # Absent
    BY <2>1, <1>t DEF Absent
  <2>5. \A p \in Page : p <= nblocks' <=> used'[p] # Absent
    BY <2>1, <2>4, <1>t DEF Pages
  <2> QED BY <2>2, <2>3, <2>5 DEF Pages
<1>9. CASE ExtendEnd(b) /\ ~Error(b)
  <2>1. Extends(b)
    BY <1>9, <1>t DEF ExtendEnd, Extends
  <2> QED BY <2>1, <1>6
<1> QED BY <1>1, <1>2, <1>3, <1>4, <1>5, <1>7, <1>8, <1>9, <1>t DEF Step, InsertStep, ScanStep,
       FollowStep, InsertFind, LockFirst, LockSecond, ExtendEnd, ScanBegin, ScanPage, PropsTooLong, ScanEnd,
       DropNode, FollowBegin, FollowLock, FollowItem, FollowSecond, FollowEnd, BeginTxn, CommitTxn,
       AbortTxn, EndTxn, Error, Return, store

\* Two inserts that both hold their node pages work on different nodes.
LEMMA Apart ==
    ASSUME Structure, NEW b \in Backend, NEW c \in Backend, b # c,
           pc[b] \in BothLocked, pc[c] \in BothLocked
    PROVE  {loc[b].src, loc[b].tgt} \cap {loc[c].src, loc[c].tgt} = {}
BY DEF Structure, Local, NodeLocks

\* The headers copied under the node locks stay what the pages hold.
LEMMA HeadsStep ==
    ASSUME Structure, \A c \in Backend : Heads(c), NEW b \in Backend, Step(b), NEW c \in Backend
    PROVE  Heads(c)'
<1>t. /\ pc \in [Backend -> Control] /\ loc \in [Backend -> Locals]
  BY DEF Structure, TypeOK, ControlOK
<1>n. \A d \in Backend : pc[d] \in Inserting => loc[d].src \in Node /\ loc[d].tgt \in Node
  BY DEF Structure, Local, NodeLocks
<1>1. CASE c # b
  <2>1. pc'[c] = pc[c] /\ loc'[c] = loc[c]
    BY <1>1, OthersStep DEF Untouched
  <2>2. CASE hdr' = hdr
    BY <2>1, <2>2 DEF Heads
  <2>3. CASE InsertApply(b)
    <3> SUFFICES ASSUME pc[c] \in BothLocked
                 PROVE  /\ hdr'[loc[c].src] = hdr[loc[c].src]
                        /\ hdr'[loc[c].tgt] = hdr[loc[c].tgt]
      BY <2>1 DEF Heads
    <3>1. {loc[b].src, loc[b].tgt} \cap {loc[c].src, loc[c].tgt} = {}
      BY <2>3, <1>1, Apart DEF InsertApply, Inserting, BothLocked
    <3>2. loc[c].src \in Node /\ loc[c].tgt \in Node
      BY <1>n DEF BothLocked
    <3>3. PICK s, t, x, y : s = loc[b].src /\ t = loc[b].tgt /\ hdr' = [hdr EXCEPT ![s] = x, ![t] = y]
      BY <2>3 DEF InsertApply, NewHeaders
    <3>4. hdr \in [Node -> Header]
      BY DEF Structure, TypeOK, StoreOK
    <3>5. \A n \in Node \ {s, t} : hdr'[n] = hdr[n]
      BY <3>3, <3>4
    <3> QED BY <3>1, <3>2, <3>3, <3>5
  <2> QED BY <2>2, <2>3, StoreStep DEF Rewrites, Extends, LockNewPage
<1>2. CASE c = b
  <2>1. CASE pc'[b] \notin BothLocked
    BY <1>2, <2>1 DEF Heads
  <2>2. CASE LockFirst(b) \/ LockSecond(b)
    <3>1. hdr' = hdr
      BY <2>2 DEF LockFirst, LockSecond, store
    <3>2. CASE pc'[b] = "lock2"
      BY <2>1, <3>2 DEF BothLocked
    <3>3. CASE ReadHeaders(b)
      <4>1. /\ loc'[b].src = loc[b].src /\ loc'[b].tgt = loc[b].tgt
            /\ loc'[b].srcAdj = hdr[loc[b].src] /\ loc'[b].tgtAdj = hdr[loc[b].tgt]
        BY <3>3, <1>t DEF ReadHeaders, Locals
      <4> QED BY <1>2, <3>1, <4>1 DEF Heads
    <3> QED BY <2>2, <3>2, <3>3, <1>t DEF LockFirst, LockSecond
  <2>3. CASE FindLastPage(b) \/ LockLastPage(b) \/ ExtendBegin(b) \/ (ExtendEnd(b) /\ ~Error(b)) \/ LockNewPage(b)
    <3>1. hdr' = hdr /\ pc[b] \in BothLocked
      BY <2>3 DEF FindLastPage, LockLastPage, ExtendBegin, ExtendEnd, LockNewPage, store, Inserting, BothLocked
    <3>2. /\ loc'[b].src = loc[b].src /\ loc'[b].tgt = loc[b].tgt
          /\ loc'[b].srcAdj = loc[b].srcAdj /\ loc'[b].tgtAdj = loc[b].tgtAdj
      BY <2>3, <1>t DEF FindLastPage, LockLastPage, ExtendBegin, ExtendEnd, LockNewPage, Locals
    <3> QED BY <1>2, <3>1, <3>2 DEF Heads
  <2>4. CASE BeginTxn(b) \/ CommitTxn(b) \/ AbortTxn(b) \/ \E n \in Node : DropNode(b, n)
    <3>1. UNCHANGED <<pc, loc, hdr>>
      BY <2>4 DEF BeginTxn, CommitTxn, AbortTxn, EndTxn, DropNode, store
    <3> QED BY <1>2, <3>1 DEF Heads
  <2>5. CASE \/ \E s, t \in Node : InsertFind(b, s, t)
             \/ Error(b) \/ InsertApply(b)
             \/ \E e \in Edge, task \in {"delete", "props"} : ScanBegin(b, e, task)
             \/ ScanStep(b)
             \/ \E n \in Node, dir \in {"out", "in", "both"} : FollowBegin(b, n, dir)
             \/ FollowStep(b)
    <3>1. pc'[b] \notin BothLocked
      BY <2>5, <1>t DEF InsertFind, Error, InsertApply, Return, ScanBegin, ScanStep, ScanPage, PropsTooLong, ScanEnd,
         FollowBegin, FollowStep, FollowLock, FollowItem, FollowSecond, FollowEnd, FollowDone,
         Inserting, BothLocked
    <3> QED BY <3>1, <2>1
  <2> QED BY <2>2, <2>3, <2>4, <2>5 DEF Step, InsertStep
<1> QED BY <1>1, <1>2

\* Apart from InsertApply no step changes the end points, the pointers or the
\* set of items.
LEMMA ItemsKept ==
    ASSUME twice' = {}, Structure, Pages, NEW b \in Backend, Step(b), ~InsertApply(b)
    PROVE  /\ hdr' = hdr
           /\ Items' = Items
           /\ \A a \in Items :
                /\ item'[a].src = item[a].src /\ item'[a].tgt = item[a].tgt
                /\ item'[a].nextOut = item[a].nextOut /\ item'[a].nextIn = item[a].nextIn
<1>1. CASE UNCHANGED <<hdr, nblocks, used, item>>
  BY <1>1, ItemsSame
<1>2. CASE Rewrites(b)
  BY <1>2, ItemsRewrites DEF Rewrites
<1>3. CASE Extends(b)
  BY <1>3, ItemsExtends DEF Extends
<1>4. CASE LockNewPage(b)
  <2>1. used[loc[b].pg] = Zeroed
    BY <1>4 DEF LockNewPage, Pages, Placed
  <2>2. \A a \in Items : a[1] # loc[b].pg
    BY <2>1, Constants DEF Items
  <2>3. Items' = {a \in Items : a[1] # loc[b].pg} /\ (\A a \in Items' : item'[a] = item[a])
    BY <1>4, ItemsNewPage
  <2>4. Items' = Items
    BY <2>2, <2>3
  <2>5. hdr' = hdr
    BY <1>4 DEF LockNewPage
  <2> QED BY <2>3, <2>4, <2>5
<1> QED BY <1>1, <1>2, <1>3, <1>4, StoreStep

\* The page an insert has chosen stays beyond the edges of its two chains.
LEMMA PositionStep ==
    ASSUME twice' = {}, Structure, Pages, \A c \in Backend : Position(c),
           NEW b \in Backend, Step(b), NEW c \in Backend
    PROVE  Position(c)'
<1>t. pc \in [Backend -> Control] /\ loc \in [Backend -> Locals] /\ nblocks \in 0..MaxPages
  BY DEF Structure, TypeOK, ControlOK, StoreOK
<1>i. \A a \in Items : a[1] \in Nat /\ a[1] <= nblocks
  <2>1. \A a \in Items : a[1] \in Page /\ a[1] \in Nat /\ used[a[1]] # Absent
    BY Constants DEF Items, Addr, Page
  <2> QED BY <2>1 DEF Pages
<1>1. CASE InsertApply(b)
  <2>1. CASE c = b
    BY <1>1, <2>1, <1>t DEF InsertApply, Return, Position
  <2>2. CASE c # b
    <3>1. pc'[c] = pc[c] /\ loc'[c] = loc[c]
      BY <2>2, OthersStep DEF Untouched
    <3> SUFFICES ASSUME pc[c] \in {"locklast", "locknew", "apply"}, NEW a \in Items',
                        item'[a].src = loc[c].src \/ item'[a].tgt = loc[c].tgt
                 PROVE  a[1] <= loc[c].pg
      BY <3>1 DEF Position
    <3>2. loc[b].src # loc[c].src /\ loc[b].tgt # loc[c].tgt
      BY <1>1, <2>2, Apart DEF InsertApply, Inserting, BothLocked
    <3>3. a \in Items /\ item'[a] = item[a]
      <4>1. NewItem(b).src = loc[b].src /\ NewItem(b).tgt = loc[b].tgt
        BY DEF NewItem
      <4>2. a # NewAddr(b)
        BY <1>1, <3>2, <4>1, ItemsInsert
      <4> QED BY <1>1, <4>2, ItemsInsert
    <3> QED BY <3>3 DEF Position
  <2> QED BY <2>1, <2>2
<1>2. CASE ~InsertApply(b)
  <2>0. /\ Items' = Items
        /\ \A a \in Items : item'[a].src = item[a].src /\ item'[a].tgt = item[a].tgt
    BY <1>2, ItemsKept
  <2>1. CASE c # b
    <3>1. pc'[c] = pc[c] /\ loc'[c] = loc[c]
      BY <2>1, OthersStep DEF Untouched
    <3> QED BY <2>0, <3>1 DEF Position
  <2>2. CASE c = b
    <3>1. CASE pc'[b] \notin {"locklast", "locknew", "apply"}
      BY <2>2, <3>1 DEF Position
    <3>2. CASE FindLastPage(b) /\ pc'[b] = "locklast"
      <4>1. loc'[b].pg = nblocks
        BY <3>2, <1>t DEF FindLastPage, Locals
      <4> QED BY <2>0, <2>2, <4>1, <1>i DEF Position
    <3>3. CASE Extends(b)
      <4>1. loc' = loc /\ loc[b].pg \in Page /\ used[loc[b].pg] = Absent
        BY <3>3 DEF Extends, Structure, Local, PageOf
      <4>2. ~(loc[b].pg <= nblocks) /\ loc[b].pg \in Nat
        BY <4>1 DEF Pages, Page
      <4> QED BY <2>0, <2>2, <4>1, <4>2, <1>i, <1>t DEF Position
    <3>4. CASE LockLastPage(b) \/ LockNewPage(b)
      <4>1. loc' = loc /\ pc[b] \in {"locklast", "locknew", "apply"}
        BY <3>4 DEF LockLastPage, LockNewPage
      <4> QED BY <2>0, <2>2, <4>1 DEF Position
    <3>5. CASE UNCHANGED <<pc, loc>>
      BY <2>0, <2>2, <3>5 DEF Position
    <3>6. CASE ExtendEnd(b) /\ ~Error(b)
      <4>1. Extends(b)
        BY <3>6, <1>t DEF ExtendEnd, Extends
      <4> QED BY <4>1, <3>3
    <3> QED BY <3>1, <3>2, <3>4, <3>5, <3>6, <1>2, <1>t DEF Step, InsertStep, ScanStep,
         FollowStep, InsertFind, LockFirst, LockSecond, FindLastPage, ExtendBegin, ScanBegin, ScanPage,
         PropsTooLong, ScanEnd, DropNode, FollowBegin, FollowLock, FollowItem, FollowSecond, FollowEnd, BeginTxn,
         CommitTxn, AbortTxn, EndTxn, Error, Return
  <2> QED BY <2>1, <2>2
<1> QED BY <1>1, <1>2

\* Physical order: what comes before does not come after.
LEMMA Order ==
    ASSUME NEW a \in Addr, NEW c \in Addr
    PROVE  /\ ~Before(a, a)
           /\ Before(a, c) => ~Before(c, a)
BY DEF Before, Addr, Page, Slot

\* The headers that an insert writes back differ from the ones it read in the two
\* pointers to its item.
LEMMA HeadsInsert ==
    ASSUME Structure, NEW b \in Backend, Heads(b), InsertApply(b)
    PROVE  \A n \in Node :
                /\ hdr'[n].out = IF n = loc[b].src THEN NewAddr(b) ELSE hdr[n].out
                /\ hdr'[n].in = IF n = loc[b].tgt THEN NewAddr(b) ELSE hdr[n].in
<1>0. pc[b] = "apply" /\ loc[b].src \in Node /\ loc[b].tgt \in Node
  BY DEF Structure, Local, NodeLocks, InsertApply, Inserting
<1>a. PICK s \in Node, t \in Node, new \in {NewAddr(b)} : s = loc[b].src /\ t = loc[b].tgt
  BY <1>0
<1>1. hdr[s] \in Header /\ hdr[t] \in Header /\ loc[b].srcAdj = hdr[s] /\ loc[b].tgtAdj = hdr[t]
  BY <1>0, <1>a DEF Structure, TypeOK, StoreOK, Heads, Inserting, BothLocked
<1>2. \A n \in Node : hdr[n] \in Header
  BY DEF Structure, TypeOK, StoreOK
<1>3. hdr' = [hdr EXCEPT ![s] = NewSrcAdj(b), ![t] = NewTgtAdj(b)]
  BY <1>a DEF InsertApply, NewHeaders
<1>4. NewSrcAdj(b).out = new /\ NewSrcAdj(b).in = hdr[s].in
  BY <1>a, <1>1 DEF NewSrcAdj, Header
<1>5. NewTgtAdj(b).in = new /\ NewTgtAdj(b).out = IF s = t THEN new ELSE hdr[t].out
  BY <1>a, <1>1, <1>4 DEF NewTgtAdj, NewSrcAdj, Header
<1>6. hdr \in [Node -> Header]
  BY DEF Structure, TypeOK, StoreOK
<1> QED BY <1>a, <1>3, <1>4, <1>5, <1>6

\* The chains stay exact when an insert writes its item and the headers: the
\* new item comes after every edge of the two chains, so it is their new last.
LEMMA ChainInsert ==
    ASSUME Structure, \A c \in Backend : Heads(c) /\ Position(c), Chains,
           NEW b \in Backend, InsertApply(b)
    PROVE  Chains'
<1> DEFINE O(n) == {c \in Items' : item'[c].src = n}
           I(n) == {c \in Items' : item'[c].tgt = n}
<1>0. pc[b] = "apply" /\ loc[b].src \in Node /\ loc[b].tgt \in Node
  BY DEF Structure, Local, NodeLocks, InsertApply, Inserting
<1>a. PICK s \in Node, t \in Node : s = loc[b].src /\ t = loc[b].tgt
  BY <1>0
<1>b. PICK new \in Addr : new = NewAddr(b)
  BY ItemsInsert
<1>1. /\ new \notin Items /\ Items' = Items \cup {new}
      /\ item'[new] = NewItem(b) /\ \A a \in Items : item'[a] = item[a] /\ a \in Addr
  BY <1>b, ItemsInsert DEF Items
<1>2. \A n \in Node : /\ hdr'[n].out = IF n = s THEN new ELSE hdr[n].out
                      /\ hdr'[n].in  = IF n = t THEN new ELSE hdr[n].in
  BY <1>a, <1>b, HeadsInsert
<1>3. /\ item'[new].src = s /\ item'[new].tgt = t
      /\ item'[new].nextOut = hdr[s].out /\ item'[new].nextIn = hdr[t].in
  BY <1>0, <1>1, <1>a DEF NewItem, Heads, Inserting, BothLocked
<1>4. \A a \in Items : item[a].src = s \/ item[a].tgt = t => Before(a, new)
  <2> SUFFICES ASSUME NEW a \in Items, item[a].src = s \/ item[a].tgt = t
               PROVE  Before(a, new)
    OBVIOUS
  <2>1. a[1] <= loc[b].pg
    BY <1>0, <1>a DEF Position
  <2>2. new[1] = loc[b].pg /\ new[2] = used[loc[b].pg] + 1
    BY <1>b DEF NewAddr
  <2>3. a[1] \in Nat /\ a[2] \in Nat /\ a[2] <= used[a[1]]
    BY DEF Items, Addr, Page, Slot
  <2>4. loc[b].pg \in Nat /\ used[loc[b].pg] \in Nat
    <3>1. loc[b].pg \in Page /\ used \in [Page -> 0..Absent]
      BY <1>0 DEF Structure, Local, PageOf, TypeOK, StoreOK
    <3> QED BY <3>1, Constants DEF Page
  <2> QED BY <2>1, <2>2, <2>3, <2>4 DEF Before
<1>5. \A n \in Node : O(n) = IF n = s THEN OutItems(n) \cup {new} ELSE OutItems(n)
  BY <1>1, <1>3 DEF OutItems
<1>6. \A n \in Node : I(n) = IF n = t THEN InItems(n) \cup {new} ELSE InItems(n)
  BY <1>1, <1>3 DEF InItems
<1>7. \A a \in OutItems(s) : Before(a, new) /\ a # new
  BY <1>1, <1>4 DEF OutItems
<1>8. \A a \in InItems(t) : Before(a, new) /\ a # new
  BY <1>1, <1>4 DEF InItems
<1>9. \A n \in Node : LastOf(O(n), hdr'[n].out) /\ LastOf(I(n), hdr'[n].in)
  <2> SUFFICES ASSUME NEW n \in Node
               PROVE  LastOf(O(n), hdr'[n].out) /\ LastOf(I(n), hdr'[n].in)
    OBVIOUS
  <2>0. LastOf(OutItems(n), hdr[n].out) /\ LastOf(InItems(n), hdr[n].in)
    BY DEF Chains
  <2> HIDE DEF O, I
  <2>1. LastOf(O(n), hdr'[n].out)
    BY <2>0, <1>2, <1>5, <1>7 DEF LastOf
  <2>2. LastOf(I(n), hdr'[n].in)
    BY <2>0, <1>2, <1>6, <1>8 DEF LastOf
  <2> QED BY <2>1, <2>2
<1>10. \A a \in Items' :
         /\ LastOf({c \in O(item'[a].src) : Before(c, a)}, item'[a].nextOut)
         /\ LastOf({c \in I(item'[a].tgt) : Before(c, a)}, item'[a].nextIn)
  <2> SUFFICES ASSUME NEW a \in Items'
               PROVE  /\ LastOf({c \in O(item'[a].src) : Before(c, a)}, item'[a].nextOut)
                      /\ LastOf({c \in I(item'[a].tgt) : Before(c, a)}, item'[a].nextIn)
    OBVIOUS
  <2> HIDE DEF O, I
  <2>1. CASE a = new
    <3>0. ~Before(new, new)
      BY Order
    <3>1. {c \in O(s) : Before(c, new)} = OutItems(s)
      BY <3>0, <1>5, <1>7
    <3>2. {c \in I(t) : Before(c, new)} = InItems(t)
      BY <3>0, <1>6, <1>8
    <3>3. LastOf(OutItems(s), hdr[s].out) /\ LastOf(InItems(t), hdr[t].in)
      BY DEF Chains
    <3> QED BY <2>1, <3>1, <3>2, <3>3, <1>3
  <2>2. CASE a # new
    <3>1. a \in Items /\ item'[a] = item[a] /\ a \in Addr /\ item[a].src \in Node /\ item[a].tgt \in Node
      BY <2>2, <1>1 DEF Structure, Content, Item
    <3>2. /\ LastOf({c \in OutItems(item[a].src) : Before(c, a)}, item[a].nextOut)
          /\ LastOf({c \in InItems(item[a].tgt) : Before(c, a)}, item[a].nextIn)
      BY <3>1 DEF Chains
    <3>3. item[a].src = s => ~Before(new, a)
      BY <3>1, <1>7, Order DEF OutItems
    <3>4. item[a].tgt = t => ~Before(new, a)
      BY <3>1, <1>8, Order DEF InItems
    <3>5. {c \in O(item[a].src) : Before(c, a)} = {c \in OutItems(item[a].src) : Before(c, a)}
      BY <3>1, <3>3, <1>5
    <3>6. {c \in I(item[a].tgt) : Before(c, a)} = {c \in InItems(item[a].tgt) : Before(c, a)}
      BY <3>1, <3>4, <1>6
    <3> QED BY <3>1, <3>2, <3>5, <3>6
  <2> QED BY <2>1, <2>2
<1> QED BY <1>9, <1>10 DEF Chains, OutItems, InItems

\* Every other step leaves the chains as they are.
LEMMA ChainKept ==
    ASSUME Chains, Content, hdr' = hdr, Items' = Items,
           \A a \in Items :
                /\ item'[a].src = item[a].src /\ item'[a].tgt = item[a].tgt
                /\ item'[a].nextOut = item[a].nextOut /\ item'[a].nextIn = item[a].nextIn
    PROVE  Chains'
<1> DEFINE O(n) == {c \in Items' : item'[c].src = n}
           I(n) == {c \in Items' : item'[c].tgt = n}
<1>1. \A n : O(n) = OutItems(n) /\ I(n) = InItems(n)
  BY DEF OutItems, InItems
<1>2. /\ \A n \in Node : LastOf(O(n), hdr'[n].out) /\ LastOf(I(n), hdr'[n].in)
      /\ \A a \in Items' :
         /\ LastOf({c \in O(item'[a].src) : Before(c, a)}, item'[a].nextOut)
         /\ LastOf({c \in I(item'[a].tgt) : Before(c, a)}, item'[a].nextIn)
  <2> HIDE DEF O, I
  <2> QED BY <1>1 DEF Chains
<1> QED BY <1>2 DEF Chains, OutItems, InItems

\* A step that hands out no block twice keeps the full invariant.
LEMMA IInvStep == IInv /\ twice' = {} /\ [Next]_vars => IInv'
<1> SUFFICES ASSUME IInv, twice' = {}, [Next]_vars PROVE IInv'
  OBVIOUS
<1>1. Structure /\ Pages /\ Chains /\ \A c \in Backend : Heads(c) /\ Position(c)
  BY DEF IInv
<1>2. Structure'
  BY <1>1, StructureStep
<1>3. CASE UNCHANGED vars
  <2>1. Items' = Items
    BY <1>3, ItemsSame DEF vars, store
  <2>2. Chains'
    BY <1>1, <1>3, <2>1, ChainKept DEF Structure, vars, store
  <2>3. Pages'
    BY <1>1, <1>3 DEF Pages, Placed, Alone, vars, store
  <2>4. \A c \in Backend : Heads(c)' /\ Position(c)'
    BY <1>1, <1>3, <2>1 DEF Heads, Position, vars, store
  <2> QED BY <1>2, <2>2, <2>3, <2>4 DEF IInv
<1>4. ASSUME NEW b \in Backend, Step(b)
      PROVE  IInv'
  <2>1. Pages'
    BY <1>1, <1>4, PagesStep
  <2>2. ASSUME NEW c \in Backend PROVE Heads(c)' /\ Position(c)'
    BY <1>1, <1>4, HeadsStep, PositionStep
  <2>3. Chains'
    <3>1. CASE InsertApply(b)
      BY <1>1, <3>1, ChainInsert
    <3>2. CASE ~InsertApply(b)
      BY <1>1, <1>4, <3>2, ItemsKept, ChainKept DEF Structure
    <3> QED BY <3>1, <3>2
  <2> QED BY <1>2, <2>1, <2>2, <2>3 DEF IInv
<1> QED BY <1>3, <1>4 DEF Next

\* What P_NEW handed out twice stays recorded.
LEMMA TwiceGrows == [Next]_vars => twice \subseteq twice'
<1> SUFFICES ASSUME [Next]_vars PROVE twice' = twice \/ \E b \in Backend : ExtendEnd(b) /\ ~Error(b)
  BY DEF ExtendEnd
<1>1. CASE UNCHANGED vars
  BY <1>1 DEF vars, store
<1>2. ASSUME NEW b \in Backend, Step(b), ~ExtendEnd(b) \/ Error(b) PROVE twice' = twice
  BY <1>2 DEF Step, InsertStep, ScanStep, FollowStep, BeginTxn, CommitTxn, AbortTxn, EndTxn,
     InsertFind, Error, LockFirst, LockSecond, FindLastPage, LockLastPage, ExtendBegin,
     LockNewPage, InsertApply, ScanBegin, ScanPage, PropsTooLong, ScanEnd, DropNode, FollowBegin,
     FollowLock, FollowItem, FollowSecond, FollowEnd, store
<1> QED BY <1>1, <1>2 DEF Next

\* The whole invariant is inductive: a step that leaves twice empty found it empty.
LEMMA InvStep == Inv /\ [Next]_vars => Inv'
BY StructureStep, IInvStep, TwiceGrows DEF Inv

\* The whole invariant holds of every reachable state.
LEMMA InvHolds == Spec => []Inv
<1>1. Init => Inv
  BY InitInv DEF Inv, IInv
<1> QED BY <1>1, InvStep, PTL DEF Spec

\* Chain exactness for every instance: however insert_edge, delete_edge,
\* update_edge_props, node deletion and traversals interleave, the chains of a
\* node hold exactly its edges, newest first, until P_NEW hands out a block twice.
THEOREM ChainsExact == Spec => []ChainExact
<1>1. Inv => ChainExact
  BY DEF Inv, IInv, ChainExact
<1> QED BY <1>1, InvHolds, PTL

\* The relation has finitely many items.
LEMMA FiniteItems == IsFiniteSet(Items)
<1>1. IsFiniteSet(Page) /\ IsFiniteSet(Slot)
  BY FS_Interval DEF Page, Slot
<1>2. IsFiniteSet(Addr)
  BY <1>1, FS_Product DEF Addr
<1>3. Items \subseteq Addr
  BY DEF Items
<1> QED BY <1>2, <1>3, FS_Subset

\* The degrees in the headers stay exact too.
LEMMA DegreeStep ==
    ASSUME twice' = {}, IInv, Degrees, [Next]_vars
    PROVE  Degrees'
<1> DEFINE O(n) == {c \in Items' : item'[c].src = n}
           I(n) == {c \in Items' : item'[c].tgt = n}
<1>s. Structure /\ Pages
  BY DEF IInv
<1>d. \A n \in Node : hdr[n].outDegree = Cardinality(OutItems(n)) /\ hdr[n].inDegree = Cardinality(InItems(n))
  BY DEF Degrees
<1>q. (\A n \in Node : hdr'[n].outDegree = Cardinality(O(n)) /\ hdr'[n].inDegree = Cardinality(I(n)))
        => Degrees'
  BY DEF Degrees, OutItems, InItems
<1>1. ASSUME hdr' = hdr, Items' = Items,
             \A a \in Items : item'[a].src = item[a].src /\ item'[a].tgt = item[a].tgt
      PROVE  Degrees'
  <2>1. \A n : O(n) = OutItems(n) /\ I(n) = InItems(n)
    BY <1>1 DEF OutItems, InItems
  <2> HIDE DEF O, I
  <2> QED BY <1>1, <2>1, <1>d, <1>q
<1>2. CASE UNCHANGED vars
  BY <1>2, <1>1, ItemsSame DEF vars, store
<1>3. ASSUME NEW b \in Backend, Step(b), ~InsertApply(b)
      PROVE  Degrees'
  BY <1>3, <1>1, <1>s, ItemsKept
<1>4. ASSUME NEW b \in Backend, InsertApply(b)
      PROVE  Degrees'
  <2>1. PICK new \in Addr : new = NewAddr(b)
    BY <1>4, <1>s, ItemsInsert
  <2>2. /\ new \notin Items /\ Items' = Items \cup {new}
        /\ item'[new] = NewItem(b) /\ \A a \in Items : item'[a] = item[a]
    BY <2>1, <1>4, <1>s, ItemsInsert
  <2>3. item'[new].src = loc[b].src /\ item'[new].tgt = loc[b].tgt
    BY <2>2 DEF NewItem
  <2> SUFFICES ASSUME NEW n \in Node
               PROVE  hdr'[n].outDegree = Cardinality(O(n)) /\ hdr'[n].inDegree = Cardinality(I(n))
    BY <1>q
  <2>4. O(n) = IF n = loc[b].src THEN OutItems(n) \cup {new} ELSE OutItems(n)
    BY <2>2, <2>3 DEF OutItems
  <2>5. I(n) = IF n = loc[b].tgt THEN InItems(n) \cup {new} ELSE InItems(n)
    BY <2>2, <2>3 DEF InItems
  <2>6. IsFiniteSet(OutItems(n)) /\ IsFiniteSet(InItems(n)) /\ new \notin OutItems(n) /\ new \notin InItems(n)
    BY <2>2, FiniteItems, FS_Subset DEF OutItems, InItems
  <2>7. /\ Cardinality(OutItems(n) \cup {new}) = Cardinality(OutItems(n)) + 1
        /\ Cardinality(InItems(n) \cup {new}) = Cardinality(InItems(n)) + 1
    BY <2>6, FS_AddElement
  <2>8. /\ hdr'[n].outDegree = IF n = loc[b].src THEN hdr[n].outDegree + 1 ELSE hdr[n].outDegree
        /\ hdr'[n].inDegree = IF n = loc[b].tgt THEN hdr[n].inDegree + 1 ELSE hdr[n].inDegree
    <3>1. pc[b] = "apply" /\ loc[b].src \in Node /\ loc[b].tgt \in Node
      BY <1>4, <1>s DEF Structure, Local, NodeLocks, InsertApply, Inserting
    <3>2. loc[b].srcAdj = hdr[loc[b].src] /\ loc[b].tgtAdj = hdr[loc[b].tgt]
      BY <3>1 DEF IInv, Heads, Inserting, BothLocked
    <3>3. hdr \in [Node -> Header]
      BY <1>s DEF Structure, TypeOK, StoreOK
    <3>4. hdr' = [hdr EXCEPT ![loc[b].src] = NewSrcAdj(b), ![loc[b].tgt] = NewTgtAdj(b)]
      BY <1>4 DEF InsertApply, NewHeaders
    <3>5. /\ NewSrcAdj(b).outDegree = hdr[loc[b].src].outDegree + 1
          /\ NewSrcAdj(b).inDegree = hdr[loc[b].src].inDegree
      BY <3>1, <3>2, <3>3 DEF NewSrcAdj, Header
    <3>6. /\ NewTgtAdj(b).inDegree = hdr[loc[b].tgt].inDegree + 1
          /\ NewTgtAdj(b).outDegree = IF loc[b].src = loc[b].tgt THEN hdr[loc[b].tgt].outDegree + 1
                                                                ELSE hdr[loc[b].tgt].outDegree
      BY <3>1, <3>2, <3>3, <3>5 DEF NewTgtAdj, NewSrcAdj, Header
    <3> QED BY <3>1, <3>3, <3>4, <3>5, <3>6
  <2> HIDE DEF O, I
  <2> QED BY <2>4, <2>5, <2>7, <2>8, <1>d
<1> QED BY <1>2, <1>3, <1>4 DEF Next

\* Degree exactness for every instance: no increment of out_degree or in_degree
\* is lost, in whatever order concurrent insert_edge calls get their locks.
THEOREM DegreesExact == Spec => []DegreeExact
<1>1. Init => DegreeExact
  <2> SUFFICES ASSUME Init PROVE Degrees
    BY DEF DegreeExact
  <2>1. Items = {}
    BY Constants DEF Init, Items, Addr, Page, Slot
  <2>2. \A n \in Node : OutItems(n) = {} /\ InItems(n) = {}
    BY <2>1 DEF OutItems, InItems
  <2> QED BY <2>2, FS_EmptySet DEF Degrees, Init, EmptyHeader
<1>2. Inv /\ DegreeExact /\ [Next]_vars => DegreeExact'
  BY DegreeStep, TwiceGrows DEF Inv, DegreeExact
<1> QED BY <1>1, <1>2, InvHolds, PTL DEF Spec

-----------------------------------------------------------------------------
(* Traversals that race with writers *)

\* Edge ids are handed out once: items have different ids, and the edge of an
\* insert under way is nobody else's and has no item yet.
Ids ==
    /\ \A a \in Items : item[a].id <= lastId
    /\ \A a, c \in Items : item[a].id = item[c].id => a = c
    /\ \A b \in Backend : pc[b] \in Inserting =>
          loc[b].e <= lastId /\ \A a \in Items : item[a].id # loc[b].e
    /\ \A b, c \in Backend : pc[b] \in Inserting /\ pc[c] \in Inserting /\ loc[b].e = loc[c].e => b = c

\* The items of a node's chain from a pointer on, and those a traversal still
\* has to visit: the rest of its chain, and all of the one it walks next.
From(n, dir, h) == {a \in Items : Incident(n, dir, a) /\ (a = h \/ Before(a, h))}
Rest(b) == From(loc[b].src, loc[b].dir, loc[b].cur) \cup From(loc[b].src, "in", loc[b].inHead)

\* A traversal is on its node's chains, and what was alive when it began is among
\* the edges it has or will still visit, which were all alive then if they are now.
Following(b) ==
    pc[b] \in {"follow", "onpage"} =>
        /\ loc[b].src \in Node
        /\ loc[b].cur # Null => loc[b].cur \in Items /\ Incident(loc[b].src, loc[b].dir, loc[b].cur)
        /\ loc[b].inHead # Null => /\ loc[b].dir = "out"
                                   /\ loc[b].inHead \in Items /\ item[loc[b].inHead].tgt = loc[b].src
        /\ \A e \in loc[b].start : \E a \in Items : item[a].id = e
        /\ loc[b].got \subseteq loc[b].start
        /\ \A a \in Items : item[a].xmax = 0 /\ item[a].id \in loc[b].start =>
              item[a].id \in loc[b].got \/ a \in Rest(b)
        /\ \A a \in Rest(b) : item[a].xmax = 0 => item[a].id \in loc[b].start
-----------------------------------------------------------------------------

(* Items and their ids *)

\* Whatever a step does, the items stay where they are with their ids, end points
\* and pointers, a deleted one stays deleted, and only an insert adds one.
ItemsStay ==
    /\ Items \subseteq Items'
    /\ \A a \in Items :
          /\ item'[a].id = item[a].id /\ item'[a].src = item[a].src /\ item'[a].tgt = item[a].tgt
          /\ item'[a].xmax = 0 => item[a].xmax = 0

\* A step adds an item only when it inserts an edge.
LEMMA ItemsStayStep ==
    ASSUME twice' = {}, Structure, Pages, NEW b \in Backend, Step(b)
    PROVE  /\ ItemsStay
           /\ ~InsertApply(b) => Items' = Items
           /\ InsertApply(b) => /\ NewAddr(b) \in Addr /\ Items' = Items \cup {NewAddr(b)}
                                /\ item'[NewAddr(b)] = NewItem(b)
<1>1. CASE UNCHANGED <<hdr, nblocks, used, item>>
  <2>1. Items' = Items
    BY <1>1, ItemsSame
  <2>2. ~InsertApply(b)
    <3>1. InsertApply(b) => used' # used
      BY DEF InsertApply, Structure, Local, PageOf, TypeOK, StoreOK
    <3> QED BY <3>1, <1>1
  <2> QED BY <2>1, <2>2, <1>1 DEF ItemsStay
<1>2. CASE Rewrites(b)
  <2>1. PICK c \in Items : item' = [item EXCEPT ![c].xmax = xid[b]]
                          \/ item' = [item EXCEPT ![c].propsBy = xid[b]]
    BY <1>2 DEF Rewrites
  <2>2. ASSUME NEW a \in Items PROVE item'[a].xmax = 0 => item[a].xmax = 0
    <3>1. item[a] \in Item /\ a \in Addr /\ item \in [Addr -> Item \cup {NoItem}] /\ xid[b] # 0
      BY <1>2 DEF Structure, Content, Items, TypeOK, StoreOK, Rewrites, Xid
    <3>2. \/ item'[a] = item[a] \/ item'[a] = [item[a] EXCEPT !.xmax = xid[b]]
          \/ item'[a] = [item[a] EXCEPT !.propsBy = xid[b]]
      BY <2>1, <3>1
    <3> QED BY <3>1, <3>2 DEF Item
  <2>3. ~InsertApply(b)
    <3>1. InsertApply(b) => used' # used
      BY DEF InsertApply, Structure, Local, PageOf, TypeOK, StoreOK
    <3> QED BY <3>1, <1>2 DEF Rewrites
  <2> QED BY <1>2, <2>2, <2>3, ItemsRewrites DEF ItemsStay
<1>3. CASE Extends(b)
  <2>1. Items' = Items /\ item' = item /\ ~InsertApply(b)
    BY <1>3, ItemsExtends DEF Extends, InsertApply
  <2> QED BY <2>1 DEF ItemsStay
<1>4. CASE LockNewPage(b)
  <2>1. used[loc[b].pg] = Zeroed /\ ~InsertApply(b)
    BY <1>4 DEF LockNewPage, Pages, Placed, InsertApply
  <2>2. \A a \in Items : a[1] # loc[b].pg
    BY <2>1, Constants DEF Items
  <2>3. Items' = {a \in Items : a[1] # loc[b].pg} /\ (\A a \in Items' : item'[a] = item[a])
    BY <1>4, ItemsNewPage
  <2> QED BY <2>1, <2>2, <2>3 DEF ItemsStay
<1>5. CASE InsertApply(b)
  BY <1>5, ItemsInsert DEF ItemsStay
<1> QED BY <1>1, <1>2, <1>3, <1>4, <1>5, StoreStep

\* The edge id of an insert: drawn when it begins, and kept.
LEMMA DrawStep ==
    ASSUME Structure, NEW b \in Backend, Step(b)
    PROVE  \/ lastId' = lastId /\ pc'[b] \notin Inserting
           \/ lastId' = lastId /\ pc[b] \in Inserting /\ loc'[b].e = loc[b].e /\ ~InsertApply(b)
           \/ lastId' = lastId + 1 /\ pc'[b] \in Inserting /\ loc'[b].e = lastId + 1 /\ ~InsertApply(b)
<1>t. /\ pc \in [Backend -> Control] /\ loc \in [Backend -> Locals]
  BY DEF Structure, TypeOK, ControlOK
<1>1. ASSUME NEW s \in Node, NEW t \in Node, InsertFind(b, s, t), ~Error(b)
      PROVE  lastId' = lastId + 1 /\ pc'[b] \in Inserting /\ loc'[b].e = lastId + 1 /\ ~InsertApply(b)
  <2>1. lastId' = lastId + 1 /\ pc'[b] = "lock1" /\ pc[b] = "idle"
    BY <1>1, <1>t DEF InsertFind, Start
  <2>2. loc'[b] = [NoLocals EXCEPT !.e = lastId + 1, !.src = s, !.tgt = t]
    BY <1>1, <1>t DEF InsertFind
  <2>3. loc'[b].e = lastId + 1
    BY <2>2 DEF NoLocals
  <2> QED BY <2>1, <2>3 DEF Inserting, InsertApply
<1>2. CASE \/ LockFirst(b) \/ LockSecond(b) \/ FindLastPage(b) \/ LockLastPage(b) \/ ExtendBegin(b)
           \/ LockNewPage(b) \/ (ExtendEnd(b) /\ ~Error(b))
  <2>1. pc[b] \in Inserting /\ lastId' = lastId /\ ~InsertApply(b)
    BY <1>2 DEF LockFirst, LockSecond, FindLastPage, LockLastPage, ExtendBegin, LockNewPage, ExtendEnd, Inserting,
                store, InsertApply
  <2>2. loc'[b].e = loc[b].e
    BY <1>2, <1>t DEF LockFirst, LockSecond, ReadHeaders, FindLastPage, LockLastPage, ExtendBegin,
                      LockNewPage, ExtendEnd, Locals
  <2> QED BY <2>1, <2>2
<1>3. CASE Error(b) \/ InsertApply(b)
  BY <1>3, <1>t DEF Error, InsertApply, Return, Inserting, store
<1>4. CASE BeginTxn(b) \/ CommitTxn(b) \/ AbortTxn(b) \/ \E n \in Node : DropNode(b, n)
  <2>1. pc[b] = "idle" /\ pc' = pc /\ lastId' = lastId
    BY <1>4 DEF BeginTxn, CommitTxn, AbortTxn, EndTxn, DropNode, Start, store
  <2> QED BY <2>1 DEF Inserting
<1>5. CASE \/ \E e \in Edge, task \in {"delete", "props"} : ScanBegin(b, e, task)
           \/ ScanStep(b) /\ ~Error(b)
           \/ \E n \in Node, dir \in {"out", "in", "both"} : FollowBegin(b, n, dir)
           \/ FollowStep(b)
  <2>1. pc'[b] \notin Inserting /\ lastId' = lastId
    BY <1>5, <1>t DEF ScanBegin, Start, ScanStep, ScanPage, PropsTooLong, ScanEnd, Return, FollowBegin, FollowStep,
       FollowLock, FollowItem, FollowSecond, FollowEnd, FollowDone, Inserting, store
  <2> QED BY <2>1
<1> QED BY <1>1, <1>2, <1>3, <1>4, <1>5 DEF Step, InsertStep, ScanStep, PropsTooLong

\* Every step keeps edge ids unique.
LEMMA IdsStep ==
    ASSUME twice' = {}, Structure, Pages, Ids, NEW b \in Backend, Step(b)
    PROVE  Ids'
<1>k. /\ ItemsStay
      /\ ~InsertApply(b) => Items' = Items
      /\ InsertApply(b) => /\ NewAddr(b) \in Addr /\ Items' = Items \cup {NewAddr(b)}
                           /\ item'[NewAddr(b)] = NewItem(b)
  BY ItemsStayStep
<1>n. /\ lastId \in Nat /\ (\A c \in Backend : loc[c].e \in Nat) /\ (\A a \in Items : item[a].id \in Nat)
  BY DEF Structure, TypeOK, StoreOK, ControlOK, Locals, Content, Item, Edge
<1>i. InsertApply(b) => /\ item'[NewAddr(b)].id = loc[b].e /\ pc[b] \in Inserting
                        /\ lastId' = lastId /\ pc'[b] \notin Inserting
  <2> SUFFICES ASSUME InsertApply(b)
               PROVE  /\ item'[NewAddr(b)].id = loc[b].e /\ pc[b] \in Inserting
                      /\ lastId' = lastId /\ pc'[b] \notin Inserting
    OBVIOUS
  <2>1. item'[NewAddr(b)].id = loc[b].e
    BY <1>k DEF NewItem
  <2>2. pc[b] \in Inserting
    BY DEF InsertApply, Inserting
  <2>3. lastId' = lastId /\ pc'[b] \notin Inserting
    BY <1>n, DrawStep
  <2> QED BY <2>1, <2>2, <2>3
<1>o. \A c \in Backend \ {b} : pc'[c] = pc[c] /\ loc'[c] = loc[c]
  BY OthersStep DEF Untouched
<1>d. lastId' \in Nat /\ lastId <= lastId'
  BY <1>n, DrawStep
<1>1. \A a \in Items' : item'[a].id <= lastId'
  <2> TAKE a \in Items'
  <2>1. CASE a \in Items
    BY <2>1, <1>k, <1>n, <1>d DEF ItemsStay, Ids
  <2>2. CASE a \notin Items
    BY <2>2, <1>k, <1>i DEF Ids
  <2> QED BY <2>1, <2>2
<1>2. \A a, c \in Items' : item'[a].id = item'[c].id => a = c
  <2>1. \A a, c \in Items : item'[a].id = item'[c].id => a = c
    BY <1>k DEF ItemsStay, Ids
  <2>2. InsertApply(b) => \A a \in Items : item'[a].id # item'[NewAddr(b)].id
    BY <1>k, <1>i DEF ItemsStay, Ids
  <2> QED BY <2>1, <2>2, <1>k
<1>3. \A c \in Backend : pc'[c] \in Inserting =>
          \/ c = b /\ loc'[c].e = lastId + 1 /\ lastId' = lastId + 1 /\ ~InsertApply(b)
          \/ pc[c] \in Inserting /\ loc'[c].e = loc[c].e /\ (c # b \/ ~InsertApply(b))
  <2> TAKE c \in Backend
  <2>1. CASE c # b
    BY <2>1, <1>o
  <2>2. CASE c = b
    BY <2>2, DrawStep
  <2> QED BY <2>1, <2>2
<1>4. \A c \in Backend : pc'[c] \in Inserting =>
          loc'[c].e <= lastId' /\ \A a \in Items' : item'[a].id # loc'[c].e
  <2> SUFFICES ASSUME NEW c \in Backend, pc'[c] \in Inserting
               PROVE  loc'[c].e <= lastId' /\ \A a \in Items' : item'[a].id # loc'[c].e
    OBVIOUS
  <2>1. CASE c = b /\ loc'[c].e = lastId + 1 /\ lastId' = lastId + 1 /\ ~InsertApply(b)
    <3>1. loc'[c].e <= lastId'
      BY <2>1, <1>n
    <3>2. \A a \in Items : item'[a].id # loc'[c].e
      BY <2>1, <1>n, <1>k DEF ItemsStay, Ids
    <3> QED BY <3>1, <3>2, <2>1, <1>k
  <2>2. CASE pc[c] \in Inserting /\ loc'[c].e = loc[c].e /\ (c # b \/ ~InsertApply(b))
    <3>1. loc'[c].e <= lastId' /\ \A a \in Items : item'[a].id # loc'[c].e
      BY <2>2, <1>n, <1>d, <1>k DEF ItemsStay, Ids
    <3>2. InsertApply(b) => item'[NewAddr(b)].id # loc'[c].e
      BY <2>2, <1>i DEF Ids
    <3> QED BY <3>1, <3>2, <1>k
  <2> QED BY <1>3, <2>1, <2>2
<1>5. \A c, d \in Backend : pc'[c] \in Inserting /\ pc'[d] \in Inserting /\ loc'[c].e = loc'[d].e => c = d
  <2> SUFFICES ASSUME NEW c \in Backend, NEW d \in Backend, pc'[c] \in Inserting, pc'[d] \in Inserting,
                      loc'[c].e = loc'[d].e
               PROVE  c = d
    OBVIOUS
  <2>1. \A x \in Backend : pc[x] \in Inserting => loc[x].e # lastId + 1
    BY <1>n DEF Ids
  <2> QED BY <2>1, <1>3 DEF Ids
<1> QED BY <1>1, <1>2, <1>4, <1>5 DEF Ids

-----------------------------------------------------------------------------
(* Chains from a pointer on                                                *)

\* The null pointer ends a chain; from its last item a chain has all of its items.
LEMMA FromNull == \A n, dir : From(n, dir, Null) = {}
<1> SUFFICES ASSUME NEW n, NEW dir, NEW a \in From(n, dir, Null) PROVE FALSE
  OBVIOUS
<1>1. a \in Addr /\ (a = Null \/ Before(a, Null))
  BY DEF From, Items
<1> QED BY <1>1, Constants DEF Before, Null, Addr, Page, Slot

\* From its last item on, a chain is all there.
LEMMA FromLast ==
    ASSUME NEW S \in SUBSET Addr, NEW p, LastOf(S, p)
    PROVE  /\ S = {a \in S : a = p \/ Before(a, p)}
           /\ p # Null => p \in S
BY DEF LastOf

\* The head of a chain is where all of it starts.
LEMMA FromHead ==
    ASSUME IInv, NEW n \in Node, NEW dir \in {"out", "in"}, NEW h,
           h = IF dir = "out" THEN hdr[n].out ELSE hdr[n].in
    PROVE  /\ From(n, dir, h) = {a \in Items : Incident(n, dir, a)}
           /\ h # Null => h \in Items /\ Incident(n, dir, h)
<1> DEFINE S == IF dir = "out" THEN OutItems(n) ELSE InItems(n)
<1>1. LastOf(S, h)
  BY DEF IInv, Chains
<1>2. S \in SUBSET Addr /\ S = {a \in Items : Incident(n, dir, a)}
  BY DEF OutItems, InItems, Items, Incident
<1> HIDE DEF S
<1>3. S = {a \in S : a = h \/ Before(a, h)} /\ (h # Null => h \in S)
  BY <1>1, <1>2, FromLast
<1> QED BY <1>2, <1>3 DEF From

\* The pointer of an item leads to the rest of the chain.
LEMMA FromNext ==
    ASSUME IInv, NEW n \in Node, NEW dir \in {"out", "in"}, NEW h \in Items, Incident(n, dir, h), NEW p,
           p = IF dir = "out" THEN item[h].nextOut ELSE item[h].nextIn
    PROVE  /\ From(n, dir, h) = {h} \cup From(n, dir, p)
           /\ p # Null => p \in Items /\ Incident(n, dir, p)
<1> DEFINE S == IF dir = "out" THEN {c \in OutItems(item[h].src) : Before(c, h)}
                               ELSE {c \in InItems(item[h].tgt) : Before(c, h)}
<1>1. LastOf(S, p)
  BY DEF IInv, Chains
<1>2. S \in SUBSET Addr /\ S = {a \in Items : Incident(n, dir, a) /\ Before(a, h)}
  BY DEF OutItems, InItems, Items, Incident
<1> HIDE DEF S
<1>3. S = {a \in S : a = p \/ Before(a, p)} /\ (p # Null => p \in S)
  BY <1>1, <1>2, FromLast
<1>4. ASSUME NEW a \in Items, Incident(n, dir, a) PROVE a = h \/ Before(a, h) <=> a = h \/ a \in From(n, dir, p)
  <2>1. Before(a, h) => a \in From(n, dir, p)
    BY <1>2, <1>3, <1>4 DEF From
  <2>2. a \in From(n, dir, p) => Before(a, h)
    <3> SUFFICES ASSUME a \in From(n, dir, p) PROVE Before(a, h)
      OBVIOUS
    <3>1. p # Null
      BY FromNull
    <3>2. p \in Addr /\ Before(p, h) /\ h \in Addr /\ a \in Addr
      BY <3>1, <1>2, <1>3 DEF Items
    <3>3. a = p \/ Before(a, p)
      BY DEF From
    <3> QED BY <3>2, <3>3 DEF Before, Addr, Page, Slot
  <2> QED BY <2>1, <2>2
<1>5. From(n, dir, h) = {h} \cup From(n, dir, p)
  BY <1>4 DEF From
<1> QED BY <1>2, <1>3, <1>5

\* The item an insert adds comes after every item of the chains it joins.
LEMMA NewIsLast ==
    ASSUME IInv, NEW b \in Backend, InsertApply(b), NEW a \in Items,
           item[a].src = loc[b].src \/ item[a].tgt = loc[b].tgt
    PROVE  Before(a, NewAddr(b)) /\ ~Before(NewAddr(b), a) /\ a # NewAddr(b)
<1>1. Position(b) /\ PageOf(b) /\ pc[b] = "apply"
  BY DEF IInv, Structure, Local, InsertApply
<1>2. a[1] <= loc[b].pg /\ a \in Addr /\ loc[b].pg \in Page /\ used[loc[b].pg] \in Nat
  BY <1>1 DEF Position, PageOf, Items, IInv, Structure, TypeOK, StoreOK
<1>3. NewAddr(b) \in Addr /\ NewAddr(b)[1] = loc[b].pg /\ NewAddr(b)[2] = used[loc[b].pg] + 1
  BY ItemsInsert DEF IInv, NewAddr
<1>4. a[1] = loc[b].pg => a[2] <= used[loc[b].pg]
  BY <1>2 DEF Items
<1>5. a[1] \in Nat /\ a[2] \in Nat /\ loc[b].pg \in Nat
  BY <1>2 DEF Addr, Page, Slot
<1>6. Before(a, NewAddr(b))
  BY <1>2, <1>3, <1>4, <1>5 DEF Before
<1> QED BY <1>2, <1>3, <1>6, Order

\* An item added in front of a chain is no part of it from an older pointer on.
LEMMA FromStep ==
    ASSUME twice' = {}, IInv, NEW b \in Backend, Step(b), NEW n, NEW dir \in {"out", "in"}, NEW h,
           h # Null => h \in Items /\ Incident(n, dir, h)
    PROVE  From(n, dir, h)' = From(n, dir, h)
<1>k. /\ ItemsStay
      /\ ~InsertApply(b) => Items' = Items
      /\ InsertApply(b) => /\ Items' = Items \cup {NewAddr(b)}
                           /\ item'[NewAddr(b)] = NewItem(b)
  BY ItemsStayStep DEF IInv
<1>1. \A a \in Items : Incident(n, dir, a)' <=> Incident(n, dir, a)
  BY <1>k DEF ItemsStay, Incident
<1>2. \A a \in Items : a \in From(n, dir, h)' <=> a \in From(n, dir, h)
  BY <1>1, <1>k DEF From, ItemsStay, Before
<1>3. ASSUME InsertApply(b), NEW new \in From(n, dir, h)', new = NewAddr(b), new \notin Items PROVE FALSE
  <2>1. Incident(n, dir, new)' /\ (new = h \/ Before(new, h))
    BY <1>3 DEF From, Before
  <2>2. CASE h = Null
    <3>1. new \in Addr
      BY <1>3, ItemsInsert DEF IInv
    <3> QED BY <2>1, <2>2, <3>1, Constants DEF Before, Null, Addr, Page, Slot
  <2>3. CASE h # Null
    <3>1. item'[new].src = loc[b].src /\ item'[new].tgt = loc[b].tgt
      BY <1>3, <1>k DEF NewItem
    <3>2. item[h].src = loc[b].src \/ item[h].tgt = loc[b].tgt
      BY <2>1, <2>3, <3>1 DEF Incident
    <3> QED BY <1>3, <2>1, <2>3, <3>2, NewIsLast
  <2> QED BY <2>2, <2>3
<1>4. From(n, dir, h) \subseteq Items /\ From(n, dir, h)' \subseteq Items'
  BY DEF From
<1> QED BY <1>2, <1>3, <1>4, <1>k DEF ItemsStay

-----------------------------------------------------------------------------
(* Traversals                                                              *)

\* The steps that begin or continue a traversal.
LEMMA FollowCases ==
    ASSUME Structure, NEW b \in Backend, Step(b), pc'[b] \in {"follow", "onpage"}
    PROVE  \/ \E n \in Node, dir \in {"out", "in", "both"} : FollowBegin(b, n, dir)
           \/ pc[b] \in {"follow", "onpage"} /\ (FollowLock(b) \/ FollowItem(b) \/ FollowSecond(b))
<1>t. /\ pc \in [Backend -> Control] /\ loc \in [Backend -> Locals]
  BY DEF Structure, TypeOK, ControlOK
<1>1. ~Return(b) /\ ~Error(b)
  BY <1>t DEF Return, Error
<1>2. CASE \/ BeginTxn(b) \/ CommitTxn(b) \/ AbortTxn(b) \/ (\E n \in Node : DropNode(b, n))
  <2>1. pc[b] = "idle" /\ pc' = pc
    BY <1>2 DEF BeginTxn, CommitTxn, AbortTxn, EndTxn, DropNode, Start
  <2> QED BY <2>1
<1>3. CASE \/ (\E s, t \in Node : InsertFind(b, s, t))
           \/ \E e \in Edge, task \in {"delete", "props"} : ScanBegin(b, e, task)
  <2>1. pc' = [pc EXCEPT ![b] = "lock1"] \/ \E task \in {"delete", "props"} : pc' = [pc EXCEPT ![b] = task]
    BY <1>3, <1>1 DEF InsertFind, ScanBegin
  <2> QED BY <2>1, <1>t
<1>4. CASE LockFirst(b) \/ LockSecond(b) \/ FindLastPage(b) \/ LockLastPage(b) \/ ExtendBegin(b)
           \/ ExtendEnd(b) \/ LockNewPage(b)
  BY <1>4, <1>1, <1>t DEF LockFirst, LockSecond, FindLastPage, LockLastPage, ExtendBegin, ExtendEnd, LockNewPage
<1>5. CASE InsertApply(b) \/ ScanEnd(b) \/ PropsTooLong(b) \/ FollowEnd(b)
  BY <1>5, <1>1 DEF InsertApply, ScanEnd, PropsTooLong, FollowEnd
<1>6. CASE ScanPage(b)
  <2>1. pc[b] \in {"delete", "props"} /\ pc' = pc
    BY <1>6, <1>1 DEF ScanPage
  <2> QED BY <2>1
<1>7. FollowLock(b) \/ FollowItem(b) \/ FollowSecond(b) => pc[b] \in {"follow", "onpage"}
  BY DEF FollowLock, FollowItem, FollowSecond
<1> QED BY <1>2, <1>3, <1>4, <1>5, <1>6, <1>7 DEF Step, InsertStep, ScanStep, FollowStep

\* A traversal that begins has both or one chain of the node before it.
LEMMA FollowBeginStep ==
    ASSUME IInv, Ids, NEW b \in Backend, NEW n \in Node, NEW dir \in {"out", "in", "both"},
           FollowBegin(b, n, dir)
    PROVE  Following(b)'
<1>t. loc \in [Backend -> Locals]
  BY DEF IInv, Structure, TypeOK, ControlOK
<1> DEFINE d == IF dir = "in" THEN "in" ELSE "out"
           cur == IF dir = "in" THEN hdr[n].in ELSE hdr[n].out
           inHead == IF dir = "both" THEN hdr[n].in ELSE Null
           start == Alive(n, dir)
           l == [NoLocals EXCEPT !.src = n, !.dir = d, !.cur = cur, !.inHead = inHead, !.start = start]
<1>1. loc' = [loc EXCEPT ![b] = l] /\ UNCHANGED store
  BY DEF FollowBegin
<1>2. l.src = n /\ l.dir = d /\ l.cur = cur /\ l.inHead = inHead /\ l.start = start /\ l.got = {}
  BY DEF NoLocals
<1> HIDE DEF l
<1>3. /\ loc'[b].src = n /\ loc'[b].dir = d /\ loc'[b].cur = cur /\ loc'[b].inHead = inHead
      /\ loc'[b].start = start /\ loc'[b].got = {}
  BY <1>1, <1>2, <1>t
<1>4. Items' = Items /\ item' = item
  BY <1>1 DEF store, Items
<1>5. /\ From(n, d, cur) = {a \in Items : Incident(n, d, a)}
      /\ cur # Null => cur \in Items /\ Incident(n, d, cur)
  BY FromHead
<1>6. /\ From(n, "in", inHead) = {a \in Items : dir = "both" /\ Incident(n, "in", a)}
      /\ inHead # Null => dir = "both" /\ inHead \in Items /\ item[inHead].tgt = n
  <2>1. CASE dir = "both"
    BY <2>1, FromHead DEF Incident
  <2>2. CASE dir # "both"
    BY <2>2, FromNull
  <2> QED BY <2>1, <2>2
<1>7. Rest(b)' = {a \in Items : Incident(n, dir, a)}
  <2>1. Rest(b)' = From(n, d, cur) \cup From(n, "in", inHead)
    BY <1>3, <1>4 DEF Rest, From, Incident, Before
  <2>2. \A a \in Items : Incident(n, dir, a) <=> Incident(n, d, a) \/ (dir = "both" /\ Incident(n, "in", a))
    BY DEF Incident
  <2> HIDE DEF d, cur, inHead
  <2> QED BY <2>1, <2>2, <1>5, <1>6
<1>8. start = {item[a].id : a \in {c \in Items : Incident(n, dir, c) /\ item[c].xmax = 0}}
  BY DEF Alive
<1>9. \A a \in Items : item[a].id \in start <=> Incident(n, dir, a) /\ item[a].xmax = 0
  BY <1>8 DEF Ids
<1>10. \A e \in start : \E a \in Items : item[a].id = e
  BY <1>8
<1>11. inHead # Null => d = "out"
  BY <1>6
<1> HIDE DEF d, cur, inHead, start
<1> QED BY <1>3, <1>4, <1>5, <1>6, <1>7, <1>9, <1>10, <1>11 DEF Following, Incident

\* What a step of anybody does to a traversal that goes on from the same place,
\* and to its result.
LEMMA FollowingKept ==
    ASSUME twice' = {}, IInv, Ids, NEW b \in Backend, Step(b), NEW c \in Backend, Following(c),
           pc[c] \in {"follow", "onpage"}, loc'[c] = loc[c]
    PROVE  Following(c)'
<1>k. /\ ItemsStay
      /\ ~InsertApply(b) => Items' = Items
      /\ InsertApply(b) => /\ Items' = Items \cup {NewAddr(b)}
                           /\ item'[NewAddr(b)] = NewItem(b)
  BY ItemsStayStep DEF IInv
<1>t. /\ loc[c].dir \in {"out", "in"}
  BY DEF IInv, Structure, TypeOK, ControlOK, Locals
<1> DEFINE src == loc[c].src
           dir == loc[c].dir
           cur == loc[c].cur
           inHead == loc[c].inHead
<1>f. /\ src \in Node
      /\ cur # Null => cur \in Items /\ Incident(src, dir, cur)
      /\ inHead # Null => dir = "out" /\ inHead \in Items /\ item[inHead].tgt = src
      /\ \A e \in loc[c].start : \E a \in Items : item[a].id = e
      /\ loc[c].got \subseteq loc[c].start
      /\ \A a \in Items : item[a].xmax = 0 /\ item[a].id \in loc[c].start =>
            item[a].id \in loc[c].got \/ a \in Rest(c)
      /\ \A a \in Rest(c) : item[a].xmax = 0 => item[a].id \in loc[c].start
  BY DEF Following
<1>1. PICK n, d, h, j : n = src /\ d = dir /\ h = cur /\ j = inHead
  OBVIOUS
<1>2. From(n, d, h)' = From(n, d, h)
  BY <1>1, <1>f, <1>t, FromStep
<1>3. From(n, "in", j)' = From(n, "in", j)
  <2>1. j # Null => j \in Items /\ Incident(n, "in", j)
    BY <1>1, <1>f DEF Incident
  <2> QED BY <2>1, FromStep
<1>4. Rest(c)' = Rest(c)
  <2>1. Rest(c) = From(n, d, h) \cup From(n, "in", j)
    BY <1>1 DEF Rest
  <2>2. Rest(c)' = From(n, d, h)' \cup From(n, "in", j)'
    BY <1>1 DEF Rest, From, Incident, Before
  <2> QED BY <2>1, <2>2, <1>2, <1>3
<1>5. Rest(c) \subseteq Items
  BY DEF Rest, From
<1>6. ASSUME NEW a \in Items', a \notin Items PROVE item'[a].id \notin loc[c].start
  <2>1. InsertApply(b) /\ item'[a].id = loc[b].e
    BY <1>6, <1>k DEF NewItem
  <2>2. pc[b] \in Inserting
    BY <2>1 DEF InsertApply, Inserting
  <2> QED BY <2>1, <2>2, <1>f DEF Ids
<1>7. cur # Null => cur \in Items' /\ Incident(src, dir, cur)'
  BY <1>f, <1>k DEF ItemsStay, Incident
<1>8. inHead # Null => dir = "out" /\ inHead \in Items' /\ item'[inHead].tgt = src
  BY <1>f, <1>k DEF ItemsStay
<1>9. \A e \in loc[c].start : \E a \in Items' : item'[a].id = e
  BY <1>f, <1>k DEF ItemsStay
<1>10. \A a \in Items' : item'[a].xmax = 0 /\ item'[a].id \in loc[c].start =>
            item'[a].id \in loc[c].got \/ a \in Rest(c)
  BY <1>f, <1>6, <1>k DEF ItemsStay
<1>11. \A a \in Rest(c) : item'[a].xmax = 0 => item'[a].id \in loc[c].start
  BY <1>f, <1>5, <1>k DEF ItemsStay
<1> HIDE DEF Rest
<1> QED BY <1>f, <1>4, <1>7, <1>8, <1>9, <1>10, <1>11 DEF Following, Incident

\* Every step keeps what is known of all traversals.
LEMMA FollowingStep ==
    ASSUME twice' = {}, IInv, Ids, NEW b \in Backend, Step(b), NEW c \in Backend, Following(c)
    PROVE  Following(c)'
<1>t. loc \in [Backend -> Locals] /\ loc[b] \in Locals
  BY DEF IInv, Structure, TypeOK, ControlOK
<1> SUFFICES ASSUME pc'[c] \in {"follow", "onpage"} PROVE Following(c)'
  BY DEF Following
<1>1. CASE c # b
  BY <1>1, OthersStep, FollowingKept DEF Untouched, IInv
<1>2. CASE c = b /\ \E n \in Node, dir \in {"out", "in", "both"} : FollowBegin(b, n, dir)
  BY <1>2, FollowBeginStep
<1>3. CASE c = b /\ pc[b] \in {"follow", "onpage"} /\ FollowLock(b)
  BY <1>3, FollowingKept DEF FollowLock
<1>4. ASSUME c = b, pc[b] \in {"follow", "onpage"}, FollowItem(b) \/ FollowSecond(b)
      PROVE  Following(b)'
  <2> DEFINE src == loc[b].src
             dir == loc[b].dir
             cur == loc[b].cur
             inHead == loc[b].inHead
             start == loc[b].start
             got == loc[b].got
  <2>0. Items' = Items /\ item' = item
    BY <1>4 DEF FollowItem, FollowSecond, store, Items
  <2>1. /\ src \in Node /\ dir \in {"out", "in"}
        /\ cur # Null => cur \in Items /\ Incident(src, dir, cur)
        /\ inHead # Null => dir = "out" /\ inHead \in Items /\ item[inHead].tgt = src
        /\ \A e \in start : \E a \in Items : item[a].id = e
        /\ got \subseteq start
        /\ \A a \in Items : item[a].xmax = 0 /\ item[a].id \in start => item[a].id \in got \/ a \in Rest(b)
        /\ \A a \in Rest(b) : item[a].xmax = 0 => item[a].id \in start
    BY <1>4, <1>t DEF Following, Locals
  <2>2. Rest(b) = From(src, dir, cur) \cup From(src, "in", inHead)
    BY DEF Rest
  <2>3. \A n, d, h : From(n, d, h)' = From(n, d, h)
    BY <2>0 DEF From, Incident, Before
  <2>4. CASE FollowSecond(b)
    <3>1. /\ loc'[b].src = src /\ loc'[b].dir = "in" /\ loc'[b].cur = inHead /\ loc'[b].inHead = Null
          /\ loc'[b].start = start /\ loc'[b].got = got /\ cur = Null /\ inHead # Null
      BY <2>4, <1>t DEF FollowSecond, Locals
    <3>2. Rest(b)' = From(src, "in", inHead) \cup From(src, "in", Null)
      BY <2>0, <3>1 DEF Rest, From, Incident, Before
    <3>3. Rest(b)' = Rest(b)
      BY <2>2, <3>1, <3>2, FromNull
    <3>4. inHead \in Items /\ Incident(src, "in", inHead)
      BY <2>1, <3>1 DEF Incident
    <3> HIDE DEF Rest
    <3> QED BY <2>0, <2>1, <3>1, <3>3, <3>4 DEF Following, Incident
  <2>5. CASE FollowItem(b)
    <3> DEFINE p == NextPtr(b)
               more == IF item[cur].xmax = 0 THEN got \cup {item[cur].id} ELSE got
    <3>1. pc[b] = "onpage" /\ cur # Null
      BY <2>5, Constants DEF FollowItem, IInv, Structure, Local, EdgeLocks
    <3>2. cur \in Items /\ Incident(src, dir, cur)
      BY <2>1, <3>1
    <3>3. loc' = [loc EXCEPT ![b].cur = p, ![b].got = more]
      BY <2>5, <3>2 DEF FollowItem
    <3>4. /\ From(src, dir, cur) = {cur} \cup From(src, dir, p)
          /\ p # Null => p \in Items /\ Incident(src, dir, p)
      BY <2>1, <3>2, FromNext DEF NextPtr
    <3> HIDE DEF p, more
    <3>5. /\ loc'[b].src = src /\ loc'[b].dir = dir /\ loc'[b].cur = p /\ loc'[b].inHead = inHead
          /\ loc'[b].start = start /\ loc'[b].got = more
      BY <3>3, <1>t DEF Locals
    <3>6. Rest(b)' = From(src, dir, p) \cup From(src, "in", inHead)
      BY <2>0, <3>5 DEF Rest, From, Incident, Before
    <3>7. Rest(b) = {cur} \cup Rest(b)'
      BY <2>2, <3>4, <3>6
    <3>8. more \subseteq start
      BY <2>1, <3>7 DEF more
    <3>9. \A a \in Items : item[a].xmax = 0 /\ item[a].id \in start => item[a].id \in more \/ a \in Rest(b)'
      BY <2>1, <3>7 DEF more
    <3>10. \A a \in Rest(b)' : item[a].xmax = 0 => item[a].id \in start
      BY <2>1, <3>7
    <3> HIDE DEF Rest
    <3> QED BY <2>0, <2>1, <3>4, <3>5, <3>8, <3>9, <3>10 DEF Following, Incident
  <2> QED BY <1>4, <2>4, <2>5
<1> QED BY <1>1, <1>2, <1>3, <1>4, FollowCases DEF IInv

\* Exactness of adjacency_follow for every instance: a traversal reads the header,
\* unlocks it, and then holds one edge page at a time while others prepend to its
\* chain and delete edges of it; still it yields every edge that was alive when it
\* began and is alive when it ends, and no edge that was not alive then.
THEOREM FollowsExact == Spec => []FollowExact
<1> DEFINE F == Ids /\ \A b \in Backend : Following(b)
           FInv == twice = {} => F
<1>1. Init => FInv
  <2>1. Init => Items = {}
    <3>1. Init => \A a \in Addr : used[a[1]] = Absent
      BY DEF Init, Addr
    <3> QED BY <3>1, Constants DEF Items
  <2>2. Init => Ids /\ \A b \in Backend : Following(b)
    BY <2>1 DEF Init, Ids, Following, Inserting
  <2> QED BY <2>2
<1>2. Inv /\ FInv /\ [Next]_vars => FInv'
  <2> SUFFICES ASSUME IInv, F, [Next]_vars, twice' = {} PROVE F'
    BY TwiceGrows DEF Inv
  <2>2. ASSUME NEW b \in Backend, Step(b) PROVE Ids' /\ \A c \in Backend : Following(c)'
    BY <2>2, IdsStep, FollowingStep DEF IInv
  <2>3. CASE UNCHANGED vars
    <3>1. Items' = Items
      BY <2>3, ItemsSame DEF vars, store
    <3>2. Ids'
      BY <3>1, <2>3 DEF vars, store, Ids
    <3>3. \A b \in Backend : Following(b)'
      BY <3>1, <2>3 DEF vars, store, Following, Rest, From, Incident, Before
    <3> QED BY <3>2, <3>3
  <2> QED BY <2>2, <2>3 DEF Next
<1>3. FInv => FollowExact
  <2> SUFFICES ASSUME F, NEW b \in Backend, FollowDone(b)
               PROVE  StillAlive(loc[b].start) \subseteq loc[b].got /\ loc[b].got \subseteq loc[b].start
    BY DEF FollowExact
  <2>1. Following(b) /\ pc[b] = "follow" /\ Rest(b) = {}
    BY FromNull DEF FollowDone, Rest
  <2> QED BY <2>1 DEF Following, StillAlive
<1> QED BY <1>1, <1>2, <1>3, InvHolds, PTL DEF Spec
=============================================================================
