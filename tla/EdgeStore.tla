------------------------------ MODULE EdgeStore ------------------------------
(***************************************************************************)
(* The edge store of pg_eddy (storage/edge_store.rs) as concurrent         *)
(* backends run it.                                                        *)
(*                                                                         *)
(* Edge items live in the edge relation, a growing list of pages; an item  *)
(* never moves and its slot is never reused.  Every node owns an adjacency *)
(* header in the special area of its node page, holding the heads of two   *)
(* singly linked chains: the edges it is the source of and the edges it is *)
(* the target of.  insert_edge prepends to both chains under the exclusive *)
(* buffer locks of the two node pages and of one edge page, which it takes *)
(* one at a time; everybody else interleaves between those steps.          *)
(*                                                                         *)
(* Exclusive buffer locks are kept across steps in nlock (node pages) and  *)
(* elock (edge pages); a shared lock that a traversal keeps across steps   *)
(* is in eshare.  A page that is locked, looked at and unlocked without    *)
(* anything in between is one step.                                        *)
(***************************************************************************)
EXTENDS Naturals, FiniteSets

CONSTANTS
    Backend,       \* the PostgreSQL backends
    None,          \* no backend, no node
    Node,          \* node ids
    Blk,           \* [Node -> Nat]: the block of the node relation a node is on
    MaxEdge,       \* bound: edge ids that next_edge_id hands out, each once
    PageCap,       \* edge items that fit on one edge page
    MaxPages,      \* bound: blocks of the edge relation (an insert adds at most one)
    MaxXid,        \* bound: transactions
    Task           \* [Backend -> SUBSET Tasks]: what each backend may run

Tasks == {"insert", "delete", "props", "follow", "dropnode"}

ASSUME EdgeStoreAssumption ==
    /\ None \notin Backend /\ None \notin Node
    /\ Blk \in [Node -> Nat]
    /\ PageCap \in Nat \ {0}
    /\ MaxEdge \in Nat
    /\ MaxPages \in Nat
    /\ MaxXid \in Nat
    /\ Task \in [Backend -> SUBSET Tasks]

Edge == 1..MaxEdge
Page == 1..MaxPages
Slot == 1..PageCap
Addr == Page \X Slot

\* The chain sentinel: a pointer whose slot is 0 ends the chain.
Null == <<0, 0>>
Ptr  == Addr \cup {Null}

\* Physical order of the edge relation.
Before(a, b) == a[1] < b[1] \/ (a[1] = b[1] /\ a[2] < b[2])

Xid == 1..MaxXid

\* page_free_space: of a page that P_NEW has zeroed and nobody has initialised
\* it is 0 (pd_upper = pd_lower = 0), which is "full" to every caller.
Absent == PageCap + 2
Zeroed == PageCap + 1

\* An edge item: ids, the two chain pointers, xmin, whether HEAP_XMAX_INVALID
\* has been cleared and by whom, and the transaction that last wrote its
\* properties.
Item == [id: Edge, src: Node, tgt: Node, nextOut: Ptr, nextIn: Ptr,
         xmin: Xid, xmax: Xid \cup {0}, propsBy: Xid]

\* Content of a slot no item has been added to.
NoItem == [id |-> 0]

\* NodeAdjHeader.
Header == [out: Ptr, in: Ptr, outDegree: Nat, inDegree: Nat]
EmptyHeader == [out |-> Null, in |-> Null, outDegree |-> 0, inDegree |-> 0]

VARIABLES
    hdr,       \* adjacency header of every node, in its node page
    lastId,    \* edge_id_seq
    present,   \* nodes whose item has HEAP_XMAX_INVALID set
    nblocks,   \* blocks of the edge relation
    used,      \* line pointers of each edge page, or Zeroed, or Absent
    item,      \* the edge items by address
    twice,     \* history: the blocks that P_NEW handed out twice
    nlock,     \* node block -> backend holding its exclusive lock
    elock,     \* edge block -> backend holding its exclusive lock
    eshare,    \* edge block -> backends holding its shared lock
    xstat,     \* transaction status, as clog and procarray answer it
    xid,       \* the transaction a backend is in
    pc,        \* what a backend is doing
    loc        \* the locals of that operation

store == <<hdr, present, nblocks, used, item, lastId, twice>>
locks == <<nlock, elock, eshare>>
txns  == <<xstat, xid>>
vars  == <<store, locks, txns, pc, loc>>

\* Locals of the operation in progress: the edge and its end points, the copies
\* of their two headers, the edge page worked on, the last block a scan visits;
\* for a traversal the chain it is on, the pointer to visit next, the head of
\* the chain to walk after this one (inHead), the edges yielded, and, as
\* history, which edges were alive when it read the header.
NoLocals == [e |-> 0, src |-> None, tgt |-> None, srcAdj |-> EmptyHeader,
             tgtAdj |-> EmptyHeader, pg |-> 0, lim |-> 0, dir |-> "out",
             cur |-> Null, inHead |-> Null, got |-> {}, start |-> {}]

NodeBlk == {Blk[n] : n \in Node}

\* The addresses that hold an item.
Items == {a \in Addr : used[a[1]] <= PageCap /\ a[2] <= used[a[1]]}

Init ==
    /\ hdr = [n \in Node |-> EmptyHeader]
    /\ present = Node
    /\ lastId = 0
    /\ nblocks = 0
    /\ used = [p \in Page |-> Absent]
    /\ item = [a \in Addr |-> NoItem]
    /\ twice = {}
    /\ nlock = [k \in NodeBlk |-> None]
    /\ elock = [p \in Page |-> None]
    /\ eshare = [p \in Page |-> {}]
    /\ xstat = [x \in Xid |-> "none"]
    /\ xid = [b \in Backend |-> 0]
    /\ pc = [b \in Backend |-> "idle"]
    /\ loc = [b \in Backend |-> NoLocals]

-----------------------------------------------------------------------------
(* Transactions (external: PostgreSQL's transaction manager)               *)

BeginTxn(b) ==
    /\ pc[b] = "idle"
    /\ xid[b] = 0
    /\ \E x \in Xid :
        /\ xstat[x] = "none"
        /\ \A y \in Xid : y < x => xstat[y] # "none"
        /\ xstat' = [xstat EXCEPT ![x] = "active"]
        /\ xid' = [xid EXCEPT ![b] = x]
    /\ UNCHANGED <<store, locks, pc, loc>>

EndTxn(b, status) ==
    /\ pc[b] = "idle"
    /\ xid[b] # 0
    /\ xstat' = [xstat EXCEPT ![xid[b]] = status]
    /\ xid' = [xid EXCEPT ![b] = 0]
    /\ UNCHANGED <<store, locks, pc, loc>>

CommitTxn(b) == EndTxn(b, "committed")
AbortTxn(b)  == EndTxn(b, "aborted")

\* ereport(ERROR): the transaction aborts, LWLockReleaseAll drops every buffer
\* lock, the operation is gone.
Error(b) ==
    /\ xstat' = [xstat EXCEPT ![xid[b]] = "aborted"]
    /\ xid' = [xid EXCEPT ![b] = 0]
    /\ nlock' = [k \in NodeBlk |-> IF nlock[k] = b THEN None ELSE nlock[k]]
    /\ elock' = [p \in Page |-> IF elock[p] = b THEN None ELSE elock[p]]
    /\ pc' = [pc EXCEPT ![b] = "idle"]
    /\ loc' = [loc EXCEPT ![b] = NoLocals]
    /\ UNCHANGED <<store, eshare>>

\* The operation returns to its caller.
Return(b) ==
    /\ pc' = [pc EXCEPT ![b] = "idle"]
    /\ loc' = [loc EXCEPT ![b] = NoLocals]

Start(b, task) ==
    /\ task \in Task[b]
    /\ pc[b] = "idle"
    /\ xid[b] # 0

-----------------------------------------------------------------------------
(* insert_edge                                                             *)

\* find_node_location takes the page's shared lock for the time it looks.
Readable(n) == nlock[Blk[n]] = None

\* Mutant: the same id is handed out again.
InsertFindSameId(b, s, t) ==
    /\ Start(b, "insert")
    /\ Readable(s) /\ Readable(t)
    /\ {s, t} \subseteq present
    /\ pc' = [pc EXCEPT ![b] = "lock1"]
    /\ loc' = [loc EXCEPT ![b] = [NoLocals EXCEPT !.e = 1, !.src = s, !.tgt = t]]
    /\ UNCHANGED <<store, locks, txns>>

\* Both look-ups (a node never comes back, so one moment serves for both) and
\* next_edge_id; an id drawn for an insert that fails is only a gap.
\* (PE200 for properties that are too long comes first: an AbortTxn to others.)
InsertFind(b, s, t) ==
    /\ Start(b, "insert")
    /\ lastId < MaxEdge
    /\ Readable(s) /\ Readable(t)
    /\ \/ /\ {s, t} \subseteq present
          /\ lastId' = lastId + 1
          /\ pc' = [pc EXCEPT ![b] = "lock1"]
          /\ loc' = [loc EXCEPT ![b] =
                       [NoLocals EXCEPT !.e = lastId + 1, !.src = s, !.tgt = t]]
          /\ UNCHANGED <<hdr, present, nblocks, used, item, twice, locks, txns>>
       \/ /\ ~({s, t} \subseteq present)      \* PE400
          /\ Error(b)

\* Mutant: the source page is always locked first.
LockSeqSourceFirst(b) == <<Blk[loc[b].src], Blk[loc[b].tgt]>>

\* The node blocks in the order insert_edge locks them.
LockSeq(b) ==
    LET s == Blk[loc[b].src]
        t == Blk[loc[b].tgt]
    IN  IF s <= t THEN <<s, t>> ELSE <<t, s>>

SamePage(b) == Blk[loc[b].src] = Blk[loc[b].tgt]

\* Both headers are copied once both node pages are locked.
ReadHeaders(b) ==
    loc' = [loc EXCEPT ![b].srcAdj = hdr[loc[b].src], ![b].tgtAdj = hdr[loc[b].tgt]]

LockFirst(b) ==
    /\ pc[b] = "lock1"
    /\ nlock[LockSeq(b)[1]] = None
    /\ nlock' = [nlock EXCEPT ![LockSeq(b)[1]] = b]
    /\ \/ SamePage(b) /\ pc' = [pc EXCEPT ![b] = "findpage"] /\ ReadHeaders(b)
       \/ ~SamePage(b) /\ pc' = [pc EXCEPT ![b] = "lock2"] /\ UNCHANGED loc
    /\ UNCHANGED <<store, elock, eshare, txns>>

\* Mutant: the second page is locked for as long as it takes to read the header.
LockSecondRead(b) ==
    /\ pc[b] = "lock2"
    /\ nlock[LockSeq(b)[2]] = None
    /\ pc' = [pc EXCEPT ![b] = "findpage"]
    /\ ReadHeaders(b)
    /\ UNCHANGED <<store, locks, txns>>

LockSecond(b) ==
    /\ pc[b] = "lock2"
    /\ nlock[LockSeq(b)[2]] = None
    /\ nlock' = [nlock EXCEPT ![LockSeq(b)[2]] = b]
    /\ pc' = [pc EXCEPT ![b] = "findpage"]
    /\ ReadHeaders(b)
    /\ UNCHANGED <<store, elock, eshare, txns>>

\* find_or_extend_edge_page reads the size of the relation without a lock and
\* goes for the last block.
FindLastPage(b) ==
    /\ pc[b] = "findpage"
    /\ \/ /\ nblocks > 0
          /\ loc' = [loc EXCEPT ![b].pg = nblocks]
          /\ pc' = [pc EXCEPT ![b] = "locklast"]
       \/ /\ nblocks = 0
          /\ pc' = [pc EXCEPT ![b] = "extend"]
          /\ UNCHANGED loc
    /\ UNCHANGED <<store, locks, txns>>

HasSpace(p) == used[p] < PageCap

EdgePageFree(p) == elock[p] = None /\ eshare[p] = {}

\* Mutant: the full page is not unlocked before the relation is extended.
LockLastPageLeak(b) ==
    /\ pc[b] = "locklast"
    /\ EdgePageFree(loc[b].pg)
    /\ elock' = [elock EXCEPT ![loc[b].pg] = b]
    /\ pc' = [pc EXCEPT ![b] = IF HasSpace(loc[b].pg) THEN "apply" ELSE "extend"]
    /\ UNCHANGED <<store, nlock, eshare, txns, loc>>

LockLastPage(b) ==
    /\ pc[b] = "locklast"
    /\ EdgePageFree(loc[b].pg)
    /\ \/ /\ HasSpace(loc[b].pg)
          /\ elock' = [elock EXCEPT ![loc[b].pg] = b]
          /\ pc' = [pc EXCEPT ![b] = "apply"]
       \/ /\ ~HasSpace(loc[b].pg)
          /\ pc' = [pc EXCEPT ![b] = "extend"]
          /\ UNCHANGED elock
    /\ UNCHANGED <<store, nlock, eshare, txns, loc>>

\* ReadBufferExtended(P_NEW), external, in two steps: it reads the size of the
\* relation, later it extends it and returns the block, zeroed and unlocked.
\* PostgreSQL expects the caller to hold the relation extension lock; the code
\* takes none, so callers may overlap.
ExtendBegin(b) ==
    /\ pc[b] = "extend"
    /\ nblocks < MaxPages
    /\ loc' = [loc EXCEPT ![b].pg = nblocks + 1]
    /\ pc' = [pc EXCEPT ![b] = "extending"]
    /\ UNCHANGED <<store, locks, txns>>

\* An initialised page beyond the remembered end of the relation is an error; a
\* page of zeros, which somebody else may have been given, is not.
ExtendEnd(b) ==
    LET p == loc[b].pg
    IN  /\ pc[b] = "extending"
        /\ \/ /\ used[p] \in {Absent, Zeroed}
              /\ used' = [used EXCEPT ![p] = Zeroed]
              /\ nblocks' = IF nblocks < p THEN p ELSE nblocks
              /\ twice' = IF used[p] = Zeroed THEN twice \cup {p} ELSE twice
              /\ pc' = [pc EXCEPT ![b] = "locknew"]
              /\ UNCHANGED <<hdr, present, item, lastId, locks, txns, loc>>
           \/ /\ used[p] \notin {Absent, Zeroed}
              /\ Error(b)

\* Mutant: the new page is locked but not initialised.
LockNewPageRaw(b) ==
    /\ pc[b] = "locknew"
    /\ EdgePageFree(loc[b].pg)
    /\ elock' = [elock EXCEPT ![loc[b].pg] = b]
    /\ pc' = [pc EXCEPT ![b] = "apply"]
    /\ UNCHANGED <<store, nlock, eshare, txns, loc>>

\* LockBuffer and init_edge_page: PageInit forgets whatever the page held.
LockNewPage(b) ==
    LET p == loc[b].pg
    IN  /\ pc[b] = "locknew"
        /\ EdgePageFree(p)
        /\ elock' = [elock EXCEPT ![p] = b]
        /\ used' = [used EXCEPT ![p] = 0]
        /\ item' = [a \in Addr |-> IF a[1] = p THEN NoItem ELSE item[a]]
        /\ pc' = [pc EXCEPT ![b] = "apply"]
        /\ UNCHANGED <<hdr, present, nblocks, lastId, twice, nlock, eshare, txns, loc>>

\* PageAddItemExtended: the next line pointer of the locked edge page.
NewAddr(b) == <<loc[b].pg, used[loc[b].pg] + 1>>

\* build_edge_item_bytes: the pointers are the heads read under the locks.
NewItem(b) ==
    [id |-> loc[b].e, src |-> loc[b].src, tgt |-> loc[b].tgt,
     nextOut |-> loc[b].srcAdj.out, nextIn |-> loc[b].tgtAdj.in,
     xmin |-> xid[b], xmax |-> 0, propsBy |-> xid[b]]

\* new_src_adj: the copy of the source's header with the new head.
NewSrcAdj(b) ==
    [loc[b].srcAdj EXCEPT !.out = NewAddr(b), !.outDegree = loc[b].srcAdj.outDegree + 1]

\* Mutant: new_tgt_adj is made from the copy of the header for a self-loop too, so
\* that the second write undoes the first.
NewTgtAdjFromCopy(b) ==
    [loc[b].tgtAdj EXCEPT !.in = NewAddr(b), !.inDegree = loc[b].tgtAdj.inDegree + 1]

\* new_tgt_adj: the same for the target; a self-loop goes on from new_src_adj.
NewTgtAdj(b) ==
    [(IF loc[b].src = loc[b].tgt THEN NewSrcAdj(b) ELSE loc[b].tgtAdj)
        EXCEPT !.in = NewAddr(b), !.inDegree = loc[b].tgtAdj.inDegree + 1]

\* write_adj_header: whole headers are written over those in the pages.
NewHeaders(b) == [hdr EXCEPT ![loc[b].src] = NewSrcAdj(b), ![loc[b].tgt] = NewTgtAdj(b)]

\* The critical section: item added, headers written, all locks released.
InsertApply(b) ==
    /\ pc[b] = "apply"
    /\ item' = [item EXCEPT ![NewAddr(b)] = NewItem(b)]
    /\ used' = [used EXCEPT ![loc[b].pg] = @ + 1]
    /\ hdr' = NewHeaders(b)
    /\ nlock' = [k \in NodeBlk |-> IF nlock[k] = b THEN None ELSE nlock[k]]
    /\ elock' = [elock EXCEPT ![loc[b].pg] = None]
    /\ Return(b)
    /\ UNCHANGED <<present, nblocks, lastId, twice, eshare, txns>>

-----------------------------------------------------------------------------
(* delete_edge and update_edge_props: scan the relation under exclusive     *)
(* locks, one page at a time, and change the first item that qualifies.     *)

\* TransactionIdIsCurrentTransactionId or TransactionIdDidCommit.
XminVisible(b, i) == i.xmin = xid[b] \/ xstat[i.xmin] = "committed"

\* read_edge_at_offset: the edge as scans see it.
Visible(b, a) == XminVisible(b, item[a]) /\ item[a].xmax = 0

ScanBegin(b, e, task) ==
    /\ Start(b, task)
    /\ task \in {"delete", "props"}
    /\ pc' = [pc EXCEPT ![b] = task]
    /\ loc' = [loc EXCEPT ![b] = [NoLocals EXCEPT !.e = e, !.pg = 1, !.lim = nblocks]]
    /\ UNCHANGED <<store, locks, txns>>

\* delete_edge looks at the xmax flag alone; update_edge_props at visibility.
Qualifies(b, a) ==
    /\ a \in Items
    /\ a[1] = loc[b].pg
    /\ item[a].id = loc[b].e
    /\ IF pc[b] = "delete" THEN item[a].xmax = 0 ELSE Visible(b, a)

\* The first of a set of addresses on one page.
IsFirst(a, S) == a \in S /\ \A c \in S : a[2] <= c[2]

Change(b, a) ==
    item' = IF pc[b] = "delete"
            THEN [item EXCEPT ![a].xmax = xid[b]]
            ELSE [item EXCEPT ![a].propsBy = xid[b]]

ScanPage(b) ==
    /\ pc[b] \in {"delete", "props"}
    /\ loc[b].pg <= loc[b].lim
    /\ EdgePageFree(loc[b].pg)
    /\ LET hits == {a \in Addr : Qualifies(b, a)}
       IN  \/ /\ hits # {}
              /\ \E a \in hits : IsFirst(a, hits) /\ Change(b, a)
              /\ Return(b)
           \/ /\ hits = {}
              /\ loc' = [loc EXCEPT ![b].pg = @ + 1]
              /\ UNCHANGED <<item, pc>>
    /\ UNCHANGED <<hdr, present, nblocks, used, lastId, twice, locks, txns>>

\* PE200: the new properties do not fit into the room the item has.
PropsTooLong(b) ==
    /\ pc[b] = "props"
    /\ loc[b].pg <= loc[b].lim
    /\ EdgePageFree(loc[b].pg)
    /\ \E a \in Addr : Qualifies(b, a)
    /\ Error(b)

\* Not found: return false.
ScanEnd(b) ==
    /\ pc[b] \in {"delete", "props"}
    /\ loc[b].pg > loc[b].lim
    /\ Return(b)
    /\ UNCHANGED <<store, locks, txns>>

-----------------------------------------------------------------------------
(* delete_node_by_id, as far as the edge store can tell: the node's item    *)
(* gets an xmax under its page's exclusive lock; headers and edges stay.    *)

DropNode(b, n) ==
    /\ Start(b, "dropnode")
    /\ n \in present
    /\ nlock[Blk[n]] = None
    /\ present' = present \ {n}
    /\ UNCHANGED <<hdr, nblocks, used, item, lastId, twice, locks, txns, pc, loc>>

-----------------------------------------------------------------------------
(* adjacency_follow and follow_chain                                        *)

\* Whether an item is on the chain (of one direction, or of both) of a node.
Incident(n, dir, a) ==
    \/ dir # "in"  /\ item[a].src = n
    \/ dir # "out" /\ item[a].tgt = n

\* The ids of a node's edges whose xmax flag is unset.
Alive(n, dir) == {item[a].id : a \in {c \in Items : Incident(n, dir, c) /\ item[c].xmax = 0}}

\* The header is read under a shared lock that is then released.  "both" walks
\* the out-chain first, then the in-chain from the head read now.
FollowBegin(b, n, dir) ==
    /\ Start(b, "follow")
    /\ n \in present
    /\ Readable(n)
    /\ pc' = [pc EXCEPT ![b] = "follow"]
    /\ loc' = [loc EXCEPT ![b] =
                 [NoLocals EXCEPT
                     !.src = n,
                     !.dir = IF dir = "in" THEN "in" ELSE "out",
                     !.cur = IF dir = "in" THEN hdr[n].in ELSE hdr[n].out,
                     !.inHead = IF dir = "both" THEN hdr[n].in ELSE Null,
                     !.start = Alive(n, dir)]]
    /\ UNCHANGED <<store, locks, txns>>

\* Pin and share-lock the page of the current pointer.
FollowLock(b) ==
    /\ pc[b] = "follow"
    /\ loc[b].cur # Null
    /\ elock[loc[b].cur[1]] = None
    /\ eshare' = [eshare EXCEPT ![loc[b].cur[1]] = @ \cup {b}]
    /\ pc' = [pc EXCEPT ![b] = "onpage"]
    /\ UNCHANGED <<store, nlock, elock, txns, loc>>

\* Mutant: the traversal always takes the out pointer.
NextPtrOut(b) == item[loc[b].cur].nextOut

NextPtr(b) == IF loc[b].dir = "out" THEN item[loc[b].cur].nextOut ELSE item[loc[b].cur].nextIn

\* One slot: yield it if its xmax flag is unset, whoever inserted it, and go
\* to the next pointer; the lock is kept while the chain stays on the page.
\* A slot without an item stops the traversal.
FollowItem(b) ==
    LET c == loc[b].cur
    IN  /\ pc[b] = "onpage"
        /\ \/ /\ c \notin Items
              /\ loc' = [loc EXCEPT ![b].cur = Null]
              /\ pc' = [pc EXCEPT ![b] = "follow"]
              /\ eshare' = [eshare EXCEPT ![c[1]] = @ \ {b}]
           \/ /\ c \in Items
              /\ loc' = [loc EXCEPT
                    ![b].cur = NextPtr(b),
                    ![b].got = IF item[c].xmax = 0 THEN @ \cup {item[c].id} ELSE @]
              /\ \/ /\ NextPtr(b) # Null /\ NextPtr(b)[1] = c[1]
                    /\ UNCHANGED <<pc, eshare>>
                 \/ /\ ~(NextPtr(b) # Null /\ NextPtr(b)[1] = c[1])
                    /\ pc' = [pc EXCEPT ![b] = "follow"]
                    /\ eshare' = [eshare EXCEPT ![c[1]] = @ \ {b}]
        /\ UNCHANGED <<store, nlock, elock, txns>>

\* End of the out-chain of a traversal in both directions.
FollowSecond(b) ==
    /\ pc[b] = "follow"
    /\ loc[b].cur = Null
    /\ loc[b].inHead # Null
    /\ loc' = [loc EXCEPT ![b].cur = loc[b].inHead, ![b].inHead = Null, ![b].dir = "in"]
    /\ UNCHANGED <<store, locks, txns, pc>>

\* End of the last chain: the result, one record per edge id, is returned.
FollowDone(b) == pc[b] = "follow" /\ loc[b].cur = Null /\ loc[b].inHead = Null

FollowEnd(b) ==
    /\ FollowDone(b)
    /\ Return(b)
    /\ UNCHANGED <<store, locks, txns>>

-----------------------------------------------------------------------------

InsertStep(b) ==
    \/ LockFirst(b) \/ LockSecond(b)
    \/ FindLastPage(b) \/ LockLastPage(b)
    \/ ExtendBegin(b) \/ ExtendEnd(b) \/ LockNewPage(b)
    \/ InsertApply(b)
ScanStep(b)   == ScanPage(b) \/ PropsTooLong(b) \/ ScanEnd(b)
FollowStep(b) == FollowLock(b) \/ FollowItem(b) \/ FollowSecond(b) \/ FollowEnd(b)

Step(b) ==
    \/ BeginTxn(b) \/ CommitTxn(b) \/ AbortTxn(b)
    \/ \E s, t \in Node : InsertFind(b, s, t)
    \/ InsertStep(b)
    \/ \E e \in Edge, task \in {"delete", "props"} : ScanBegin(b, e, task)
    \/ ScanStep(b)
    \/ \E n \in Node : DropNode(b, n)
    \/ \E n \in Node, dir \in {"out", "in", "both"} : FollowBegin(b, n, dir)
    \/ FollowStep(b)

Next == \E b \in Backend : Step(b)

Spec == Init /\ [][Next]_vars

\* The steps that wait for a buffer (or for PostgreSQL's extension of the
\* relation), and the steps that wait for nothing.
LockStep(b) ==
    \/ LockFirst(b) \/ LockSecond(b) \/ LockLastPage(b) \/ LockNewPage(b)
    \/ ExtendBegin(b) \/ ScanPage(b) \/ PropsTooLong(b) \/ FollowLock(b)
RunStep(b) ==
    \/ FindLastPage(b) \/ ExtendEnd(b) \/ InsertApply(b)
    \/ ScanEnd(b) \/ FollowItem(b) \/ FollowSecond(b) \/ FollowEnd(b)

\* A backend between two steps of an operation keeps running, and a LWLock
\* queues its waiters, so a lock that is free again and again is granted.
\* Nothing makes a client start an operation or end its transaction.
Progress(b) == WF_vars(RunStep(b)) /\ SF_vars(LockStep(b))

FairSpec == Spec /\ \A b \in Backend : Progress(b)

-----------------------------------------------------------------------------
(* Properties                                                              *)

Locals ==
    [e: 0..MaxEdge, src: Node \cup {None}, tgt: Node \cup {None},
     srcAdj: Header, tgtAdj: Header, pg: 0..(MaxPages + 1), lim: 0..MaxPages,
     dir: {"out", "in"}, cur: Ptr, inHead: Ptr, got: SUBSET Edge, start: SUBSET Edge]

Control == {"idle", "lock1", "lock2", "findpage", "locklast", "extend", "extending",
            "locknew", "apply", "delete", "props", "follow", "onpage"}

StoreOK ==
    /\ hdr \in [Node -> Header]
    /\ present \subseteq Node
    /\ nblocks \in 0..MaxPages
    /\ used \in [Page -> 0..Absent]
    /\ item \in [Addr -> Item \cup {NoItem}]
    /\ lastId \in 0..MaxEdge
    /\ twice \subseteq Page
LocksOK ==
    /\ nlock \in [NodeBlk -> Backend \cup {None}]
    /\ elock \in [Page -> Backend \cup {None}]
    /\ eshare \in [Page -> SUBSET Backend]
TxnsOK ==
    /\ xstat \in [Xid -> {"none", "active", "committed", "aborted"}]
    /\ xid \in [Backend -> 0..MaxXid]
ControlOK ==
    /\ pc \in [Backend -> Control]
    /\ loc \in [Backend -> Locals]

\* Every variable has its type.
TypeOK == StoreOK /\ LocksOK /\ TxnsOK /\ ControlOK

\* Chain exactness: the out-chain (in-chain) of a node is the list of all the
\* edge items with that source (target), in descending physical order.  A head
\* is the physically last such item; the pointer of an item is the last one
\* before it.  So chains are acyclic, no concurrent insert_edge is lost from a
\* chain, and no chain runs into another node's edges: as long as no two calls
\* of find_or_extend_edge_page have been given one block.
LastOf(S, a) == IF S = {} THEN a = Null ELSE a \in S /\ \A c \in S : c = a \/ Before(c, a)

OutItems(n) == {a \in Items : item[a].src = n}
InItems(n)  == {a \in Items : item[a].tgt = n}

Chains ==
    /\ \A n \in Node : LastOf(OutItems(n), hdr[n].out) /\ LastOf(InItems(n), hdr[n].in)
    /\ \A a \in Items :
        /\ LastOf({c \in OutItems(item[a].src) : Before(c, a)}, item[a].nextOut)
        /\ LastOf({c \in InItems(item[a].tgt) : Before(c, a)}, item[a].nextIn)

ChainExact == twice = {} => Chains

\* The claim that parallel inserts corrupt nothing: chains are exact whoever
\* extends the relation.
ChainsUnderExtension == Chains

\* The degrees in a header count the items on its chains (deleted ones too): two
\* inserts that copy one header never write back the same increment.  A block
\* handed out twice loses items, and the degrees count them still.
Degrees ==
    \A n \in Node :
        /\ hdr[n].outDegree = Cardinality(OutItems(n))
        /\ hdr[n].inDegree = Cardinality(InItems(n))

DegreeExact == twice = {} => Degrees

\* Lock ordering: whoever waits for a buffer holds only buffers that come before
\* it (node pages by block number, then edge pages), so that no set of
\* insert_edge calls, scans and traversals can wait for each other in a cycle.
WaitsForNodeBlk(b, k) ==
    \/ pc[b] = "lock1" /\ k = LockSeq(b)[1]
    \/ pc[b] = "lock2" /\ k = LockSeq(b)[2]
WaitsForEdgePage(b) == pc[b] \in {"locklast", "locknew", "delete", "props", "follow"}

LockOrder ==
    \A b \in Backend :
        /\ \A k \in NodeBlk : WaitsForNodeBlk(b, k) =>
            /\ \A j \in NodeBlk : nlock[j] = b => j < k
            /\ \A p \in Page : elock[p] # b /\ b \notin eshare[p]
        /\ WaitsForEdgePage(b) => \A p \in Page : elock[p] # b /\ b \notin eshare[p]

\* A traversal that races with inserts and deletes returns every edge of the
\* node that was alive when it read the header and still is, and only edges
\* that were alive then (again unless a block was handed out twice).
StillAlive(S) == {e \in S : \E a \in Items : item[a].id = e /\ item[a].xmax = 0}

FollowExact ==
    twice = {} => \A b \in Backend : FollowDone(b) =>
        /\ StillAlive(loc[b].start) \subseteq loc[b].got
        /\ loc[b].got \subseteq loc[b].start

\* Every operation ends, under contention too, if traversals by others do not
\* keep an edge page share-locked for ever: a shared lock is granted past a
\* waiting exclusive one, so traversals that relieve each other on the last page
\* keep an insert_edge out of it.  (And unless a block was handed out twice: a
\* chain may then be a cycle, in which follow_chain runs for ever.)
Relieved(b) == \A p \in Page : []<>(eshare[p] \ {b} = {})

OperationsEnd ==
    [](twice = {}) =>
        \A b \in Backend : Relieved(b) => (pc[b] # "idle" ~> pc[b] = "idle")

\* What a traversal returns was inserted by the reader's own transaction or by
\* a committed one.
NoGhostEdges ==
    \A b \in Backend : FollowDone(b) =>
        \A a \in Items : item[a].id \in loc[b].got => XminVisible(b, item[a])
=============================================================================
