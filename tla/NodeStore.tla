------------------------------ MODULE NodeStore ------------------------------
(***************************************************************************)
(* The node store of pg_eddy (storage/node_store.rs) and its VACUUM        *)
(* (storage/vacuum.rs) as concurrent backends run them.                    *)
(*                                                                         *)
(* A node is a chain of versions: items on the pages of the node relation. *)
(* An item records its inserter (xmin), whether HEAP_XMAX_INVALID has been *)
(* cleared and by whom (xmax), and the slot of the adjacency header in the *)
(* special area of its page.  Line pointers are never reused: VACUUM turns *)
(* them LP_DEAD with their storage, which PageRepairFragmentation keeps.   *)
(*                                                                         *)
(* The functions lock one page at a time, so each step below is what       *)
(* happens under one buffer lock; what a function has read before it       *)
(* unlocked (an address, a header slot, a list of dead slots) is in loc.   *)
(***************************************************************************)
EXTENDS Naturals, FiniteSets, FiniteSetsExt

CONSTANTS
    Backend,      \* the PostgreSQL backends
    None,         \* no snapshot
    MaxNode,      \* bound: node ids that next_node_id hands out, each once
    MaxPages,     \* bound: blocks of the node relation
    PageCap,      \* items that fit on a node page, each with an adjacency header
    MaxXid,       \* bound: transactions
    MaxEdges,     \* bound: edges recorded in the headers
    Task,         \* [Backend -> SUBSET Tasks]: what each backend may run
    Repeatable    \* backends that run REPEATABLE READ transactions

Tasks == {"insert", "insertbig", "delete", "update", "edge", "scan", "vacuum"}

Node == 1..MaxNode
Page == 1..MaxPages
Slot == 1..PageCap
Addr == Page \X Slot
Xid  == 1..MaxXid

\* A version of a node; ovf is the block of its overflow properties, or 0.
Item == [id: Node, slot: Slot, xmin: Xid, xmax: Xid \cup {0}, ovf: Page \cup {0},
         lp: {"normal", "dead"}]
NoItem == [id |-> 0]

\* An MVCC snapshot: the next xid to be assigned and those running.
Snapshot == [next: 1..(MaxXid + 1), running: SUBSET Xid]

ASSUME NodeStoreAssumption ==
    /\ MaxNode \in Nat /\ MaxPages \in Nat /\ MaxXid \in Nat /\ MaxEdges \in Nat
    /\ PageCap \in Nat \ {0}
    /\ Task \in [Backend -> SUBSET Tasks]
    /\ Repeatable \subseteq Backend
    /\ None \notin Snapshot

VARIABLES
    lastId,    \* node_id_seq
    kind,      \* page -> "none" (beyond the end), "node" or "overflow"
    used,      \* line pointers of each page
    item,      \* the items by address
    hdr,       \* adjacency headers by page and slot: the edges recorded there
    edges,     \* history: edges recorded for each node
    killer,    \* history: the deleter for whose sake an item became LP_DEAD
    replaced,  \* history: the items that an update has replaced
    forked,    \* history: the nodes of which two updates replaced the same item
    xstat, xid, snap, pc, loc

store == <<lastId, kind, used, item, hdr, edges, killer, replaced, forked>>
txns  == <<xstat, xid, snap>>
vars  == <<store, txns, pc, loc>>

\* Locals: the operation, the node, whether its old record was seen, whether its
\* properties need an overflow block; the page and offset a search has reached
\* and its last page; the address and header slot found; a scan's result; the
\* slots VACUUM found dead and the horizon it works with.
NoLocals == [task |-> "none", n |-> 0, seen |-> FALSE, big |-> FALSE, pg |-> 0, off |-> 1, lim |-> 0,
             at |-> <<0, 0>>, slot |-> 0, got |-> {}, dead |-> {}, horizon |-> 0]

nblocks == Cardinality({p \in Page : kind[p] # "none"})

Init ==
    /\ lastId = 0
    /\ kind = [p \in Page |-> "none"]
    /\ used = [p \in Page |-> 0]
    /\ item = [a \in Addr |-> NoItem]
    /\ hdr = [a \in Addr |-> 0]
    /\ edges = [n \in Node |-> 0]
    /\ killer = [a \in Addr |-> 0]
    /\ replaced = {} /\ forked = {}
    /\ xstat = [x \in Xid |-> "none"]
    /\ xid = [b \in Backend |-> 0]
    /\ snap = [b \in Backend |-> None]
    /\ pc = [b \in Backend |-> "idle"]
    /\ loc = [b \in Backend |-> NoLocals]

Items == {a \in Addr : a[2] <= used[a[1]]}
OnPage(p) == {a \in Items : a[1] = p}

-----------------------------------------------------------------------------
(* Transactions and snapshots (external: PostgreSQL)                       *)

Running == {x \in Xid : xstat[x] = "active"}
NextXid == Min({x \in 1..(MaxXid + 1) : x \in Xid => xstat[x] = "none"})

BeginTxn(b) ==
    /\ pc[b] = "idle"
    /\ xid[b] = 0
    /\ NextXid \in Xid
    /\ xstat' = [xstat EXCEPT ![NextXid] = "active"]
    /\ xid' = [xid EXCEPT ![b] = NextXid]
    /\ UNCHANGED <<store, snap, pc, loc>>

\* The end of a transaction, of one that only reads (and has no xid) too.
EndTxn(b, status) ==
    /\ pc[b] = "idle"
    /\ xid[b] # 0 \/ snap[b] # None
    /\ xstat' = [x \in Xid |-> IF x = xid[b] THEN status ELSE xstat[x]]
    /\ xid' = [xid EXCEPT ![b] = 0]
    /\ snap' = [snap EXCEPT ![b] = None]
    /\ UNCHANGED <<store, pc, loc>>

CommitTxn(b) == EndTxn(b, "committed")
AbortTxn(b)  == EndTxn(b, "aborted")

Return(b) ==
    /\ pc' = [pc EXCEPT ![b] = "idle"]
    /\ loc' = [loc EXCEPT ![b] = NoLocals]

\* XidInMVCCSnapshot.
InSnapshot(x, s) == x >= s.next \/ x \in s.running

\* A transaction's changes belong to what a snapshot of backend b shows.
Shown(b, s, x) == x = xid[b] \/ (xstat[x] = "committed" /\ ~InSnapshot(x, s))

\* Mutant: the horizon does not take account of open snapshots.
OldestXminNoSnapshots == Min(Running \cup {NextXid})

\* GetOldestNonRemovableTransactionId: no xid below it runs or is running to
\* any snapshot in use.
OldestXmin ==
    Min((UNION {snap[b].running \cup {snap[b].next} : b \in {c \in Backend : snap[c] # None}})
        \cup Running \cup {NextXid})

\* The transaction is the backend's own or has committed.
Committed(b, x) == x = xid[b] \/ xstat[x] = "committed"

\* ereport(ERROR) in an operation.
Error(b) ==
    /\ Return(b)
    /\ xstat' = [xstat EXCEPT ![xid[b]] = "aborted"]
    /\ xid' = [xid EXCEPT ![b] = 0]
    /\ snap' = [snap EXCEPT ![b] = None]

\* The end of a mutation: an update or delete of a node whose old record was not
\* seen has changed the store, and raises an error only now.
Captured(b) ==
    \/ loc[b].seen /\ Return(b) /\ UNCHANGED txns
    \/ ~loc[b].seen /\ Error(b)

-----------------------------------------------------------------------------
(* find_or_extend_page and the insertion of an item                        *)

\* The size of the relation is read without a lock.
PlaceBegin(b) ==
    /\ pc[b] = "size"
    /\ loc' = [loc EXCEPT ![b].lim = nblocks]
    /\ pc' = [pc EXCEPT ![b] = "place"]
    /\ UNCHANGED <<store, txns>>

\* From there backwards: the first node page, overflow blocks skipped, or 0.
LastNodePage(b) == Max({p \in 1..loc[b].lim : kind[p] = "node"} \cup {0})

\* Mutant: a full page passes for one with room.
HasSpaceLax(p) == used[p] <= PageCap

HasSpace(p) == used[p] < PageCap

\* Mutant: the header slot stays the placeholder.
HeaderSlotPlaceholder(b, a) == IF loc[b].task = "insert" THEN 1 ELSE loc[b].slot

\* A new node gets the header of its line pointer; a new version of a node
\* keeps the slot number of the old one.
HeaderSlot(b, a) == IF loc[b].task = "insert" THEN a[2] ELSE loc[b].slot

Version(b, a, ovf) ==
    [id |-> loc[b].n, slot |-> HeaderSlot(b, a), xmin |-> xid[b], xmax |-> 0,
     ovf |-> ovf, lp |-> "normal"]

\* The critical section of insert_node, and the second one of a cross-page
\* update_node, on page p; big properties go to a block added to the relation
\* after the node page has been found (and added, if it is new).
Put(b, p) ==
    LET a == <<p, used[p] + 1>>
        grown == IF kind[p] = "node" THEN nblocks ELSE p
    IN  /\ loc[b].big => grown < MaxPages
        /\ item' = [item EXCEPT ![a] = Version(b, a, IF loc[b].big THEN grown + 1 ELSE 0)]
        /\ used' = [used EXCEPT ![p] = @ + 1]
        /\ kind' = [q \in Page |-> CASE q = p -> "node"
                                     [] loc[b].big /\ q = grown + 1 -> "overflow"
                                     [] OTHER -> kind[q]]
        /\ Captured(b)
        /\ UNCHANGED <<lastId, hdr, edges, killer, replaced, forked>>

PlaceHere(b) ==
    /\ pc[b] = "place"
    /\ LastNodePage(b) # 0
    /\ HasSpace(LastNodePage(b))
    /\ Put(b, LastNodePage(b))

\* The page is full (or there is none): it is unlocked before the relation is
\* extended.
PlaceFull(b) ==
    /\ pc[b] = "place"
    /\ LastNodePage(b) # 0 => ~HasSpace(LastNodePage(b))
    /\ pc' = [pc EXCEPT ![b] = "placenew"]
    /\ UNCHANGED <<store, txns, loc>>

PlaceNew(b) ==
    /\ pc[b] = "placenew"
    /\ nblocks < MaxPages
    /\ Put(b, nblocks + 1)

Start(b, task) == pc[b] = "idle" /\ task \in Task[b]

InsertBegin(b, task) ==
    /\ task \in {"insert", "insertbig"}
    /\ Start(b, task)
    /\ xid[b] # 0
    /\ lastId < MaxNode
    /\ lastId' = lastId + 1
    /\ pc' = [pc EXCEPT ![b] = "size"]
    /\ loc' = [loc EXCEPT ![b] =
                 [NoLocals EXCEPT !.task = "insert", !.n = lastId + 1, !.seen = TRUE,
                                  !.big = (task = "insertbig")]]
    /\ UNCHANGED <<kind, used, item, hdr, edges, killer, replaced, forked, txns>>

-----------------------------------------------------------------------------
(* find_node_location: the first item of the node whose xmax flag is unset, *)
(* whoever inserted it; the statement's location cache may point to any.    *)

Matches(n, a) == item[a].lp = "normal" /\ item[a].id = n /\ item[a].xmax = 0

\* find_node_by_id with the snapshot of the statement that begins: the node is
\* visible, by a page scan or through the location cache.
OldSeen(b, n) == \E a \in Items : Matches(n, a) /\ Committed(b, item[a].xmin)

\* storage/mutation.rs reads the record it will report to the mirror and to CDC
\* before it calls the store.
LoadOld(b, task, n) ==
    /\ task \in {"delete", "update"}
    /\ Start(b, task)
    /\ xid[b] # 0
    /\ n <= lastId
    /\ pc' = [pc EXCEPT ![b] = "loaded"]
    /\ loc' = [loc EXCEPT ![b] =
                 [NoLocals EXCEPT !.task = task, !.n = n, !.seen = OldSeen(b, n)]]
    /\ UNCHANGED <<store, txns>>

FindBegin(b) ==
    /\ pc[b] = "loaded"
    /\ pc' = [pc EXCEPT ![b] = "find"]
    /\ loc' = [loc EXCEPT ![b].pg = 1, ![b].lim = nblocks]
    /\ UNCHANGED <<store, txns>>

\* insert_edge, for one of its end points.
EdgeBegin(b, n) ==
    /\ Start(b, "edge")
    /\ xid[b] # 0
    /\ n <= lastId
    /\ pc' = [pc EXCEPT ![b] = "loaded"]
    /\ loc' = [loc EXCEPT ![b] = [NoLocals EXCEPT !.task = "edge", !.n = n]]
    /\ UNCHANGED <<store, txns>>

Found(b, a) ==
    /\ loc' = [loc EXCEPT ![b].at = a, ![b].slot = item[a].slot]
    /\ pc' = [pc EXCEPT ![b] = loc[b].task]

FindCached(b, a) ==
    /\ pc[b] = "find"
    /\ loc[b].pg = 1
    /\ Matches(loc[b].n, a)
    /\ Found(b, a)
    /\ UNCHANGED <<store, txns>>

FindPage(b) ==
    LET hits == {a \in OnPage(loc[b].pg) : Matches(loc[b].n, a)}
    IN  /\ pc[b] = "find"
        /\ loc[b].pg <= loc[b].lim
        /\ \/ \E a \in hits : (\A c \in hits : a[2] <= c[2]) /\ Found(b, a)
           \/ hits = {} /\ loc' = [loc EXCEPT ![b].pg = @ + 1] /\ UNCHANGED pc
        /\ UNCHANGED <<store, txns>>

\* Not found: update_node and delete_node_by_id return false; insert_edge
\* raises PE400.
FindNone(b) ==
    /\ pc[b] = "find"
    /\ loc[b].pg > loc[b].lim
    /\ \/ loc[b].task # "edge" /\ Return(b) /\ UNCHANGED txns
       \/ loc[b].task = "edge" /\ Error(b)
    /\ UNCHANGED store

-----------------------------------------------------------------------------
(* delete_node_by_id, update_node, and the header write of insert_edge: the *)
(* address found is used without looking at the item again.                 *)

DeleteApply(b) ==
    /\ pc[b] = "delete"
    /\ item' = [item EXCEPT ![loc[b].at].xmax = xid[b]]
    /\ Captured(b)
    /\ UNCHANGED <<lastId, kind, used, hdr, edges, killer, replaced, forked>>

\* What the next two actions do to the history variables.
Replaces(b) ==
    /\ replaced' = replaced \cup {loc[b].at}
    /\ forked' = IF loc[b].at \in replaced THEN forked \cup {loc[b].n} ELSE forked

UpdateSamePage(b) ==
    LET p == loc[b].at[1]
        a == <<p, used[p] + 1>>
    IN  /\ pc[b] = "update"
        /\ HasSpace(p)
        /\ item' = [item EXCEPT ![loc[b].at].xmax = xid[b], ![a] = Version(b, a, 0)]
        /\ used' = [used EXCEPT ![p] = @ + 1]
        /\ Replaces(b)
        /\ Captured(b)
        /\ UNCHANGED <<lastId, kind, hdr, edges, killer>>

\* No room: the old version is deleted, the page unlocked, then the new version
\* goes wherever find_or_extend_page finds room.
UpdateCrossPage(b) ==
    /\ pc[b] = "update"
    /\ ~HasSpace(loc[b].at[1])
    /\ item' = [item EXCEPT ![loc[b].at].xmax = xid[b]]
    /\ Replaces(b)
    /\ pc' = [pc EXCEPT ![b] = "size"]
    /\ UNCHANGED <<lastId, kind, used, hdr, edges, killer, txns, loc>>

EdgeApply(b) ==
    LET h == <<loc[b].at[1], loc[b].slot>>
    IN  /\ pc[b] = "edge"
        /\ edges[loc[b].n] < MaxEdges
        /\ hdr' = [hdr EXCEPT ![h] = @ + 1]
        /\ edges' = [edges EXCEPT ![loc[b].n] = @ + 1]
        /\ Return(b)
        /\ UNCHANGED <<lastId, kind, used, item, killer, replaced, forked, txns>>

-----------------------------------------------------------------------------
(* NodeScanState: begin, next, end                                         *)

\* Mutant: xmin is visible once committed, whatever the snapshot says.
XminVisibleDidCommit(b, a) == Committed(b, item[a].xmin)

XminVisible(b, a) == Shown(b, snap[b], item[a].xmin)

\* read_node_at_offset.
Visible(b, a) == item[a].lp = "normal" /\ XminVisible(b, a) /\ item[a].xmax = 0

\* A REPEATABLE READ transaction keeps the snapshot of its first statement.
ScanBegin(b) ==
    /\ Start(b, "scan")
    /\ snap' = [snap EXCEPT ![b] = IF @ # None THEN @ ELSE [next |-> NextXid, running |-> Running]]
    /\ pc' = [pc EXCEPT ![b] = "scan"]
    /\ loc' = [loc EXCEPT ![b] = [NoLocals EXCEPT !.pg = 1, !.lim = nblocks]]
    /\ UNCHANGED <<store, xstat, xid>>

\* Mutant: after a record the scan goes on with the next page.
AfterRecordSkips(b, a) == [loc[b] EXCEPT !.got = @ \cup {a}, !.pg = @ + 1, !.off = 1]

AfterRecord(b, a) == [loc[b] EXCEPT !.got = @ \cup {a}, !.off = a[2] + 1]

\* next: under one lock, the first visible item of the page from the current
\* offset on; without one, on to the next page.
ScanNext(b) ==
    LET rest == {a \in OnPage(loc[b].pg) : a[2] >= loc[b].off /\ Visible(b, a)}
    IN  /\ pc[b] = "scan"
        /\ loc[b].pg <= loc[b].lim
        /\ \/ \E a \in rest :
                /\ \A c \in rest : a[2] <= c[2]
                /\ loc' = [loc EXCEPT ![b] = AfterRecord(b, a)]
           \/ rest = {} /\ loc' = [loc EXCEPT ![b].pg = @ + 1, ![b].off = 1]
        /\ UNCHANGED <<store, txns, pc>>

ScanDone(b) == pc[b] = "scan" /\ loc[b].pg > loc[b].lim

ScanEnd(b) ==
    /\ ScanDone(b)
    /\ snap' = [snap EXCEPT ![b] = IF b \in Repeatable THEN @ ELSE None]
    /\ Return(b)
    /\ UNCHANGED <<store, xstat, xid>>

-----------------------------------------------------------------------------
(* vacuum_relation; one VACUUM of a relation at a time                     *)

VacuumBegin(b) ==
    /\ Start(b, "vacuum")
    /\ xid[b] = 0
    /\ \A c \in Backend : loc[c].task # "vacuum"
    /\ pc' = [pc EXCEPT ![b] = "vacuum"]
    /\ loc' = [loc EXCEPT ![b] = [NoLocals EXCEPT !.task = "vacuum", !.pg = 1, !.lim = nblocks,
                                                  !.horizon = OldestXmin]]
    /\ UNCHANGED <<store, txns>>

DeadTo(b, a) ==
    /\ item[a].lp = "normal"
    /\ item[a].xmax # 0
    /\ item[a].xmax < loc[b].horizon
    /\ xstat[item[a].xmax] = "committed"

\* Under the shared lock: the dead items of a page, with their header slots.
\* Overflow blocks have no node items.
VacuumCollect(b) ==
    LET dead == {a \in OnPage(loc[b].pg) : DeadTo(b, a)}
    IN  /\ pc[b] = "vacuum"
        /\ loc[b].pg <= loc[b].lim
        /\ IF dead = {}
           THEN loc' = [loc EXCEPT ![b].pg = @ + 1] /\ UNCHANGED pc
           ELSE /\ loc' = [loc EXCEPT ![b].dead = {<<a, item[a].slot, item[a].xmax>> : a \in dead}]
                /\ pc' = [pc EXCEPT ![b] = "vacuumpage"]
        /\ UNCHANGED <<store, txns>>

\* Under the exclusive lock: LP_DEAD, and compact_node_page clears the headers.
VacuumPage(b) ==
    LET dead == loc[b].dead
        headers == {<<d[1][1], d[2]>> : d \in dead}
    IN  /\ pc[b] = "vacuumpage"
        /\ item' = [a \in Addr |-> IF \E d \in dead : d[1] = a
                                   THEN [item[a] EXCEPT !.lp = "dead"] ELSE item[a]]
        /\ killer' = [a \in Addr |-> IF \E d \in dead : d[1] = a
                                     THEN (CHOOSE d \in dead : d[1] = a)[3] ELSE killer[a]]
        /\ hdr' = [h \in Addr |-> IF h \in headers THEN 0 ELSE hdr[h]]
        /\ pc' = [pc EXCEPT ![b] = "vacuum"]
        /\ loc' = [loc EXCEPT ![b].dead = {}, ![b].pg = @ + 1]
        /\ UNCHANGED <<lastId, kind, used, edges, replaced, forked, txns>>

VacuumEnd(b) ==
    /\ pc[b] = "vacuum"
    /\ loc[b].pg > loc[b].lim
    /\ Return(b)
    /\ UNCHANGED <<store, txns>>

-----------------------------------------------------------------------------

Step(b) ==
    \/ BeginTxn(b) \/ CommitTxn(b) \/ AbortTxn(b)
    \/ \E task \in {"insert", "insertbig"} : InsertBegin(b, task)
    \/ PlaceBegin(b) \/ PlaceHere(b) \/ PlaceFull(b) \/ PlaceNew(b)
    \/ \E task \in {"delete", "update"}, n \in Node : LoadOld(b, task, n)
    \/ \E n \in Node : EdgeBegin(b, n)
    \/ FindBegin(b) \/ (\E a \in Items : FindCached(b, a)) \/ FindPage(b) \/ FindNone(b)
    \/ DeleteApply(b) \/ UpdateSamePage(b) \/ UpdateCrossPage(b) \/ EdgeApply(b)
    \/ ScanBegin(b) \/ ScanNext(b) \/ ScanEnd(b)
    \/ VacuumBegin(b) \/ VacuumCollect(b) \/ VacuumPage(b) \/ VacuumEnd(b)

Next == \E b \in Backend : Step(b)

Spec == Init /\ [][Next]_vars

-----------------------------------------------------------------------------
(* Properties                                                              *)

Control == {"idle", "size", "place", "placenew", "loaded", "find", "delete", "update", "edge", "scan",
            "vacuum", "vacuumpage"}

Locals ==
    [task: {"none", "insert", "delete", "update", "edge", "vacuum"}, n: 0..MaxNode,
     seen: BOOLEAN, big: BOOLEAN, pg: 0..(MaxPages + 1), off: 1..(PageCap + 1), lim: 0..MaxPages, at: Addr \cup {<<0, 0>>},
     slot: 0..PageCap, got: SUBSET Addr, dead: SUBSET (Addr \X Slot \X Xid), horizon: 0..(MaxXid + 1)]

\* Every variable has its type; pages fill up to their capacity and no further.
TypeOK ==
    /\ lastId \in 0..MaxNode
    /\ kind \in [Page -> {"none", "node", "overflow"}]
    /\ used \in [Page -> 0..PageCap]
    /\ item \in [Addr -> Item \cup {NoItem}] /\ \A a \in Items : item[a] \in Item
    /\ hdr \in [Addr -> Nat]
    /\ edges \in [Node -> 0..MaxEdges]
    /\ killer \in [Addr -> Xid \cup {0}]
    /\ replaced \subseteq Addr /\ forked \subseteq Node
    /\ xstat \in [Xid -> {"none", "active", "committed", "aborted"}]
    /\ xid \in [Backend -> 0..MaxXid]
    /\ snap \in [Backend -> Snapshot \cup {None}]
    /\ pc \in [Backend -> Control]
    /\ loc \in [Backend -> Locals]

\* A scan that races with the updates of any number of backends, on its own page
\* or across pages, never returns two versions of a node, unless two updates
\* found the same version and each has replaced it: neither looks at the item
\* again, so both new versions stay.
ScanOnce ==
    \A b \in Backend : ScanDone(b) =>
        \A a, c \in loc[b].got : item[a].id = item[c].id => a = c \/ item[a].id \in forked

\* A scan returns every version committed before its snapshot (or its own)
\* that nobody has deleted meanwhile, though it unlocks the page after each
\* record and pages fill up and are vacuumed behind its back.
ScanComplete ==
    \A b \in Backend : ScanDone(b) =>
        \A a \in Items :
            item[a].lp = "normal" /\ item[a].xmax = 0 /\ Shown(b, snap[b], item[a].xmin)
                => a \in loc[b].got

\* VACUUM makes an item LP_DEAD only if its deleter has committed in the eyes of
\* every snapshot in use: nobody can still be entitled to the item.
VacuumSafe ==
    \A a \in Items : item[a].lp = "dead" =>
        /\ xstat[killer[a]] = "committed"
        /\ \A b \in Backend : snap[b] # None => ~InSnapshot(killer[a], snap[b])

\* Items whose xmax flag is unset: the version everybody works with.
Live == {a \in Items : item[a].lp = "normal" /\ item[a].xmax = 0}

\* The adjacency header an item names, by page and slot.
HeaderOf(a) == <<a[1], item[a].slot>>

\* Some update has moved the node to another page.
Moved(n) == \E a, c \in Items : item[a].id = n /\ item[c].id = n /\ a[1] # c[1]

\* No version of the item's node has been vacuumed, and its header is not named
\* by a node that moved.
Undisturbed(a) ==
    \A c \in Items :
        /\ item[c].id = item[a].id => item[c].lp = "normal"
        /\ HeaderOf(c) = HeaderOf(a) => ~Moved(item[c].id)

\* The header of a live node holds all the edges recorded for that node, as long
\* as no version of it has been vacuumed, and neither it nor a node that has come
\* to name its header has moved to another page: updates on the page, edges
\* recorded through older versions and VACUUM of other nodes do not disturb it.
HeaderIntact ==
    \A a \in Live : Undisturbed(a) => hdr[HeaderOf(a)] = edges[item[a].id]

\* The claim that VACUUM clears a header only when its edges are dead: a node
\* keeps its edges as long as it lives.
HeaderKept == \A a \in Live : hdr[HeaderOf(a)] = edges[item[a].id]

=============================================================================
