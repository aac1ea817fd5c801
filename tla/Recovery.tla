------------------------------- MODULE Recovery -------------------------------
(***************************************************************************)
(* Write-ahead logging and redo of the stores (storage/wal.rs and the      *)
(* critical sections of storage/node_store.rs, edge_store.rs, vacuum.rs).  *)
(*                                                                         *)
(* A critical section changes its pages in shared buffers, inserts its WAL *)
(* records one by one, and only then sets the page LSNs and marks the      *)
(* buffers dirty.  It holds the pages' exclusive locks, so that no other   *)
(* backend, and nobody who writes a page to disk, gets in between; but the *)
(* WAL may be flushed, a checkpoint may start, and the server may crash.   *)
(* As the locks keep writers of a page apart, one writer is enough here.   *)
(*                                                                         *)
(* An LSN is a position in the WAL, 0 that of an earlier time.             *)
(***************************************************************************)
EXTENDS Naturals, Sequences, FiniteSets, FiniteSetsExt

CONSTANTS
    NodePage,        \* blocks of the node relation that hold nodes
    EdgePage,        \* the last block of the edge relation
    OvfPage,         \* the next block of the node relation, for big properties
    None,            \* no image, no operation
    Cap,             \* items (and headers) per page
    MaxWal,          \* bound: WAL records
    MaxXid,          \* bound: transactions
    MaxCrash,        \* bound: crashes
    MaxOps,          \* bound: operations
    Ops,             \* the operations the writer may run
    CheckpointApart  \* no checkpoint starts inside a critical section

ASSUME RecoveryAssumption ==
    /\ None \notin NodePage \cup {EdgePage, OvfPage}
    /\ EdgePage \notin NodePage /\ OvfPage \notin NodePage \cup {EdgePage}
    /\ {Cap, MaxXid} \subseteq Nat \ {0} /\ MaxWal \in Nat
    /\ MaxCrash \in Nat /\ MaxOps \in Nat
    /\ Ops \subseteq {"node", "big", "update", "move", "delnode", "edge", "deledge", "props", "vacuum"}
    /\ CheckpointApart \in BOOLEAN

Blk    == NodePage \cup {EdgePage, OvfPage}
Slot   == 1..Cap
Lsn    == 0..MaxWal
Xid    == 1..MaxXid
Header == [out: 0..Cap, in: 0..Cap]
NoEdges == [out |-> 0, in |-> 0]

\* Where a node's adjacency header is.
HdrAddr == NodePage \X Slot

\* Items by kind of page; an overflow page has one, the properties.
NodeItem == [id: Nat, slot: Slot, xmax: Xid \cup {0}, big: BOOLEAN, lp: {"normal", "dead"}]
EdgeItem == [id: Nat, src: HdrAddr, tgt: HdrAddr, nextOut: 0..Cap, nextIn: 0..Cap,
             xmax: Xid \cup {0}, props: Nat, lp: {"normal"}]

Content(p) == IF p \in NodePage THEN NodeItem ELSE IF p = EdgePage THEN EdgeItem ELSE Nat

Page(p) == [lsn: Lsn, init: BOOLEAN, item: Seq(Content(p)), head: [Slot -> Header]]

\* A WAL record the writer has yet to insert, and a critical section on pages S:
\* its records, and the LSNs the pages will get.
PendingRecord ==
    [type: {"NODE_INSERT", "NODE_DELETE", "EDGE_INSERT", "EDGE_DELETE", "ADJ_UPDATE", "NODE_COMPACT"},
     blk: NodePage \cup {EdgePage}, off: 0..Cap, data: NodeItem \cup EdgeItem \cup Header \cup Nat,
     stamp: BOOLEAN, force: BOOLEAN, ovf: BOOLEAN]

CriticalSection(S) == [todo: Seq(PendingRecord), lsn: [S -> Lsn]]

ASSUME NoneAssumption ==
    /\ \A p \in Blk : None \notin Page(p)
    /\ \A S \in SUBSET Blk : None # S /\ None \notin CriticalSection(S)

\* A page that has been allocated but not written: all zeros.
ZeroPage == [lsn |-> 0, init |-> FALSE, item |-> <<>>, head |-> [s \in Slot |-> NoEdges]]

VARIABLES
    buf,       \* the pages in shared buffers
    dirty,     \* the buffers marked dirty
    disk,      \* the pages on disk
    wal,       \* the WAL records
    flushed,   \* how many of them must be on disk
    fpw,       \* full_page_writes: the server's setting
    redoPtr,   \* RedoRecPtr: where the last checkpoint started
    ckpt,      \* the same in the control file, once that checkpoint is complete
    todo,      \* the pages a checkpoint in progress has yet to write, or None
    op,        \* the critical section in progress, or None
    moving,    \* the version a cross-page update has yet to insert, or None
    xid,       \* the writer's transaction
    lastId,    \* node and edge ids handed out
    mode,      \* "run", "redo", or "failed": recovery has stopped with an error
    pos,       \* the last record replayed
    crashes,   \* crashes so far
    nops,      \* operations so far
    did        \* history: what each transaction did to the pages

pages   == <<buf, dirty, disk>>
log     == <<wal, flushed>>
ckptVars == <<redoPtr, ckpt, todo>>
client  == <<moving, xid, lastId, nops>>
server  == <<mode, pos, crashes, fpw>>
vars    == <<pages, log, ckptVars, op, client, server, did>>

\* A node on the first slot of every node page, no edges, everything on disk.
Init ==
    LET node == [ZeroPage EXCEPT !.init = TRUE,
                    !.item = <<[id |-> 1, slot |-> 1, xmax |-> 0, big |-> FALSE, lp |-> "normal"]>>]
        edge == [ZeroPage EXCEPT !.init = TRUE]
    IN  /\ disk = [p \in Blk |-> CASE p \in NodePage -> node
                                   [] p = EdgePage -> edge
                                   [] OTHER -> ZeroPage]
        /\ buf = disk
        /\ dirty = {}
        /\ wal = <<>> /\ flushed = 0
        /\ fpw \in BOOLEAN /\ redoPtr = 0 /\ ckpt = 0 /\ todo = None
        /\ op = None /\ moving = None
        /\ xid = 1 /\ lastId = 1
        /\ mode = "run" /\ pos = 0 /\ crashes = 0 /\ nops = 0
        /\ did = {}

Items(p) == 1..Len(buf[p].item)
Live(p)  == {i \in Items(p) : buf[p].item[i].lp = "normal" /\ buf[p].item[i].xmax = 0}
LiveNode == {a \in HdrAddr : a[2] \in Live(a[1])}

\* The server is up, and will crash once more: after the last crash recovery is
\* all there is to see.
Running == mode = "run" /\ crashes < MaxCrash

CommitOf(x) == [type |-> "COMMIT", xid |-> x]
Committed(x) == \E i \in 1..Len(wal) : wal[i] = CommitOf(x)

-----------------------------------------------------------------------------
(* WAL records; stamp says whether the caller puts the record's LSN on the  *)
(* page, force that a full-page image is taken in any case.                 *)

Record(type, p, off, data) ==
    [type |-> type, blk |-> p, off |-> off, data |-> data, stamp |-> TRUE, force |-> FALSE,
     ovf |-> FALSE]

\* XLogInsert (external): with full_page_writes the first record for a page since
\* the checkpoint carries an image of the page as it is now.
LogNext ==
    LET r == Head(op.todo)
        n == Len(wal) + 1
        image(p) == [buf[p] EXCEPT !.lsn = n]
    IN  /\ op # None /\ op.todo # <<>>
        /\ n <= MaxWal
        /\ wal' = Append(wal,
              [type |-> r.type, blk |-> r.blk, off |-> r.off, data |-> r.data,
               img |-> IF r.force \/ (fpw /\ buf[r.blk].lsn <= redoPtr) THEN image(r.blk) ELSE None,
               ovf |-> IF r.ovf THEN image(OvfPage) ELSE None])
        /\ op' = [op EXCEPT !.todo = Tail(@),
                            !.lsn = [p \in DOMAIN @ |->
                                        IF (p = r.blk /\ r.stamp) \/ (p = OvfPage /\ r.ovf)
                                        THEN n ELSE @[p]]]
        /\ UNCHANGED <<pages, flushed, ckptVars, client, server, did>>

\* PageSetLSN and MarkBufferDirty for every page, end of the critical section,
\* locks released.
OpEnd ==
    /\ op # None /\ op.todo = <<>>
    /\ buf' = [p \in Blk |-> IF p \in DOMAIN op.lsn THEN [buf[p] EXCEPT !.lsn = op.lsn[p]] ELSE buf[p]]
    /\ dirty' = dirty \cup DOMAIN op.lsn
    /\ op' = None
    /\ UNCHANGED <<disk, log, ckptVars, client, server, did>>

\* A critical section begins: pages have changed, records are to be logged.
Enter(new, records, facts) ==
    /\ Running /\ op = None
    /\ Len(wal) + Len(records) < MaxWal      \* room for a commit
    /\ buf' = [p \in Blk |-> IF p \in DOMAIN new THEN new[p] ELSE buf[p]]
    /\ op' = [todo |-> records, lsn |-> [p \in DOMAIN new |-> buf[p].lsn]]
    /\ did' = did \cup facts
    /\ UNCHANGED <<dirty, disk, log, ckptVars, xid, server>>

May(name) ==
    /\ name \in Ops /\ moving = None
    /\ nops < MaxOps /\ nops' = nops + 1

On(p, page) == [q \in {p} |-> page]

Added(p, off, i)  == [kind |-> "add", blk |-> p, off |-> off, item |-> i, xid |-> xid]
Deleted(p, off)   == [kind |-> "del", blk |-> p, off |-> off, xid |-> xid]
Linked(h, dir, e) == [kind |-> "link", hdr |-> h, dir |-> dir, off |-> e, xid |-> xid]

-----------------------------------------------------------------------------
(* The critical sections                                                   *)

\* Mutant: the placeholder is a number that no header has.
LoggedItemNoHeader(i) == [i EXCEPT !.slot = 0]

\* The item in the page gets the number of its slot; the item in the record was
\* built before that, with a placeholder (the first header).
LoggedItem(i) == [i EXCEPT !.slot = 1]

\* Mutant: the overflow block is not registered with the record.
NodeRecordNoOvf(p, off, i) == Record("NODE_INSERT", p, off, LoggedItem(i))

\* log_node_insert as insert_node calls it: NODE_INSERT or NODE_INSERT_OVF.
NodeRecord(p, off, i) ==
    [Record("NODE_INSERT", p, off, LoggedItem(i)) EXCEPT !.ovf = i.big]

\* insert_node; big properties go to an overflow block, whose image is part of
\* the record.
InsertNode(p, big) ==
    LET off == Len(buf[p].item) + 1
        i == [id |-> lastId + 1, slot |-> off, xmax |-> 0, big |-> big, lp |-> "normal"]
        page == [buf[p] EXCEPT !.item = Append(@, i)]
        ovf == [ZeroPage EXCEPT !.init = TRUE, !.item = <<i.id>>]
    IN  /\ May(IF big THEN "big" ELSE "node")
        /\ off <= Cap
        /\ big => ~buf[OvfPage].init
        /\ lastId' = lastId + 1
        /\ Enter(IF big THEN [q \in {p, OvfPage} |-> IF q = p THEN page ELSE ovf] ELSE On(p, page),
                 <<NodeRecord(p, off, i)>>,
                 {Added(p, off, i)})
        /\ UNCHANGED moving

\* delete_node_by_id.
DeleteNode(p, off) ==
    /\ May("delnode")
    /\ Enter(On(p, [buf[p] EXCEPT !.item[off].xmax = xid]),
             <<Record("NODE_DELETE", p, off, xid)>>, {Deleted(p, off)})
    /\ UNCHANGED <<moving, lastId>>

\* Mutant: the page gets the LSN of the first record.
UpdateRecordsFirstLsn(p, off, new, i) ==
    <<Record("NODE_DELETE", p, off, xid), [Record("NODE_INSERT", p, new, i) EXCEPT !.stamp = FALSE]>>

\* update_node logs the delete and the insert; the page gets the later LSN.
UpdateRecords(p, off, new, i) ==
    <<Record("NODE_DELETE", p, off, xid), Record("NODE_INSERT", p, new, i)>>

\* update_node, room on the page: both changes, then both records.
UpdateNode(p, off) ==
    LET new == Len(buf[p].item) + 1
        i == [buf[p].item[off] EXCEPT !.big = FALSE]
    IN  /\ May("update")
        /\ new <= Cap
        /\ Enter(On(p, [buf[p] EXCEPT !.item = Append([@ EXCEPT ![off].xmax = xid], i)]),
                 UpdateRecords(p, off, new, i),
                 {Deleted(p, off), Added(p, new, i)})
        /\ UNCHANGED <<moving, lastId>>

\* update_node, page full: one critical section deletes the old version, another
\* one inserts the new version elsewhere.
MoveNode(p, off) ==
    /\ May("move")
    /\ Len(buf[p].item) = Cap
    /\ moving' = [buf[p].item[off] EXCEPT !.big = FALSE]
    /\ Enter(On(p, [buf[p] EXCEPT !.item[off].xmax = xid]),
             <<Record("NODE_DELETE", p, off, xid)>>, {Deleted(p, off)})
    /\ UNCHANGED lastId

MovePut(p) ==
    LET new == Len(buf[p].item) + 1
    IN  /\ moving # None
        /\ new <= Cap
        /\ Enter(On(p, [buf[p] EXCEPT !.item = Append(@, moving)]),
                 <<Record("NODE_INSERT", p, new, moving)>>, {Added(p, new, moving)})
        /\ moving' = None
        /\ UNCHANGED <<lastId, nops>>

\* Mutant: the headers are logged before the edge they point to.
EdgeRecordsHeadersFirst(e, i, s, t, head) ==
    <<Record("ADJ_UPDATE", s[1], s[2], head[s]), Record("EDGE_INSERT", EdgePage, e, i)>>
    \o (IF s = t THEN <<>> ELSE
        <<[Record("ADJ_UPDATE", t[1], t[2], head[t]) EXCEPT !.stamp = (s[1] # t[1])]>>)

\* Mutant: one record is thought to do for two headers on one page.
EdgeRecordsOnePerPage(e, i, s, t, head) ==
    <<Record("EDGE_INSERT", EdgePage, e, i), Record("ADJ_UPDATE", s[1], s[2], head[s])>>
    \o (IF s[1] = t[1] THEN <<>> ELSE <<Record("ADJ_UPDATE", t[1], t[2], head[t])>>)

\* insert_edge logs the edge, the source's header, the target's header; if both
\* are on one page it gets the LSN of the source's record.
EdgeRecords(e, i, s, t, head) ==
    <<Record("EDGE_INSERT", EdgePage, e, i), Record("ADJ_UPDATE", s[1], s[2], head[s])>>
    \o (IF s = t THEN <<>> ELSE
        <<[Record("ADJ_UPDATE", t[1], t[2], head[t]) EXCEPT !.stamp = (s[1] # t[1])]>>)

\* insert_edge between the nodes at two addresses.
InsertEdge(a, c) ==
    LET s == <<a[1], buf[a[1]].item[a[2]].slot>>
        t == <<c[1], buf[c[1]].item[c[2]].slot>>
        e == Len(buf[EdgePage].item) + 1
        old(h) == buf[h[1]].head[h[2]]
        i == [id |-> lastId + 1, src |-> s, tgt |-> t, nextOut |-> old(s).out,
              nextIn |-> old(t).in, xmax |-> 0, props |-> xid, lp |-> "normal"]
        head == [h \in {s, t} |-> [out |-> IF h = s THEN e ELSE old(h).out,
                                   in  |-> IF h = t THEN e ELSE old(h).in]]
    IN  /\ May("edge")
        /\ e <= Cap
        /\ lastId' = lastId + 1
        /\ Enter([p \in {s[1], t[1], EdgePage} |->
                    IF p = EdgePage THEN [buf[p] EXCEPT !.item = Append(@, i)]
                    ELSE [buf[p] EXCEPT !.head =
                            [k \in Slot |-> IF <<p, k>> \in {s, t} THEN head[<<p, k>>] ELSE @[k]]]],
                 EdgeRecords(e, i, s, t, head),
                 {Added(EdgePage, e, i), Linked(s, "out", e), Linked(t, "in", e)})
        /\ UNCHANGED moving

\* delete_edge.
DeleteEdge(off) ==
    /\ May("deledge")
    /\ buf[EdgePage].item[off].xmax = 0
    /\ Enter(On(EdgePage, [buf[EdgePage] EXCEPT !.item[off].xmax = xid]),
             <<Record("EDGE_DELETE", EdgePage, off, xid)>>, {Deleted(EdgePage, off)})
    /\ UNCHANGED <<moving, lastId>>

\* update_edge_props: no record, no LSN.
UpdateProps(off) ==
    /\ May("props") /\ Running /\ op = None
    /\ buf[EdgePage].item[off].xmax = 0
    /\ buf' = [buf EXCEPT ![EdgePage].item[off].props = xid]
    /\ dirty' = dirty \cup {EdgePage}
    /\ UNCHANGED <<disk, log, ckptVars, op, moving, xid, lastId, server, did>>

\* vacuum_relation and compact_node_page: the dead items of a page become
\* LP_DEAD, their headers are zeroed, the record is an image of the page.
VacuumPage(p) ==
    LET dead == {i \in Items(p) : LET x == buf[p].item[i].xmax
                                  IN  /\ buf[p].item[i].lp = "normal"
                                      /\ x # 0 /\ x < xid /\ Committed(x)}
        slots == {buf[p].item[i].slot : i \in dead}
    IN  /\ May("vacuum")
        /\ dead # {}
        /\ Enter(On(p, [buf[p] EXCEPT
                     !.item = [i \in Items(p) |-> IF i \in dead THEN [@[i] EXCEPT !.lp = "dead"] ELSE @[i]],
                     !.head = [k \in Slot |-> IF k \in slots THEN NoEdges ELSE @[k]]]),
                 <<[Record("NODE_COMPACT", p, 0, 0) EXCEPT !.force = TRUE]>>,
                 {[kind |-> "cleared", hdr |-> <<p, k>>] : k \in slots})
        /\ UNCHANGED <<moving, lastId>>

-----------------------------------------------------------------------------
(* PostgreSQL: commit, WAL and page writes, checkpoints, crash (external)   *)

Commit ==
    /\ Running /\ op = None /\ moving = None
    /\ xid < MaxXid /\ Len(wal) < MaxWal
    /\ wal' = Append(wal, CommitOf(xid))
    /\ xid' = xid + 1
    /\ UNCHANGED <<pages, flushed, ckptVars, op, moving, lastId, nops, server, did>>

\* A dirty buffer that nobody has locked is written, after the WAL up to its LSN.
WritePage(p) ==
    /\ crashes < MaxCrash
    /\ p \in dirty
    /\ op # None => p \notin DOMAIN op.lsn
    /\ disk' = [disk EXCEPT ![p] = buf[p]]
    /\ dirty' = dirty \ {p}
    /\ flushed' = Max({flushed, buf[p].lsn})
    /\ todo' = IF todo = None THEN None ELSE todo \ {p}
    /\ UNCHANGED <<buf, wal, redoPtr, ckpt, op, client, server, did>>

\* A checkpoint fixes its redo point and looks for dirty buffers, which takes no
\* content locks.
CheckpointBegin ==
    /\ Running /\ todo = None
    /\ CheckpointApart => op = None
    /\ redoPtr < Len(wal)
    /\ redoPtr' = Len(wal)
    /\ todo' = dirty
    /\ UNCHANGED <<pages, log, ckpt, op, client, server, did>>

CheckpointEnd ==
    /\ mode = "run" /\ todo = {}
    /\ todo' = None
    /\ ckpt' = redoPtr
    /\ flushed' = Max({flushed, redoPtr})
    /\ UNCHANGED <<pages, wal, redoPtr, op, client, server, did>>

\* Memory is lost.  The WAL survives up to some point n: what had to be flushed
\* for a page or a checkpoint, and however much more had been written.
Crash(n) ==
    /\ crashes < MaxCrash
    /\ n >= flushed
    /\ crashes' = crashes + 1
    /\ buf' = disk /\ dirty' = {}
    /\ wal' = SubSeq(wal, 1, n) /\ flushed' = n
    /\ mode' = "redo" /\ pos' = ckpt
    /\ redoPtr' = ckpt /\ todo' = None
    /\ op' = None /\ moving' = None
    /\ xid' = IF mode = "run" /\ xid < MaxXid THEN xid + 1 ELSE xid
    /\ UNCHANGED <<disk, ckpt, lastId, nops, fpw, did>>

-----------------------------------------------------------------------------
(* rmgr_redo                                                               *)

\* redo_node_insert, redo_edge_insert: PageAddItemExtended at the logged offset.
\* PAI_OVERWRITE lets it take an unused line pointer, never one in use, and there
\* may be no gap: otherwise it fails, and recovery with it.
RedoInsert(page, off, i) == [page EXCEPT !.item = Append(@, i)]
RedoFails(r, page) ==
    r.type \in {"NODE_INSERT", "EDGE_INSERT"} /\ r.off # Len(page.item) + 1

\* Mutant: redo of a delete leaves the item as it is.
RedoDeleteNothing(page, off, x) == page

\* redo_node_delete, redo_edge_delete: only LP_NORMAL items.  (A line pointer
\* past the last one reads as zeros, which is not LP_NORMAL.)
RedoDelete(page, off, x) ==
    IF off \in 1..Len(page.item) /\ page.item[off].lp = "normal"
    THEN [page EXCEPT !.item[off].xmax = x] ELSE page

\* redo_adj_update: the whole header is overwritten.
RedoAdjUpdate(page, slot, hdr) == [page EXCEPT !.head[slot] = hdr]

\* rmgr_redo; NODE_COMPACT always comes with an image.
RedoPage(r, page) ==
    CASE r.type \in {"NODE_INSERT", "EDGE_INSERT"} -> RedoInsert(page, r.off, r.data)
      [] r.type \in {"NODE_DELETE", "EDGE_DELETE"} -> RedoDelete(page, r.off, r.data)
      [] r.type = "ADJ_UPDATE" -> RedoAdjUpdate(page, r.off, r.data)
      [] OTHER -> page

\* XLogReadBufferForRedo (external): the record applies if the page is older.  A
\* page of zeros counts as missing: there is nothing to apply the record to, and
\* the branches that would initialise it are not reached.
NeedsRedo(n, page) == page.init /\ page.lsn < n

RedoNext ==
    LET n == pos + 1
        r == wal[n]
        fails == /\ r.type # "COMMIT" /\ r.img = None
                 /\ NeedsRedo(n, buf[r.blk]) /\ RedoFails(r, buf[r.blk])
        replay(p) ==
            CASE p = r.blk /\ r.img # None -> r.img
              [] p = OvfPage /\ r.ovf # None -> r.ovf
              [] p = r.blk /\ r.img = None /\ NeedsRedo(n, buf[p]) -> [RedoPage(r, buf[p]) EXCEPT !.lsn = n]
              [] OTHER -> buf[p]
    IN  /\ mode = "redo" /\ pos < Len(wal)
        /\ pos' = IF fails THEN pos ELSE n
        /\ mode' = IF fails THEN "failed" ELSE mode
        /\ IF r.type = "COMMIT" \/ fails THEN UNCHANGED <<buf, dirty>>
           ELSE /\ buf' = [p \in Blk |-> replay(p)]
                /\ dirty' = dirty \cup {p \in Blk : replay(p) # buf[p]}
        /\ UNCHANGED <<disk, log, ckptVars, op, client, crashes, fpw, did>>

\* The checkpoint at the end of recovery.
RedoEnd ==
    /\ mode = "redo" /\ pos = Len(wal)
    /\ mode' = "run"
    /\ disk' = buf /\ dirty' = {}
    /\ ckpt' = Len(wal) /\ redoPtr' = Len(wal)
    /\ UNCHANGED <<buf, log, todo, op, client, pos, crashes, fpw, did>>

-----------------------------------------------------------------------------

Write ==
    \/ \E p \in NodePage, big \in BOOLEAN : InsertNode(p, big)
    \/ \E a \in LiveNode : DeleteNode(a[1], a[2]) \/ UpdateNode(a[1], a[2]) \/ MoveNode(a[1], a[2])
    \/ \E p \in NodePage : MovePut(p) \/ VacuumPage(p)
    \/ \E a, c \in LiveNode : InsertEdge(a, c)
    \/ \E off \in Items(EdgePage) : DeleteEdge(off) \/ UpdateProps(off)

Next ==
    \/ Write \/ LogNext \/ OpEnd \/ Commit
    \/ \E p \in Blk : WritePage(p)
    \/ CheckpointBegin \/ CheckpointEnd
    \/ (\E n \in 0..Len(wal) : Crash(n)) \/ RedoNext \/ RedoEnd

Spec == Init /\ [][Next]_vars

-----------------------------------------------------------------------------
(* Properties.  They speak of the buffers whenever the server runs and no   *)
(* critical section is in progress: before a crash, and after recovery.     *)

Quiet == mode = "run" /\ op = None

PageOK(p, page) == page \in Page(p) /\ Len(page.item) <= Cap

\* Every variable has its type, and no page is newer than the WAL that can
\* rebuild it: in memory the WAL that was inserted, on disk the WAL that was
\* flushed.
TypeOK ==
    /\ \A p \in Blk : PageOK(p, buf[p]) /\ PageOK(p, disk[p])
    /\ \A p \in Blk : disk[p].lsn <= flushed /\ buf[p].lsn <= Len(wal)
    /\ dirty \subseteq Blk /\ (todo # None => todo \subseteq dirty)
    /\ flushed \in 0..Len(wal) /\ Len(wal) <= MaxWal
    /\ ckpt <= redoPtr /\ redoPtr <= Len(wal)
    /\ xid \in Xid /\ fpw \in BOOLEAN /\ mode \in {"run", "redo", "failed"} /\ pos \in Lsn /\ crashes \in 0..MaxCrash

\* Recovery always gets to the end: no record adds an item where the page already
\* has one, or leaves a gap.  That is up to the LSNs the critical sections leave
\* on their pages.
RedoSucceeds == mode # "failed"

\* Items survive: what a committed transaction inserted is at its address, what
\* it deleted is deleted, and nothing is deleted that nobody deleted.
ItemsDurable ==
    Quiet =>
        /\ \A f \in did : f.kind \in {"add", "del"} /\ Committed(f.xid) =>
            /\ f.off \in Items(f.blk)
            /\ f.kind = "add" => buf[f.blk].item[f.off].id = f.item.id
            /\ f.kind = "del" => buf[f.blk].item[f.off].xmax # 0
        /\ \A p \in Blk \ {OvfPage} : \A i \in Items(p) : buf[p].item[i].xmax # 0 =>
            \E f \in did : f.kind = "del" /\ f.blk = p /\ f.off = i

\* The edge items met from a header in one direction, as follow_chain walks.
Chain(h, dir) ==
    LET next(e) == IF dir = "out" THEN buf[EdgePage].item[e].nextOut ELSE buf[EdgePage].item[e].nextIn
        start == IF dir = "out" THEN buf[h[1]].head[h[2]].out ELSE buf[h[1]].head[h[2]].in
        met[k \in 0..Cap] == IF k = 0 THEN {start}
                             ELSE met[k - 1] \cup {next(e) : e \in met[k - 1] \cap Items(EdgePage)}
    IN  met[Cap]

\* No chain leads to a slot without an edge item, committed or not: insert_edge
\* logs the edge before the headers that point to it.
NoDangling ==
    Quiet => \A h \in HdrAddr, dir \in {"out", "in"} : Chain(h, dir) \subseteq Items(EdgePage) \cup {0}

\* The edges of committed transactions are on both their chains, unless VACUUM
\* has cleared the header.
ChainsDurable ==
    Quiet =>
        \A f \in did : f.kind = "link" /\ Committed(f.xid) =>
            \/ f.off \in Chain(f.hdr, f.dir)
            \/ \E g \in did : g.kind = "cleared" /\ g.hdr = f.hdr

\* The properties of a committed node with an overflow block are there.
OverflowDurable ==
    Quiet =>
        \A p \in NodePage : \A i \in Items(p) :
            buf[p].item[i].big => buf[OvfPage].item = <<buf[p].item[i].id>>

\* The adjacency header a committed node refers to is the one it was given.
SlotsDurable ==
    Quiet =>
        \A f \in did : f.kind = "add" /\ f.blk \in NodePage /\ Committed(f.xid) =>
            buf[f.blk].item[f.off].slot = f.item.slot
=============================================================================
