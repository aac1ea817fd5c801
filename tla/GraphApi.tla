------------------------------ MODULE GraphApi ------------------------------
(***************************************************************************)
(* The SQL functions that change the graph (src/pg_eddy/src/lib.rs), each  *)
(* a sequence of steps of one backend: the mutation of the custom storage  *)
(* (storage/mutation.rs), the upsert or delete of the mirror tables        *)
(* (ivm/mirror.rs), the CDC message (storage/cdc_message.rs), and the rows *)
(* of label_index, edge_type_src and edge_type_dst.                        *)
(*                                                                         *)
(* The storage is not transactional in the way the tables are: a delete    *)
(* and the overwriting of an edge's properties show at once and stay when  *)
(* the transaction rolls back (modules NodeStore and EdgeStore have the    *)
(* details).  The mirror, the index tables and the messages are            *)
(* PostgreSQL's: uncommitted rows are private, a written mirror row is     *)
(* locked until its writer ends, and messages of a transaction that aborts *)
(* are dropped.                                                            *)
(*                                                                         *)
(* An element is <<"n", node id>> or <<"e", edge id>>; its image is what   *)
(* mirror row and message say of it.                                       *)
(***************************************************************************)
EXTENDS Integers, Sequences, FiniteSets, SequencesExt, Functions

CONSTANTS Backends,   \* sessions
          Labels,     \* label names
          Values,     \* property values
          Kinds,      \* the functions the sessions call
          IdBatch,    \* ID_BATCH_SIZE
          MaxNode, MaxEdge, MaxOps, MaxResets   \* bounds

ASSUME GraphApiAssumption ==
    /\ {IdBatch, MaxNode, MaxEdge, MaxOps} \subseteq Nat \ {0}
    /\ MaxResets \in Nat

VARIABLES
    nv,        \* node versions in the order of the relation
    ev,        \* edge items in the order of the relation
    mirror,    \* committed rows of ivm_nodes and ivm_edges: element -> image
    pend,      \* pend[b]: mirror rows b's transaction wrote: element -> image or Gone
    db, added, removed,  \* rows of the index tables: committed, b's inserts and deletes
    msgs,      \* msgs[b]: messages b's transaction logged
    wal,       \* transactions in commit order: their xids and messages
    xid,       \* xid[b]: b's transaction, 0 for none
    committed, \* committed transactions
    op,        \* op[b]: the call b is in
    nodeSeq, edgeSeq, reservoir, nextXid,
    calls, resets,   \* calls started, calls of clear()
    lastw,     \* history: element -> transaction that wrote it last
    raced,     \* history: elements written by two overlapping calls, or changed
               \* by a transaction that aborted
    remade     \* history: elements that were raced at a rebuild of the mirror

store  == <<nv, ev>>
tables == <<mirror, pend, db, added, removed, msgs>>
seqs   == <<nodeSeq, edgeSeq, reservoir>>
history == <<lastw, raced, remade>>
vars   == <<store, tables, wal, xid, committed, op, seqs, nextXid, calls, resets, history>>

Idle == [k |-> "idle"]
None == [kind |-> "none"]
Gone == [kind |-> "gone"]

NodeRow(n, ls, v) == [kind |-> "node", id |-> n, labels |-> ls, v |-> v]
EdgeRow(e, s, t, v) == [kind |-> "edge", id |-> e, s |-> s, t |-> t, v |-> v]
Node(n) == <<"n", n>>
Edge(e) == <<"e", e>>

Empty == [x \in {} |-> None]

\* f, with the entries of g for what f does not have; g with an entry written.
Over(f, g) == [x \in DOMAIN f \union DOMAIN g |-> IF x \in DOMAIN f THEN f[x] ELSE g[x]]
Put(g, x, y) == Over([z \in {x} |-> y], g)

\* Two nodes and an edge, created and committed by a session that has ended:
\* the rest of its batch of edge ids is lost.
Init ==
    \E l \in Labels, v \in Values :
      LET n1 == NodeRow(1, {l}, v) n2 == NodeRow(2, {}, v) e1 == EdgeRow(1, 1, 2, v)
      IN /\ nv = <<[row |-> n1, xmin |-> 1, dead |-> FALSE], [row |-> n2, xmin |-> 1, dead |-> FALSE]>>
         /\ ev = <<[row |-> e1, xmin |-> 1, dead |-> FALSE]>>
         /\ mirror = (Node(1) :> n1 @@ Node(2) :> n2 @@ Edge(1) :> e1)
         /\ pend = [b \in Backends |-> Empty]
         /\ db = {<<"label", l, 1>>, <<"src", 1, 1>>, <<"dst", 2, 1>>}
         /\ added = [b \in Backends |-> {}] /\ removed = [b \in Backends |-> {}]
         /\ msgs = [b \in Backends |-> <<>>]
         /\ wal = <<[xid |-> 1, msgs |-> <<[k |-> "insert", new |-> n1],
                                           [k |-> "insert", new |-> n2],
                                           [k |-> "insert", new |-> e1]>>]>>
         /\ xid = [b \in Backends |-> 0] /\ committed = {1} /\ nextXid = 2
         /\ op = [b \in Backends |-> Idle]
         /\ nodeSeq = 2 /\ edgeSeq = IdBatch /\ reservoir = [b \in Backends |-> <<>>]
         /\ calls = 0 /\ resets = 0
         /\ lastw = (Node(1) :> 1 @@ Node(2) :> 1 @@ Edge(1) :> 1) /\ raced = {} /\ remade = {}

-----------------------------------------------------------------------------
(* Storage.                                                                *)

Own(b, item) == item.xmin = xid[b]

\* read_node_at_offset: committed before the statement's snapshot.
NodeSeen(b, item) == ~item.dead /\ (Own(b, item) \/ item.xmin \in op[b].snap)

\* read_edge_at_offset: committed, whatever the snapshot.
EdgeSeenNoXmin(b, item) == ~item.dead

EdgeSeen(b, item) == ~item.dead /\ (Own(b, item) \/ item.xmin \in committed)

FirstIn(items, Test(_)) ==
    LET hits == {i \in DOMAIN items : Test(items[i])}
    IN IF hits = {} THEN 0 ELSE CHOOSE i \in hits : \A j \in hits : i <= j

\* load_node_record, load_edge_record.
OldNode(b, n) ==
    LET i == FirstIn(nv, LAMBDA it : it.row.id = n /\ NodeSeen(b, it))
    IN IF i = 0 THEN None ELSE nv[i].row

OldEdge(b, e) ==
    LET i == FirstIn(ev, LAMBDA it : it.row.id = e /\ EdgeSeen(b, it))
    IN IF i = 0 THEN None ELSE ev[i].row

\* find_node_location and the item test of delete_edge ask only for no xmax.
LiveNode(n) == FirstIn(nv, LAMBDA it : it.row.id = n /\ ~it.dead)
LiveEdge(e) == FirstIn(ev, LAMBDA it : it.row.id = e /\ ~it.dead)

\* follow_chain asks for no more.
Attached(n) ==
    IF LiveNode(n) = 0 THEN {}
    ELSE {ev[i].row.id : i \in {j \in DOMAIN ev : ~ev[j].dead /\ n \in {ev[j].row.s, ev[j].row.t}}}

\* Bookkeeping of a write to a stored element.
Wrote(b, el) ==
    /\ lastw' = Put(lastw, el, xid[b])
    /\ raced' = IF el \in DOMAIN lastw /\ lastw[el] \notin op[b].snap \union {xid[b]}
                THEN raced \union {el} ELSE raced
    /\ UNCHANGED remade

-----------------------------------------------------------------------------
(* Transactions and calls.                                                 *)

Go(b, o) == op' = [op EXCEPT ![b] = o]

StartAs(b, o) ==
    /\ op[b] = Idle /\ o.k \in Kinds /\ calls < MaxOps
    /\ calls' = calls + 1
    /\ IF xid[b] # 0 THEN UNCHANGED <<xid, nextXid>>
       ELSE xid' = [xid EXCEPT ![b] = nextXid] /\ nextXid' = nextXid + 1
    /\ Go(b, Over([snap |-> committed, old |-> None], o))
    /\ UNCHANGED <<store, tables, wal, committed, seqs, resets, history>>

EndTxn(b) ==
    /\ pend' = [pend EXCEPT ![b] = Empty]
    /\ added' = [added EXCEPT ![b] = {}] /\ removed' = [removed EXCEPT ![b] = {}]
    /\ msgs' = [msgs EXCEPT ![b] = <<>>]
    /\ xid' = [xid EXCEPT ![b] = 0]
    /\ Go(b, Idle)

Merged(rows, writes) ==
    LET all == Over(writes, rows) IN Restrict(all, {el \in DOMAIN all : all[el] # Gone})

Commit(b) ==
    /\ xid[b] # 0 /\ op[b] = Idle
    /\ mirror' = Merged(mirror, pend[b])
    /\ db' = (db \ removed[b]) \union added[b]
    /\ wal' = Append(wal, [xid |-> xid[b], msgs |-> msgs[b]])
    /\ committed' = committed \union {xid[b]}
    /\ EndTxn(b)
    /\ UNCHANGED <<store, seqs, nextXid, calls, resets, history>>

\* ROLLBACK, or an error of the call.
Inserted(b) == {Node(it.row.id) : it \in {nv[i] : i \in {j \in DOMAIN nv : Own(b, nv[j])}}}
               \union {Edge(it.row.id) : it \in {ev[i] : i \in {j \in DOMAIN ev : Own(b, ev[j])}}}

Abort(b) ==
    /\ xid[b] # 0
    /\ EndTxn(b)
    /\ raced' = raced \union {el \in DOMAIN lastw :
                                lastw[el] = xid[b] /\ (el \in DOMAIN mirror \/ el \notin Inserted(b))}
    /\ UNCHANGED <<store, mirror, db, wal, committed, seqs, nextXid, calls, resets, lastw, remade>>

\* The call returns without having changed anything (false: not found).
Return(b) ==
    /\ Go(b, Idle)
    /\ UNCHANGED <<store, tables, wal, xid, committed, seqs, nextXid, calls, resets, history>>

At(b, pc, kinds) == op[b] # Idle /\ op[b].pc = pc /\ op[b].k \in kinds

quiet == <<wal, xid, committed, nextXid, calls, resets>>

NodeWrites == {"update_node", "add_label", "remove_label"}
NodeDeletes == {"delete_node", "detach_delete"}

-----------------------------------------------------------------------------
(* The calls.                                                              *)

Start(b) ==
    \/ \E ls \in SUBSET Labels, v \in Values :
         /\ nodeSeq < MaxNode
         /\ StartAs(b, [k |-> "create_node", pc |-> "store", n |-> 0, ls |-> ls, v |-> v])
    \/ \E n \in 1..nodeSeq, ls \in SUBSET Labels, v \in Values :
         StartAs(b, [k |-> "update_node", pc |-> "load", n |-> n, ls |-> ls, v |-> v])
    \/ \E n \in 1..nodeSeq, l \in Labels, k \in {"add_label", "remove_label"} :
         StartAs(b, [k |-> k, pc |-> "find", n |-> n, l |-> l, ls |-> {}, v |-> None])
    \/ \E n \in 1..nodeSeq : StartAs(b, [k |-> "delete_node", pc |-> "load", n |-> n])
    \/ \E n \in 1..nodeSeq :
         StartAs(b, [k |-> "detach_delete", pc |-> "follow", n |-> n, e |-> 0, todo |-> {}, found |-> {}])
    \/ \E s, t \in 1..nodeSeq, v \in Values :
         StartAs(b, [k |-> "create_edge", pc |-> "id", e |-> 0, s |-> s, t |-> t, v |-> v])
    \/ \E e \in 1..MaxEdge : StartAs(b, [k |-> "delete_edge", pc |-> "load", e |-> e])
    \/ \E e \in 1..MaxEdge, v \in Values :
         StartAs(b, [k |-> "set_edge", pc |-> "load", e |-> e, v |-> v])

\* add_label, remove_label: the node's labels and properties, found first.
FindNode(b) ==
    /\ At(b, "find", {"add_label", "remove_label"})
    /\ LET o == op[b] r == OldNode(b, o.n)
       IN IF r = None \/ (o.l \in r.labels) = (o.k = "add_label")
          THEN Go(b, Idle)
          ELSE Go(b, [o EXCEPT !.pc = "load", !.v = r.v,
                               !.ls = IF o.k = "add_label" THEN r.labels \union {o.l}
                                                           ELSE r.labels \ {o.l}])
    /\ UNCHANGED <<store, tables, quiet, seqs, history>>

\* mutation.rs captures the old image before it changes the storage.
Load(b) ==
    /\ At(b, "load", Kinds)
    /\ LET o == op[b]
       IN Go(b, [o EXCEPT !.pc = "store",
                          !.old = IF o.k \in NodeWrites \union {"delete_node"}
                                     \/ (o.k = "detach_delete" /\ o.e = 0)
                                  THEN OldNode(b, o.n) ELSE OldEdge(b, o.e)])
    /\ UNCHANGED <<store, tables, quiet, seqs, history>>

\* The id from the sequence; node_store::insert_node.
StoreNewNode(b) ==
    /\ At(b, "store", {"create_node"}) /\ nodeSeq < MaxNode
    /\ LET o == op[b] n == nodeSeq + 1
       IN /\ nv' = Append(nv, [row |-> NodeRow(n, o.ls, o.v), xmin |-> xid[b], dead |-> FALSE])
          /\ nodeSeq' = n
          /\ Wrote(b, Node(n))
          /\ Go(b, [o EXCEPT !.pc = "mirror", !.n = n])
    /\ UNCHANGED <<ev, tables, quiet, edgeSeq, reservoir>>

\* node_store::update_node: kills the version without xmax, adds another.
StoreNode(b) ==
    /\ At(b, "store", NodeWrites)
    /\ LET o == op[b] i == LiveNode(o.n)
       IN IF i = 0 THEN Go(b, Idle) /\ UNCHANGED <<nv, history>>
          ELSE /\ nv' = Append([nv EXCEPT ![i].dead = TRUE],
                               [row |-> NodeRow(o.n, o.ls, o.v), xmin |-> xid[b], dead |-> FALSE])
               /\ Wrote(b, Node(o.n))
               /\ Go(b, [o EXCEPT !.pc = "mirror"])
    /\ UNCHANGED <<ev, tables, quiet, seqs>>

StoreDeadNode(b) ==
    /\ At(b, "store", NodeDeletes) /\ (op[b].k = "detach_delete" => op[b].e = 0)
    /\ LET o == op[b] i == LiveNode(o.n)
       IN IF i = 0 THEN Go(b, Idle) /\ UNCHANGED <<nv, history>>
          ELSE /\ nv' = [nv EXCEPT ![i].dead = TRUE]
               /\ Wrote(b, Node(o.n))
               /\ Go(b, [o EXCEPT !.pc = "mirror"])
    /\ UNCHANGED <<ev, tables, quiet, seqs>>

\* next_edge_id hands out the reservoir's ids, and refills it from the sequence.
Batch(from) == [i \in 1..IdBatch |-> from + i]

RefillPeek(b) == UNCHANGED edgeSeq

Refill(b) == edgeSeq' = IF reservoir[b] # <<>> THEN edgeSeq ELSE edgeSeq + IdBatch

NextEdgeId(b) ==
    /\ At(b, "id", {"create_edge"})
    /\ LET r == IF reservoir[b] # <<>> THEN reservoir[b] ELSE Batch(edgeSeq)
       IN /\ Head(r) <= MaxEdge
          /\ Refill(b)
          /\ reservoir' = [reservoir EXCEPT ![b] = Tail(r)]
          /\ Go(b, [op[b] EXCEPT !.pc = "store", !.e = Head(r)])
    /\ UNCHANGED <<store, tables, quiet, nodeSeq, history>>

\* edge_store::insert_edge fails if an end point is not there.
StoreNewEdge(b) ==
    /\ At(b, "store", {"create_edge"})
    /\ LiveNode(op[b].s) # 0 /\ LiveNode(op[b].t) # 0
    /\ LET o == op[b]
       IN /\ ev' = Append(ev, [row |-> EdgeRow(o.e, o.s, o.t, o.v), xmin |-> xid[b], dead |-> FALSE])
          /\ Wrote(b, Edge(o.e))
          /\ Go(b, [o EXCEPT !.pc = "mirror"])
    /\ UNCHANGED <<nv, tables, quiet, seqs>>

\* edge_store::update_edge_props, in place; a missing old image is an error.
StoreEdge(b) ==
    /\ At(b, "store", {"set_edge"})
    /\ LET o == op[b]
           i == FirstIn(ev, LAMBDA it : it.row.id = o.e /\ EdgeSeen(b, it))
       IN IF i = 0 THEN Go(b, Idle) /\ UNCHANGED <<ev, history>>
          ELSE /\ ev' = [ev EXCEPT ![i].row.v = o.v]
               /\ Wrote(b, Edge(o.e))
               /\ Go(b, [o EXCEPT !.pc = IF o.old = None THEN "fail" ELSE "mirror"])
    /\ UNCHANGED <<nv, tables, quiet, seqs>>

\* edge_store::delete_edge, also for each edge of detach_delete_node, which
\* goes on to the next one when there is nothing to delete.
NextEdge(o) ==
    IF o.k = "delete_edge" THEN Idle
    ELSE IF o.todo = {} THEN [o EXCEPT !.pc = "unindex", !.e = 0]
    ELSE LET e == CHOOSE i \in o.todo : TRUE
         IN [o EXCEPT !.pc = "load", !.e = e, !.todo = @ \ {e}]

StoreDeadEdge(b) ==
    /\ At(b, "store", {"delete_edge", "detach_delete"}) /\ op[b].e # 0
    /\ LET o == op[b] i == LiveEdge(o.e)
       IN IF i = 0 THEN Go(b, NextEdge(o)) /\ UNCHANGED <<ev, history>>
          ELSE /\ ev' = [ev EXCEPT ![i].dead = TRUE]
               /\ Wrote(b, Edge(o.e))
               /\ Go(b, [o EXCEPT !.pc = "mirror"])
    /\ UNCHANGED <<nv, tables, quiet, seqs>>

\* detach_delete_node: the edges of both chains, each once.
Follow(b) ==
    /\ At(b, "follow", {"detach_delete"})
    /\ LET o == op[b] es == Attached(o.n)
       IN Go(b, NextEdge([o EXCEPT !.todo = es, !.found = es]))
    /\ UNCHANGED <<store, tables, quiet, seqs, history>>

-----------------------------------------------------------------------------
(* Mirror rows: a write waits for another transaction's write of the row.  *)

Free(b, el) == \A c \in Backends \ {b} : el \notin DOMAIN pend[c]

InMirror(b, el) == LET all == Merged(mirror, pend[b]) IN el \in DOMAIN all

Element(o) == IF o.k \in NodeWrites \union {"create_node", "delete_node"}
                 \/ (o.k = "detach_delete" /\ o.e = 0) THEN Node(o.n) ELSE Edge(o.e)

\* The row the call leaves of its element: EXCLUDED, or deleted.
NewRow(o) ==
    CASE o.k \in NodeWrites \union {"create_node"} -> NodeRow(o.n, o.ls, o.v)
      [] o.k = "create_edge" -> EdgeRow(o.e, o.s, o.t, o.v)
      [] o.k = "set_edge" -> [o.old EXCEPT !.v = o.v]
      [] OTHER -> Gone

\* A DELETE of a row it does not see does nothing.
MirrorWrite(b) ==
    /\ At(b, "mirror", Kinds)
    /\ LET o == op[b] el == Element(o) row == NewRow(o)
       IN /\ IF row = Gone /\ ~InMirror(b, el) THEN UNCHANGED pend
             ELSE Free(b, el) /\ pend' = [pend EXCEPT ![b] = Put(@, el, row)]
          /\ Go(b, [o EXCEPT !.pc = IF o.old = None /\ o.k \notin {"create_node", "create_edge"}
                                    THEN "fail" ELSE "emit"])
    /\ UNCHANGED <<store, mirror, db, added, removed, msgs, quiet, seqs, history>>

\* "disappeared before CDC ... capture"; insert_edge: node not found.
Fail(b) ==
    /\ \/ At(b, "fail", Kinds)
       \/ At(b, "store", {"create_edge"}) /\ 0 \in {LiveNode(op[b].s), LiveNode(op[b].t)}
    /\ Abort(b)

MessageOldAfter(o) ==
    CASE o.k \in {"create_node", "create_edge"} -> [k |-> "insert", new |-> NewRow(o)]
      [] NewRow(o) = Gone -> [k |-> "delete", old |-> o.old]
      [] OTHER -> [k |-> "update", old |-> NewRow(o), new |-> NewRow(o)]

Message(o) ==
    CASE o.k \in {"create_node", "create_edge"} -> [k |-> "insert", new |-> NewRow(o)]
      [] NewRow(o) = Gone -> [k |-> "delete", old |-> o.old]
      [] OTHER -> [k |-> "update", old |-> o.old, new |-> NewRow(o)]

\* Rows of the index tables.
Rows(b) == (db \ removed[b]) \union added[b]

Change(b, out, in) ==
    /\ added' = [added EXCEPT ![b] = (@ \ out) \union in]
    /\ removed' = [removed EXCEPT ![b] = @ \union (out \intersect db)]

LabelRowsCommitted(b, n) == {r \in db : r[1] = "label" /\ r[3] = n}

LabelRows(b, n) == {r \in Rows(b) : r[1] = "label" /\ r[3] = n}

EdgeRows(b, es) == {r \in Rows(b) : r[1] \in {"src", "dst"} /\ r[3] \in es}

IndexChange(b, o) ==
    CASE o.k = "create_node"  -> Change(b, {}, {<<"label", l, o.n>> : l \in o.ls})
      [] o.k = "update_node"  -> Change(b, LabelRows(b, o.n), {<<"label", l, o.n>> : l \in o.ls})
      [] o.k = "add_label"    -> Change(b, {}, {<<"label", o.l, o.n>>})
      [] o.k = "remove_label" -> Change(b, {<<"label", o.l, o.n>>}, {})
      [] o.k = "delete_node" \/ (o.k = "detach_delete" /\ o.e = 0) -> Change(b, LabelRows(b, o.n), {})
      [] o.k = "create_edge"  -> Change(b, {}, {<<"src", o.s, o.e>>, <<"dst", o.t, o.e>>})
      [] o.k = "delete_edge"  -> Change(b, EdgeRows(b, {o.e}), {})
      [] OTHER                -> Change(b, {}, {})

\* The message, then the index rows: the end of a call, or of an edge of
\* detach_delete_node.
Emit(b) ==
    /\ At(b, "emit", Kinds)
    /\ LET o == op[b]
       IN /\ msgs' = [msgs EXCEPT ![b] = Append(@, Message(o))]
          /\ IndexChange(b, o)
          /\ Go(b, IF o.k = "detach_delete" /\ o.e # 0 THEN NextEdge(o) ELSE Idle)
    /\ UNCHANGED <<store, mirror, pend, db, quiet, seqs, history>>

\* detach_delete_node removes the edges' index rows in one go.
Unindex(b) ==
    /\ At(b, "unindex", {"detach_delete"})
    /\ Change(b, EdgeRows(b, op[b].found), {})
    /\ Go(b, [op[b] EXCEPT !.pc = "load"])
    /\ UNCHANGED <<store, mirror, pend, db, msgs, quiet, seqs, history>>

-----------------------------------------------------------------------------
(* clear(), which "must not be called concurrently".                       *)
Clear(b) ==
    /\ "clear" \in Kinds /\ resets < MaxResets /\ \A c \in Backends : xid[c] = 0
    /\ resets' = resets + 1
    /\ nv' = <<>> /\ ev' = <<>> /\ mirror' = Empty /\ db' = {}
    /\ nodeSeq' = 0 /\ edgeSeq' = 0
    /\ wal' = Append(wal, [xid |-> nextXid, msgs |-> <<[k |-> "reset"]>>])
    /\ committed' = committed \union {nextXid} /\ nextXid' = nextXid + 1
    /\ lastw' = Empty /\ raced' = {} /\ remade' = {}
    /\ UNCHANGED <<pend, added, removed, msgs, xid, op, reservoir, calls>>

RowElement(row) == IF row.kind = "node" THEN Node(row.id) ELSE Edge(row.id)

\* find_nodes by label, get_node and the sequential scan; find_edges through
\* edge_type_src and edge_type_dst, and expand along the chains.
NodeImages(mine) == {it.row : it \in {nv[i] : i \in {j \in DOMAIN nv :
                                 ~nv[j].dead /\ nv[j].xmin \in committed \union mine}}}
EdgeImages(mine) == {it.row : it \in {ev[i] : i \in {j \in DOMAIN ev :
                                 ~ev[j].dead /\ ev[j].xmin \in committed \union mine}}}
Images(mine) == NodeImages(mine) \union EdgeImages(mine)

\* rebuild_ivm_sources: TRUNCATE waits until nobody else writes the mirror.
\* Here it runs while no other transaction is open.
Rebuild(b) ==
    /\ "rebuild" \in Kinds /\ calls < MaxOps /\ \A c \in Backends : xid[c] = 0
    /\ calls' = calls + 1
    /\ remade' = remade \union raced
    /\ LET rows == Images({})
       IN mirror' = [x \in {RowElement(r) : r \in rows} |-> CHOOSE r \in rows : RowElement(r) = x]
    /\ UNCHANGED <<store, pend, db, added, removed, msgs, wal, xid, committed, op, seqs, nextXid, resets, lastw, raced>>

Next ==
    \E b \in Backends :
      \/ Commit(b) \/ Abort(b) \/ Fail(b) \/ Start(b)
      \/ FindNode(b) \/ Load(b) \/ Follow(b)
      \/ StoreNewNode(b) \/ StoreNode(b) \/ StoreDeadNode(b)
      \/ NextEdgeId(b) \/ StoreNewEdge(b) \/ StoreEdge(b) \/ StoreDeadEdge(b)
      \/ MirrorWrite(b) \/ Emit(b) \/ Unindex(b)
      \/ Clear(b) \/ Rebuild(b)

Spec == Init /\ [][Next]_vars

-----------------------------------------------------------------------------
(* Logical decoding (storage/wal_decode.rs): the callbacks for one          *)
(* transaction, then the frames of the whole log, and a consumer of them.  *)

BeginCb == [begun |-> FALSE, out |-> <<>>]

MessageCb(d, m, x) ==
    [begun |-> TRUE,
     out |-> (IF d.begun THEN d.out ELSE Append(d.out, [f |-> "begin", xid |-> x]))
             \o <<[f |-> "mutation", m |-> m]>>]

CommitCbAlways(d, x) == Append(d.out, [f |-> "commit", xid |-> x])

CommitCb(d, x) == IF d.begun THEN Append(d.out, [f |-> "commit", xid |-> x]) ELSE d.out

Decode(txn) ==
    CommitCb(FoldLeft(LAMBDA d, m : MessageCb(d, m, txn.xid), BeginCb, txn.msgs), txn.xid)

Frames == FlattenSeq([i \in DOMAIN wal |-> Decode(wal[i])])

\* Applies one mutation; "odd" collects elements whose old image was another.
Apply(r, m) ==
    LET el == RowElement(IF m.k = "delete" THEN m.old ELSE m.new)
        odd == IF m.k \in {"update", "delete"} /\ (el \in DOMAIN r.rows => r.rows[el] # m.old)
               THEN {el} ELSE {}
    IN CASE m.k = "reset"  -> [rows |-> Empty, odd |-> {}]
         [] m.k = "delete" -> [rows |-> Restrict(r.rows, DOMAIN r.rows \ {el}), odd |-> r.odd \union odd]
         [] OTHER          -> [rows |-> Put(r.rows, el, m.new), odd |-> r.odd \union odd]

\* A consumer applies the mutations of a transaction at its commit frame.
Consume(c, f) ==
    CASE f.f = "begin"    -> [c EXCEPT !.buf = <<>>]
      [] f.f = "mutation" -> [c EXCEPT !.buf = Append(@, f.m)]
      [] OTHER            -> [c EXCEPT !.state = FoldLeft(Apply, @, c.buf), !.buf = <<>>]

Replica == FoldLeft(Consume, [buf |-> <<>>, state |-> [rows |-> Empty, odd |-> {}]], Frames).state

-----------------------------------------------------------------------------
(* What readers see.                                                       *)

IndexRows(images) ==
    UNION {IF r.kind = "node" THEN {<<"label", l, r.id>> : l \in r.labels}
           ELSE {<<"src", r.s, r.id>>, <<"dst", r.t, r.id>>} : r \in images}

RowOf(row) == IF row[1] = "label" THEN Node(row[3]) ELSE Edge(row[3])

ImagesOf(rows) == {rows[el] : el \in DOMAIN rows}

\* Store, mirror and index tables, as seen by a new statement whose own
\* transaction is in mine, are one graph outside the elements in "but".
OneGraph(images, rows, index, but) ==
    /\ {r \in images : RowElement(r) \notin but} = {r \in ImagesOf(rows) : RowElement(r) \notin but}
    /\ {r \in IndexRows(images) : RowOf(r) \notin but} = {r \in index : RowOf(r) \notin but}

\* Elements that a transaction other than b's is changing.
Busy(b) == {el \in DOMAIN lastw : \E c \in Backends \ {b} : xid[c] # 0 /\ lastw[el] = xid[c]}

-----------------------------------------------------------------------------
(* Properties.                                                             *)

EdgeIds == {ev[i].row.id : i \in DOMAIN ev}

\* Two edges never have the same id, whichever sessions created them and
\* however their transactions ended, as long as clear() has not restarted the
\* sequence below the ids that reservoirs still hold.
EdgeIdsUnique ==
    resets = 0 => \A i, j \in DOMAIN ev : ev[i].row.id = ev[j].row.id => i = j

\* A call begins with storage, mirror and index tables in agreement on every
\* element, its own transaction's changes included, except elements that
\* overlapping calls or an aborted transaction have written.
StoresAgree ==
    \A b \in Backends : op[b] = Idle =>
        OneGraph(Images({xid[b]} \ {0}), Merged(mirror, pend[b]), Rows(b), raced \union Busy(b))

\* The frames of the log are whole transactions, none empty: begin, at least
\* one mutation, commit.
FramesWellFormed ==
    LET fs == Frames
        kind(i) == IF i \in DOMAIN fs THEN fs[i].f ELSE "none"
    IN \A i \in DOMAIN fs :
         CASE kind(i) = "begin"  -> kind(i-1) \in {"none", "commit"} /\ kind(i+1) = "mutation"
           [] kind(i) = "commit" -> kind(i-1) = "mutation"
           [] OTHER              -> kind(i-1) \in {"begin", "mutation"} /\ kind(i+1) \in {"mutation", "commit"}

\* Whoever replays the stream gets the rows of the mirror, after every commit
\* and whatever calls raced: no call writes a mirror row, or fails to, on
\* another condition than its message.  A rebuild takes what the store has,
\* and so parts from the stream on the elements that were raced before it.
ReplicaIsMirror ==
    LET rows == Replica.rows
        but(f) == Restrict(f, DOMAIN f \ remade)
    IN but(rows) = but(mirror)

\* Old images in the stream are what the consumer has, except for raced ones.
OldImagesExact == Replica.odd \subseteq raced

=============================================================================
