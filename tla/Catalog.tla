------------------------------ MODULE Catalog ------------------------------
(***************************************************************************)
(* The catalog: the registries of label and property-key names, the        *)
(* property index and the UNIQUE constraint, and the backends' caches of   *)
(* them (src/pg_eddy/src/catalog/).                                        *)
(*                                                                         *)
(* Backends run transactions of statements: CREATE of nodes (through       *)
(* cypher(), which clears the caches first, or through the SQL function    *)
(* create_node, which does not), creation and removal of an index or a     *)
(* constraint.  Every SPI query of a statement is one step.                *)
(*                                                                         *)
(* The catalog tables and the node store hold rows.  A row is a tuple      *)
(* whose first element names the table:                                    *)
(*   <<"name", n, id>>        label_registry, property_key_registry        *)
(*   <<"index", l>>           prop_index_catalog, for the one property Key *)
(*   <<"unique", l>>          constraint_catalog, the same                 *)
(*   <<"value", id, v, n>>    prop_value_index: node n, label id, value v  *)
(*   <<"label", id, n>>       label_index                                  *)
(*   <<"node", n, id, v>>     the node store: label id, value of Key       *)
(* Transactions are READ COMMITTED: each SPI query sees the committed rows *)
(* and those of its own transaction.  The node store, though, is read with *)
(* the snapshot of the whole statement, taken when it started.             *)
(***************************************************************************)
EXTENDS Integers, Sequences, FiniteSets

CONSTANTS Backends,   \* sessions
          Labels,     \* label names
          Key,        \* the property key
          Values,     \* values of the property
          NoVal,      \* a node without the property (or with null)
          Apis,       \* subset of {"cypher", "sql"}: how statements arrive
          MaxNode, MaxName, MaxStmt   \* bounds

ASSUME CatalogAssumption ==
    /\ Key \notin Labels /\ NoVal \notin Values
    /\ Apis \subseteq {"cypher", "sql"}
    /\ {MaxNode, MaxName, MaxStmt} \subseteq Nat \ {0}

Names == Labels \union {Key}

VARIABLES
    db,        \* committed rows
    added,     \* added[b]: rows b's transaction inserted
    removed,   \* removed[b]: committed rows b's transaction deleted
    locks,     \* <<row key, b>>: row locks, held until b's transaction ends
    open,      \* open[b]: b is in a transaction
    stmt,      \* stmt[b]: what b's statement does next, and on what
    idCache,   \* LABEL_ID_CACHE and PROP_KEY_ID_CACHE; 0 is no entry
    ixCache,   \* INDEXED_PROPS_CACHE: "none" (no entry), or whether Key is indexed
    nameSeq, nodeSeq,   \* sequences
    stmts,     \* statements started
    guarded,   \* history: nodes whose UNIQUE check found constraint and index
    late       \* history: nodes committed while a CREATE INDEX was running

tables == <<db, added, removed, locks>>
caches == <<idCache, ixCache>>
ids    == <<nameSeq, nodeSeq>>
history == <<guarded, late>>
vars   == <<tables, open, stmt, caches, ids, stmts, history>>

Idle == [pc |-> "idle"]

StoredIn(rows) == {r \in rows : r[1] = "node"}

Init ==
    /\ db = {}
    /\ added = [b \in Backends |-> {}]
    /\ removed = [b \in Backends |-> {}]
    /\ locks = {}
    /\ open = [b \in Backends |-> FALSE]
    /\ stmt = [b \in Backends |-> Idle]
    /\ idCache = [b \in Backends |-> [n \in Names |-> 0]]
    /\ ixCache = [b \in Backends |-> [l \in Labels |-> "none"]]
    /\ nameSeq = 0 /\ nodeSeq = 0 /\ stmts = 0
    /\ guarded = {} /\ late = {}

-----------------------------------------------------------------------------
(* Tables: what a query of b sees, inserts, deletes and locks.             *)

View(b) == (db \ removed[b]) \union added[b]

Put(b, rows) == added' = [added EXCEPT ![b] = @ \union rows]

DeleteUncommitted(b, rows) ==
    /\ UNCHANGED added
    /\ removed' = [removed EXCEPT ![b] = @ \union rows]

Delete(b, rows) ==
    /\ added' = [added EXCEPT ![b] = @ \ rows]
    /\ removed' = [removed EXCEPT ![b] = @ \union (rows \intersect db)]

Free(b, key) == \A c \in Backends \ {b} : <<key, c>> \notin locks

Lock(b, key) == Free(b, key) /\ locks' = locks \union {<<key, b>>}

IdsOf(b, n) == {r[3] : r \in {q \in View(b) : q[1] = "name" /\ q[2] = n}}

\* End of a transaction: its row locks go.
EndTxn(b) ==
    /\ added' = [added EXCEPT ![b] = {}]
    /\ removed' = [removed EXCEPT ![b] = {}]
    /\ locks' = {k \in locks : k[2] # b}
    /\ open' = [open EXCEPT ![b] = FALSE]
    /\ stmt' = [stmt EXCEPT ![b] = Idle]

Commit(b) ==
    /\ open[b] /\ stmt[b] = Idle
    /\ db' = (db \ removed[b]) \union added[b]
    /\ EndTxn(b)
    /\ late' = IF \E c \in Backends \ {b} : stmt[c] # Idle /\ stmt[c].kind = "index"
               THEN late \union {r[2] : r \in StoredIn(added[b])} ELSE late
    /\ UNCHANGED <<caches, ids, stmts, guarded>>

\* ROLLBACK, an error or a deadlock victim.  Caches and sequences stay.
Abort(b) ==
    /\ open[b]
    /\ EndTxn(b)
    /\ UNCHANGED <<db, caches, ids, stmts, history>>

-----------------------------------------------------------------------------
(* Statements.  cypher() clears the caches of names and of indexed         *)
(* properties; an SQL function starts with what earlier calls left there.  *)

ClearCachesNever(b, api) == UNCHANGED caches

ClearCachesNames(b, api) ==
    /\ idCache' = IF api = "cypher" THEN [idCache EXCEPT ![b] = [n \in Names |-> 0]]
                                    ELSE idCache
    /\ UNCHANGED ixCache

ClearCaches(b, api) ==
    IF api = "cypher"
    THEN /\ idCache' = [idCache EXCEPT ![b] = [n \in Names |-> 0]]
         /\ ixCache' = [ixCache EXCEPT ![b] = [l \in Labels |-> "none"]]
    ELSE UNCHANGED caches

Start(b, s) ==
    /\ stmt[b] = Idle /\ stmts < MaxStmt
    /\ stmts' = stmts + 1
    /\ open' = [open EXCEPT ![b] = TRUE]
    /\ stmt' = [stmt EXCEPT ![b] = s]

Step(b, s) == stmt' = [stmt EXCEPT ![b] = s]

At(b, pc, kinds) == stmt[b] # Idle /\ stmt[b].pc = pc /\ stmt[b].kind \in kinds

\* The names a CREATE resolves: the label, then the keys of its properties.
NamesOf(l, v) == IF v = NoVal THEN <<l>> ELSE <<l, Key>>

StartCreate(b, api, l, v) ==
    /\ nodeSeq < MaxNode
    /\ Start(b, [pc |-> "ensure", kind |-> "create", api |-> api, l |-> l, v |-> v,
                 todo |-> NamesOf(l, v), id |-> 0, n |-> 0, rows |-> {}])
    /\ ClearCaches(b, api)
    /\ UNCHANGED <<tables, ids, history>>

\* The label's id is kept for the node, the key's id only names the column.
Resolved(b, id) ==
    LET s == stmt[b]
        next == IF s.kind = "create" THEN "insert" ELSE "clean"
    IN [s EXCEPT !.todo = Tail(@),
                 !.pc = IF Len(s.todo) = 1 THEN next ELSE "ensure",
                 !.id = IF Head(s.todo) \in Labels THEN id ELSE @]

EnsureCached(b) ==
    /\ At(b, "ensure", {"create", "index"})
    /\ LET n == Head(stmt[b].todo)
       IN /\ idCache[b][n] # 0
          /\ Step(b, Resolved(b, idCache[b][n]))
    /\ UNCHANGED <<tables, open, caches, ids, stmts, history>>

\* A plain SELECT first, and an upsert only for an unknown name.
EnsureSelectFirst(b) ==
    /\ At(b, "ensure", {"create", "index"})
    /\ LET n == Head(stmt[b].todo)
           known == IdsOf(b, n)
           id == IF known # {} THEN CHOOSE i \in known : TRUE ELSE nameSeq + 1
       IN /\ idCache[b][n] = 0
          /\ IF known = {}
             THEN Lock(b, n) /\ nameSeq < MaxName /\ nameSeq' = id
             ELSE UNCHANGED <<nameSeq, locks>>
          /\ Put(b, {<<"name", n, id>>} \ db)
          /\ idCache' = [idCache EXCEPT ![b][n] = id]
          /\ Step(b, Resolved(b, id))
    /\ UNCHANGED <<db, removed, open, ixCache, nodeSeq, stmts, history>>

\* INSERT ... ON CONFLICT DO UPDATE locks the row of the name, new or old,
\* and waits for a transaction that holds it.
Ensure(b) ==
    /\ At(b, "ensure", {"create", "index"})
    /\ LET n == Head(stmt[b].todo)
           known == IdsOf(b, n)
           id == IF known # {} THEN CHOOSE i \in known : TRUE ELSE nameSeq + 1
       IN /\ idCache[b][n] = 0
          /\ Lock(b, n)
          /\ IF known # {} THEN UNCHANGED nameSeq
             ELSE nameSeq < MaxName /\ nameSeq' = id
          /\ Put(b, {<<"name", n, id>>} \ db)
          /\ idCache' = [idCache EXCEPT ![b][n] = id]
          /\ Step(b, Resolved(b, id))
    /\ UNCHANGED <<db, removed, open, ixCache, nodeSeq, stmts, history>>

InsertNode(b) ==
    /\ At(b, "insert", {"create"}) /\ nodeSeq < MaxNode
    /\ LET s == stmt[b] n == nodeSeq + 1
       IN /\ nodeSeq' = n
          /\ Put(b, {<<"node", n, s.id, s.v>>}
                    \union IF s.api = "sql" THEN {<<"label", s.id, n>>} ELSE {})
          /\ Step(b, [s EXCEPT !.pc = "index", !.n = n,
                               !.rows = IF s.api = "sql" THEN @ ELSE @ \union {<<s.id, n>>}])
    /\ UNCHANGED <<db, removed, locks, open, caches, nameSeq, stmts, history>>

\* index_node_insert.
Indexed(b, l) == ixCache[b][l] = "yes" \/ (ixCache[b][l] = "none" /\ <<"index", l>> \in View(b))

IndexNode(b) ==
    /\ At(b, "index", {"create"})
    /\ LET s == stmt[b]
       IN /\ ixCache' = [ixCache EXCEPT ![b][s.l] = IF Indexed(b, s.l) THEN "yes" ELSE "no"]
          /\ Put(b, IF Indexed(b, s.l) /\ s.v # NoVal
                    THEN {<<"value", s.id, s.v, s.n>>} ELSE {})
          /\ Step(b, [s EXCEPT !.pc = IF s.api = "cypher" THEN "check" ELSE "flush"])
    /\ UNCHANGED <<db, removed, locks, open, idCache, ids, stmts, history>>

\* has_unique_constraint and enforce_unique_on_insert: its error aborts.
Taken(b, s) == \E r \in View(b) : r[1] = "value" /\ r[2] = s.id /\ r[3] = s.v /\ r[4] # s.n

CheckUnique(b) ==
    /\ At(b, "check", {"create"})
    /\ LET s == stmt[b]
           unique == <<"unique", s.l>> \in View(b)
           covered == unique /\ <<"index", s.l>> \in View(b)
       IN /\ ~(unique /\ s.v # NoVal /\ Taken(b, s))
          /\ guarded' = IF covered THEN guarded \union {s.n} ELSE guarded
          /\ Step(b, [s EXCEPT !.pc = "flush"])
    /\ UNCHANGED <<tables, open, caches, ids, stmts, late>>

CheckUniqueFails(b) ==
    /\ At(b, "check", {"create"})
    /\ LET s == stmt[b]
       IN <<"unique", s.l>> \in View(b) /\ s.v # NoVal /\ Taken(b, s)
    /\ EndTxn(b)
    /\ UNCHANGED <<db, caches, ids, stmts, history>>

\* UNWIND ... CREATE: the next row of the same statement, its caches warm.
NextRow(b, l, v) ==
    /\ At(b, "flush", {"create"}) /\ stmt[b].api = "cypher" /\ nodeSeq < MaxNode
    /\ Step(b, [stmt[b] EXCEPT !.pc = "ensure", !.l = l, !.v = v, !.todo = NamesOf(l, v), !.n = 0])
    /\ UNCHANGED <<tables, open, caches, ids, stmts, history>>

\* CatalogWriteBuffer::flush.
Flush(b) ==
    /\ At(b, "flush", {"create"})
    /\ Put(b, {<<"label", r[1], r[2]>> : r \in stmt[b].rows})
    /\ Step(b, Idle)
    /\ UNCHANGED <<db, removed, locks, open, caches, ids, stmts, history>>

-----------------------------------------------------------------------------
(* The property index.                                                     *)

StartIndex(b, api, l) ==
    /\ Start(b, [pc |-> "upsert", kind |-> "index", api |-> api, l |-> l,
                 todo |-> <<l, Key>>, id |-> 0, snap |-> StoredIn(db)])
    /\ ClearCaches(b, api)
    /\ UNCHANGED <<tables, ids, history>>

IndexUpsert(b) ==
    /\ At(b, "upsert", {"index"})
    /\ LET row == <<"index", stmt[b].l>>
       IN Lock(b, row) /\ Put(b, {row} \ (db \ removed[b]))
    /\ Step(b, [stmt[b] EXCEPT !.pc = "ensure"])
    /\ UNCHANGED <<db, removed, open, caches, ids, stmts, history>>

ValuesOf(b, id) == {r \in View(b) : r[1] = "value" /\ r[2] = id}

IndexClean(b) ==
    /\ At(b, "clean", {"index"})
    /\ Delete(b, ValuesOf(b, stmt[b].id))
    /\ guarded' = {}
    /\ Step(b, [stmt[b] EXCEPT !.pc = "fill"])
    /\ UNCHANGED <<db, locks, open, caches, ids, stmts, late>>

\* Backfill: nodes by label_index, their values from the store, where the
\* snapshot GetActiveSnapshot returns is as old as the statement.
IndexFill(b) ==
    /\ At(b, "fill", {"index"})
    /\ LET id == stmt[b].id
           nodes == {r[3] : r \in {q \in View(b) : q[1] = "label" /\ q[2] = id}}
           found == {r \in stmt[b].snap \union StoredIn(added[b]) : r[2] \in nodes /\ r[4] # NoVal}
       IN Put(b, {<<"value", id, r[4], r[2]>> : r \in found})
    /\ Step(b, Idle)
    /\ UNCHANGED <<db, removed, locks, open, caches, ids, stmts, history>>

\* drop_property_index: FALSE, and nothing else, without such an index.
StartDrop(b, api, l) ==
    /\ <<"index", l>> \in View(b)
    /\ Start(b, [pc |-> "purge", kind |-> "drop", l |-> l])
    /\ Lock(b, <<"index", l>>)
    /\ Delete(b, {<<"index", l>>})
    /\ ClearCaches(b, api)
    /\ UNCHANGED <<db, ids, history>>

IndexPurge(b) ==
    /\ At(b, "purge", {"drop"})
    /\ Delete(b, UNION {ValuesOf(b, id) : id \in IdsOf(b, stmt[b].l)})
    /\ Step(b, Idle)
    /\ UNCHANGED <<db, locks, open, caches, ids, stmts, history>>

-----------------------------------------------------------------------------
(* UNIQUE constraints: creation checks no existing node.                   *)

CreateConstraint(b, api, l) ==
    /\ <<"unique", l>> \notin View(b)
    /\ Start(b, Idle)
    /\ Lock(b, <<"unique", l>>)
    /\ Put(b, {<<"unique", l>>})
    /\ ClearCaches(b, api)
    /\ UNCHANGED <<db, removed, ids, history>>

DropConstraint(b, api, l) ==
    /\ <<"unique", l>> \in View(b)
    /\ Start(b, Idle)
    /\ Lock(b, <<"unique", l>>)
    /\ Delete(b, {<<"unique", l>>})
    /\ ClearCaches(b, api)
    /\ UNCHANGED <<db, ids, history>>

-----------------------------------------------------------------------------
Run(b) ==
    \/ Commit(b) \/ Abort(b) \/ EnsureCached(b) \/ Ensure(b)
    \/ InsertNode(b) \/ IndexNode(b) \/ CheckUnique(b) \/ CheckUniqueFails(b) \/ Flush(b)
    \/ IndexUpsert(b) \/ IndexClean(b) \/ IndexFill(b) \/ IndexPurge(b)
    \/ \E l \in Labels, v \in Values \union {NoVal} : NextRow(b, l, v)
    \/ \E l \in Labels, api \in Apis :
         \/ \E v \in Values \union {NoVal} : StartCreate(b, api, l, v)
         \/ StartIndex(b, api, l) \/ StartDrop(b, api, l)
         \/ CreateConstraint(b, api, l) \/ DropConstraint(b, api, l)

Next == \E b \in Backends : Run(b)

Spec == Init /\ [][Next]_vars

-----------------------------------------------------------------------------
\* Types; a transaction deletes only committed rows, and locks only rows that
\* an upsert or a delete of the catalog may conflict on.
TypeOK ==
    /\ \A b \in Backends : removed[b] \subseteq db
    /\ locks \subseteq (Names \union ({"index", "unique"} \X Labels)) \X Backends
    /\ open \in [Backends -> BOOLEAN]
    /\ \A b \in Backends : stmt[b] # Idle => open[b]
    /\ idCache \in [Backends -> [Names -> 0..MaxName]]
    /\ ixCache \in [Backends -> [Labels -> {"none", "yes", "no"}]]
    /\ nameSeq \in 0..MaxName /\ nodeSeq \in 0..MaxNode

LabelIds(l) == {r[3] : r \in {q \in db : q[1] = "name" /\ q[2] = l}}

\* Every committed node's label id stands for a name that is registered, and
\* for one name only: an id cached by a transaction that rolled back is never
\* written by a later statement.
IdsRegistered ==
    /\ \A r \in StoredIn(db) : \E l \in Labels : r[3] \in LabelIds(l)
    /\ \A m, n \in Names : LabelIds(m) \intersect LabelIds(n) # {} => m = n
    /\ \A n \in Names : Cardinality(LabelIds(n)) <= 1

Entries(id) == {r \in db : r[1] = "value" /\ r[2] = id}

Due(id) == {<<"value", id, r[4], r[2]>> : r \in {q \in StoredIn(db) : q[3] = id /\ q[4] # NoVal}}

\* A registered index holds only values of committed nodes of its label, and
\* all of them but those of nodes committed while CREATE INDEX was running:
\* the label's row lock orders every other creation before or after the build.
IndexExact ==
    \A l \in Labels : <<"index", l>> \in db =>
        \A id \in LabelIds(l) :
            /\ Entries(id) \subseteq Due(id)
            /\ \A r \in Due(id) \ Entries(id) : r[4] \in late

\* Of two committed nodes created while the UNIQUE constraint and one and the
\* same index were there, no two share label and value: the check of one of
\* them sees the other although check and insert are separate queries.
UniqueHolds ==
    \A q, r \in {x \in StoredIn(db) : x[2] \in guarded /\ x[4] # NoVal} :
        q[3] = r[3] /\ q[4] = r[4] => q = r

=============================================================================
