---------------------------- MODULE CatalogProofs ----------------------------
(***************************************************************************)
(* Proofs about Catalog, for any number of backends, labels, values, nodes *)
(* and statements.                                                         *)
(***************************************************************************)
EXTENDS Catalog, FiniteSetTheorems, TLAPS

Ids   == 1..MaxName
Nodes == 1..MaxNode

\* The rows of the tables.
Row == {<<"name", n, i>> : n \in Names, i \in Ids}
       \cup {<<"index", l>> : l \in Labels} \cup {<<"unique", l>> : l \in Labels}
       \cup {<<"value", i, v, n>> : i \in Ids, v \in Values, n \in Nodes}
       \cup {<<"label", i, n>> : i \in Ids, n \in Nodes}
       \cup {<<"node", n, i, v>> : n \in Nodes, i \in Ids, v \in Values \cup {NoVal}}

\* The statements by kind, and the names they may still have to resolve.
Todos == {<<>>, <<Key>>} \cup {<<l>> : l \in Labels} \cup {<<l, Key>> : l \in Labels}
Creates == [pc: {"ensure", "insert", "index", "check", "flush"}, kind: {"create"}, api: Apis, l: Labels,
            v: Values \cup {NoVal}, todo: Todos, id: 0..MaxName, n: 0..MaxNode, rows: SUBSET (Ids \X Nodes)]
Indexes == [pc: {"upsert", "ensure", "clean", "fill"}, kind: {"index"}, api: Apis, l: Labels,
            todo: Todos, id: 0..MaxName, snap: SUBSET StoredIn(Row)]
Drops   == [pc: {"purge"}, kind: {"drop"}, l: Labels]
Statement == {Idle} \cup Creates \cup Indexes \cup Drops

Creating(b) == stmt[b] \in Creates
Indexing(b) == stmt[b] \in Indexes
Dropping(b) == stmt[b] \in Drops

\* A statement that resolves names has its label's next, or the key's last; it has
\* resolved the label in all other states.
LabelKnown(b) ==
    /\ Creating(b) \/ Indexing(b)
    /\ stmt[b].pc # "upsert"
    /\ stmt[b].pc = "ensure" => stmt[b].todo = <<Key>>
Resolving(b) ==
    /\ Creating(b) \/ Indexing(b) =>
          /\ stmt[b].pc = "upsert" => stmt[b].todo = <<stmt[b].l, Key>>
          /\ stmt[b].pc = "ensure" => stmt[b].todo \in {<<stmt[b].l>>, <<stmt[b].l, Key>>, <<Key>>}
    /\ LabelKnown(b) => stmt[b].id \in Ids
    /\ Creating(b) /\ stmt[b].pc \in {"index", "check"} => stmt[b].n \in Nodes

Types ==
    /\ db \in SUBSET Row
    /\ added \in [Backends -> SUBSET Row]
    /\ removed \in [Backends -> SUBSET Row]
    /\ locks \subseteq (Names \union ({"index", "unique"} \X Labels)) \X Backends
    /\ open \in [Backends -> BOOLEAN]
    /\ idCache \in [Backends -> [Names -> 0..MaxName]]
    /\ ixCache \in [Backends -> [Labels -> {"none", "yes", "no"}]]
    /\ nameSeq \in 0..MaxName /\ nodeSeq \in 0..MaxNode
    /\ stmt \in [Backends -> Statement]
Statements ==
    \A b \in Backends :
        /\ stmt[b] # Idle => open[b]
        /\ Resolving(b)

\* Row locks exclude each other; who builds or drops an index has its row locked.
Has(b, key) == <<key, b>> \in locks
Locking ==
    /\ \A x, y \in locks : x[1] = y[1] => x = y
    /\ \A b \in Backends : Indexing(b) /\ stmt[b].pc # "upsert" => Has(b, <<"index", stmt[b].l>>)
    /\ \A b \in Backends : Dropping(b) => Has(b, <<"index", stmt[b].l>>)

\* Whatever takes an id for that of a name: a row, a cache, a statement.  An id
\* that the sequence has handed out stands for one name at most.
Bound(n, i) ==
    \/ <<"name", n, i>> \in db
    \/ \E b \in Backends :
          \/ <<"name", n, i>> \in added[b]
          \/ idCache[b][n] = i
          \/ LabelKnown(b) /\ stmt[b].l = n /\ stmt[b].id = i
Naming ==
    \A n \in Names, i \in Ids : Bound(n, i) =>
        i <= nameSeq /\ \A m \in Names : Bound(m, i) => m = n

\* A transaction removes committed rows of an index or a constraint that it has
\* locked, and the values of an index it has locked; so no two remove the same.
Claim(b, r) ==
    \/ \E l \in Labels : r = <<"index", l>> /\ Has(b, <<"index", l>>)
    \/ \E l \in Labels : r = <<"unique", l>> /\ Has(b, <<"unique", l>>)
    \/ \E i \in Ids, v \in Values, n \in Nodes, l \in Labels :
          /\ r = <<"value", i, v, n>> /\ Has(b, <<"index", l>>)
          /\ i <= nameSeq /\ \A m \in Names : Bound(m, i) => m = l
Removing(b) == removed[b] \subseteq db /\ \A r \in removed[b] : Claim(b, r)
Removals ==
    /\ \A b \in Backends : Removing(b)
    /\ \A b, c \in Backends : b # c => removed[b] \cap removed[c] = {}

Structure == Types /\ Statements /\ Locking /\ Naming /\ Removals
-----------------------------------------------------------------------------
(* Where every statement clears the caches first.                          *)

\* What a statement has cached or resolved is registered in what its transaction
\* sees; a name has one id there, and whoever adds it has the name locked.
Known(b, n, i) == <<"name", n, i>> \in db \cup added[b]
Registry(b) ==
    /\ \A n \in Names : stmt[b] # Idle /\ idCache[b][n] # 0 =>
          Known(b, n, idCache[b][n]) /\ Has(b, n)
    /\ LabelKnown(b) => Known(b, stmt[b].l, stmt[b].id) /\ Has(b, stmt[b].l)
    /\ \A n \in Names, i \in Ids : <<"name", n, i>> \in added[b] =>
          Has(b, n) /\ \A j \in Ids : Known(b, n, j) => j = i
    /\ \A n \in Nodes, i \in Ids, v \in Values \cup {NoVal} : <<"node", n, i, v>> \in added[b] =>
          \E l \in Labels : Known(b, l, i) /\ Has(b, l)
Registered ==
    /\ \A b \in Backends : Registry(b)
    /\ \A n \in Names, i, j \in Ids : <<"name", n, i>> \in db /\ <<"name", n, j>> \in db => i = j
    /\ \A n \in Nodes, i \in Ids, v \in Values \cup {NoVal} : <<"node", n, i, v>> \in db =>
          \E l \in Labels : <<"name", l, i>> \in db

-----------------------------------------------------------------------------
\* Nodes, their label rows and the index entries of their values belong together.
Node(S, n, i, v) == <<"node", n, i, v>> \in S
Pending(b) == IF Creating(b) THEN stmt[b].rows ELSE {}
Stored(b) ==
    /\ \A n \in Nodes, i \in Ids : <<"label", i, n>> \in added[b] \/ <<i, n>> \in Pending(b) =>
          \E v \in Values \cup {NoVal} : Node(added[b], n, i, v)
    /\ \A n \in Nodes, i \in Ids, v \in Values \cup {NoVal} : Node(added[b], n, i, v) =>
          <<"label", i, n>> \in added[b] \/ <<i, n>> \in Pending(b)
    /\ \A n \in Nodes, i \in Ids, v \in Values : <<"value", i, v, n>> \in added[b] =>
          Node(db \cup added[b], n, i, v)
    /\ Creating(b) /\ stmt[b].pc \in {"index", "check"} => Node(added[b], stmt[b].n, stmt[b].id, stmt[b].v)
    /\ Indexing(b) => stmt[b].snap \subseteq db
Numbered ==
    /\ \A b, c \in Backends, n \in Nodes, i, j \in Ids, v, w \in Values \cup {NoVal} :
          Node(db \cup added[b], n, i, v) /\ Node(db \cup added[c], n, j, w) =>
             n <= nodeSeq /\ i = j /\ v = w
    /\ \A b, c \in Backends, n \in Nodes, i \in Ids, v \in Values \cup {NoVal} :
          Node(added[b], n, i, v) => ~Node(db, n, i, v) /\ (Node(added[c], n, i, v) => b = c)
    /\ \A n \in Nodes, i \in Ids, v \in Values \cup {NoVal} : Node(db, n, i, v) => <<"label", i, n>> \in db
    /\ \A n \in Nodes, i \in Ids : <<"label", i, n>> \in db =>
          \E v \in Values \cup {NoVal} : Node(db, n, i, v)
    /\ \A n \in Nodes, i \in Ids, v \in Values : <<"value", i, v, n>> \in db => Node(db, n, i, v)
Stores == (\A b \in Backends : Stored(b)) /\ Numbered

-----------------------------------------------------------------------------
(* Where every statement clears the caches first.                          *)

\* The index rows: who adds one has it locked, and the label's name too once it
\* has resolved the name; what is cached as unindexed is so to its transaction.
Building(b, l) == Indexing(b) /\ stmt[b].l = l
IndexRows(b) ==
    /\ \A l \in Labels : <<"index", l>> \in added[b] =>
          Has(b, <<"index", l>>) /\ (Has(b, l) \/ Building(b, l))
    /\ \A l \in Labels : stmt[b] # Idle /\ ixCache[b][l] # "none" =>
          Has(b, l) /\ (ixCache[b][l] = "no" => <<"index", l>> \notin View(b))
    /\ Dropping(b) => <<"index", stmt[b].l>> \notin View(b)
    /\ Creating(b) /\ stmt[b].pc = "check" =>
          /\ ixCache[b][stmt[b].l] # "none"
          /\ ixCache[b][stmt[b].l] = "yes" /\ stmt[b].v # NoVal =>
                <<"value", stmt[b].id, stmt[b].v, stmt[b].n>> \in added[b]
    /\ Indexing(b) => /\ \A l \in Labels : ixCache[b][l] = "none"
                      /\ \A n \in Nodes, i \in Ids, v \in Values \cup {NoVal} :
                            Node(db, n, i, v) /\ n \notin late => Node(stmt[b].snap, n, i, v)

\* The entries of a registered index: in the committed rows, and in what a
\* transaction sees, but for the node and the index it is working on.
Entry(S, l, i, n, v) ==
    <<"index", l>> \in S /\ <<"name", l, i>> \in S /\ Node(S, n, i, v) => <<"value", i, v, n>> \in S
Complete(S, l, i, but) == \A n \in Nodes \ but, v \in Values : Entry(S, l, i, n, v)
Working(b) == IF Creating(b) /\ stmt[b].pc = "index" THEN {stmt[b].n} ELSE {}
Entered(b) ==
    \A l \in Labels, i \in Ids :
        /\ Complete(db, l, i, late)
        /\ ~Building(b, l) => Complete(View(b), l, i, late \cup Working(b))

\* The same for guarded nodes, whoever added them; no two have the same value.
Guards(b) ==
    /\ \A n \in guarded : n \in Nodes /\ n <= nodeSeq /\ n \notin Working(b)
    /\ \A l \in Labels, i \in Ids :
          /\ Complete(db, l, i, Nodes \ guarded)
          /\ ~Building(b, l) => Complete(View(b), l, i, Nodes \ guarded)
          /\ Building(b, l) /\ stmt[b].pc = "fill" /\ Known(b, l, i) =>
                \A n \in guarded, v \in Values : ~Node(View(b), n, i, v)
    /\ \A c \in Backends, n, m \in guarded, i \in Ids, v \in Values :
          Node(db \cup added[b], n, i, v) /\ Node(db \cup added[c], m, i, v) => n = m

USE CatalogAssumption

(* Shapes of statements and of steps *)

\* The kinds of statements differ, and labels are not the property key.
LEMMA Kinds ==
    /\ \A s \in Creates : s # Idle /\ s.kind = "create" /\ s \notin Indexes /\ s \notin Drops
    /\ \A s \in Indexes : s # Idle /\ s.kind = "index" /\ s \notin Creates /\ s \notin Drops
    /\ \A s \in Drops : s # Idle /\ s.kind = "drop" /\ s \notin Creates /\ s \notin Indexes
    /\ Ids \subseteq Nat /\ Nodes \subseteq Nat /\ 0 \notin Ids
    /\ \A l \in Labels : l # Key /\ l \in Names
    /\ Key \in Names
BY DEF Creates, Indexes, Drops, Idle, Ids, Nodes, Names

\* The names a statement may still have to resolve, one by one.
LEMMA TodoIs ==
    \A l \in Labels :
        /\ Head(<<l>>) = l /\ Tail(<<l>>) = <<>> /\ Len(<<l>>) = 1
        /\ Head(<<l, Key>>) = l /\ Tail(<<l, Key>>) = <<Key>> /\ Len(<<l, Key>>) = 2
        /\ Head(<<Key>>) = Key /\ Tail(<<Key>>) = <<>> /\ Len(<<Key>>) = 1
        /\ <<l>> # <<Key>> /\ <<l, Key>> # <<Key>> /\ <<l>> # <<l, Key>>
OBVIOUS

\* What a statement has resolved after one more name.
LEMMA ResolvedIs ==
    ASSUME NEW b \in Backends, NEW i \in Ids, Creating(b) \/ Indexing(b), stmt[b].pc = "ensure", Resolving(b)
    PROVE  /\ Creating(b) => Resolved(b, i) \in Creates
           /\ Indexing(b) => Resolved(b, i) \in Indexes /\ Resolved(b, i).snap = stmt[b].snap
           /\ Creating(b) => Resolved(b, i).rows = stmt[b].rows
           /\ Resolved(b, i).l = stmt[b].l
           /\ \/ /\ Head(stmt[b].todo) = stmt[b].l /\ Resolved(b, i).id = i
                 /\ Resolved(b, i).pc = "ensure" => Resolved(b, i).todo = <<Key>>
              \/ /\ stmt[b].todo = <<Key>> /\ Head(stmt[b].todo) = Key /\ Resolved(b, i).id = stmt[b].id
                 /\ Resolved(b, i).pc # "ensure"
           /\ Resolved(b, i).pc \in {"ensure", "insert", "clean"}
<1> DEFINE s == stmt[b]
           next == IF s.kind = "create" THEN "insert" ELSE "clean"
           todo == Tail(s.todo)
           pc_ == IF Len(s.todo) = 1 THEN next ELSE "ensure"
           id == IF Head(s.todo) \in Labels THEN i ELSE s.id
           t == [s EXCEPT !.todo = todo, !.pc = pc_, !.id = id]
<1>0. Resolved(b, i) = t
  BY DEF Resolved
<1>1. s.l \in Labels /\ s.todo \in {<<s.l>>, <<s.l, Key>>, <<Key>>} /\ s.id \in 0..MaxName
  BY DEF Resolving, Creating, Indexing, Creates, Indexes
<1>2. \/ s.todo = <<s.l>> /\ todo = <<>> /\ pc_ = next /\ id = i /\ Head(s.todo) = s.l
      \/ s.todo = <<s.l, Key>> /\ todo = <<Key>> /\ pc_ = "ensure" /\ id = i /\ Head(s.todo) = s.l
      \/ s.todo = <<Key>> /\ todo = <<>> /\ pc_ = next /\ id = s.id /\ Head(s.todo) = Key
  <2>1. s.todo = <<s.l>> => todo = <<>> /\ pc_ = next /\ id = i /\ Head(s.todo) = s.l
    BY <1>1, TodoIs
  <2>2. s.todo = <<s.l, Key>> => todo = <<Key>> /\ pc_ = "ensure" /\ id = i /\ Head(s.todo) = s.l
    BY <1>1, TodoIs
  <2>3. s.todo = <<Key>> => todo = <<>> /\ pc_ = next /\ id = s.id /\ Head(s.todo) = Key
    BY <1>1, TodoIs
  <2> HIDE DEF todo, pc_, id, next
  <2> QED BY <1>1, <2>1, <2>2, <2>3
<1>3. todo \in Todos /\ id \in 0..MaxName /\ (Creating(b) => next = "insert") /\ (Indexing(b) => next = "clean")
  BY <1>1, <1>2, Kinds DEF Todos, Ids, Creating, Indexing
<1> HIDE DEF next, todo, pc_, id
<1>4. CASE Creating(b)
  <2>1. t \in Creates /\ t.l = s.l /\ t.todo = todo /\ t.id = id /\ t.pc = pc_ /\ t.rows = s.rows
    BY <1>2, <1>3, <1>4 DEF Creating, Creates
  <2> HIDE DEF t
  <2> QED BY <1>0, <1>2, <1>3, <1>4, <2>1, Kinds DEF Creating, Indexing
<1>5. CASE Indexing(b)
  <2>1. t \in Indexes /\ t.l = s.l /\ t.todo = todo /\ t.id = id /\ t.pc = pc_ /\ t.snap = s.snap
    BY <1>2, <1>3, <1>5 DEF Indexing, Indexes
  <2> HIDE DEF t
  <2> QED BY <1>0, <1>2, <1>3, <1>5, <2>1, Kinds DEF Creating, Indexing
<1> QED BY <1>4, <1>5

\* What At says of the statement it finds.
LEMMA AtIs ==
    ASSUME Types, NEW b \in Backends
    PROVE  /\ stmt[b] \in Statement
           /\ \A p, k : At(b, p, {k}) => stmt[b] # Idle /\ stmt[b].pc = p /\ stmt[b].kind = k
           /\ \A p : At(b, p, {"create"}) => Creating(b)
           /\ \A p : At(b, p, {"index"}) => Indexing(b)
           /\ \A p : At(b, p, {"drop"}) => Dropping(b)
           /\ \A p : At(b, p, {"create", "index"}) => Creating(b) \/ Indexing(b)
BY Kinds DEF Types, At, Creating, Indexing, Dropping, Statement

\* The statements of the others, their rows, caches and locks, are left alone.
LEMMA Others ==
    ASSUME Types, NEW b \in Backends, Run(b), NEW c \in Backends, c # b
    PROVE  /\ stmt'[c] = stmt[c] /\ open'[c] = open[c]
           /\ added'[c] = added[c] /\ removed'[c] = removed[c]
           /\ idCache'[c] = idCache[c] /\ ixCache'[c] = ixCache[c]
           /\ \A k : Has(c, k)' <=> Has(c, k)
<1> DEFINE Kept == /\ stmt'[c] = stmt[c] /\ open'[c] = open[c]
                   /\ added'[c] = added[c] /\ removed'[c] = removed[c]
                   /\ idCache'[c] = idCache[c] /\ ixCache'[c] = ixCache[c]
                   /\ \A k : Has(c, k)' <=> Has(c, k)
<1> USE DEF Types, Has, Put, Lock, Step, Delete, EndTxn, Start, ClearCaches, tables, caches, ids, history
<1>1. CASE Commit(b) \/ Abort(b) \/ CheckUniqueFails(b)
  BY <1>1 DEF Commit, Abort, CheckUniqueFails
<1>2. CASE EnsureCached(b)
  BY <1>2 DEF EnsureCached
<1>3. CASE Ensure(b)
  BY <1>3 DEF Ensure
<1>4. CASE InsertNode(b) \/ Flush(b)
  BY <1>4 DEF InsertNode, Flush
<1>5. CASE IndexNode(b)
  BY <1>5 DEF IndexNode
<1>6. CASE CheckUnique(b)
  BY <1>6 DEF CheckUnique
<1>7. CASE IndexUpsert(b)
  BY <1>7 DEF IndexUpsert
<1>8. CASE IndexClean(b) \/ IndexPurge(b)
  BY <1>8 DEF IndexClean, IndexPurge
<1>9. CASE IndexFill(b)
  BY <1>9 DEF IndexFill
<1>10. CASE \E l \in Labels, v \in Values \union {NoVal} : NextRow(b, l, v)
  BY <1>10 DEF NextRow
<1>11. ASSUME NEW l \in Labels, NEW api \in Apis, NEW v \in Values \union {NoVal}, StartCreate(b, api, l, v)
       PROVE  Kept
  BY <1>11 DEF StartCreate
<1>12. ASSUME NEW l \in Labels, NEW api \in Apis, StartIndex(b, api, l) PROVE Kept
  BY <1>12 DEF StartIndex
<1>13. ASSUME NEW l \in Labels, NEW api \in Apis, StartDrop(b, api, l) PROVE Kept
  BY <1>13 DEF StartDrop
<1>14. ASSUME NEW l \in Labels, NEW api \in Apis, CreateConstraint(b, api, l) PROVE Kept
  BY <1>14 DEF CreateConstraint
<1>15. ASSUME NEW l \in Labels, NEW api \in Apis, DropConstraint(b, api, l) PROVE Kept
  BY <1>15 DEF DropConstraint
<1> QED BY <1>1, <1>2, <1>3, <1>4, <1>5, <1>6, <1>7, <1>8, <1>9, <1>10, <1>11, <1>12, <1>13, <1>14, <1>15 DEF Run

\* The rows of a table, by their parts.
LEMMA RowIs ==
    ASSUME NEW r \in Row
    PROVE  /\ r[1] = "name" => r[2] \in Names /\ r[3] \in Ids /\ r = <<"name", r[2], r[3]>>
           /\ r[1] = "value" => r[2] \in Ids /\ r[3] \in Values /\ r[4] \in Nodes /\ r = <<"value", r[2], r[3], r[4]>>
           /\ r[1] = "label" => r[2] \in Ids /\ r[3] \in Nodes /\ r = <<"label", r[2], r[3]>>
           /\ r[1] = "node" => r[2] \in Nodes /\ r[3] \in Ids /\ r[4] \in Values \cup {NoVal}
                               /\ r = <<"node", r[2], r[3], r[4]>>
BY DEF Row

\* What a transaction sees are rows; the ids of a name and the values of an id in it.
LEMMA ViewIs ==
    ASSUME Types, NEW b \in Backends
    PROVE  /\ View(b) \subseteq Row /\ added[b] \subseteq Row /\ removed[b] \subseteq Row
           /\ \A n \in Names : \A i : i \in IdsOf(b, n) <=> i \in Ids /\ <<"name", n, i>> \in View(b)
           /\ \A i \in Ids : \A r : r \in ValuesOf(b, i) <=>
                 \E v \in Values, n \in Nodes : r = <<"value", i, v, n>> /\ r \in View(b)
<1>1. View(b) \subseteq Row /\ added[b] \subseteq Row /\ removed[b] \subseteq Row
  BY DEF Types, View
<1>2. ASSUME NEW n \in Names, NEW i PROVE i \in IdsOf(b, n) <=> i \in Ids /\ <<"name", n, i>> \in View(b)
  BY <1>1, RowIs DEF IdsOf
<1>3. ASSUME NEW i \in Ids, NEW r
      PROVE  r \in ValuesOf(b, i) <=> \E v \in Values, n \in Nodes : r = <<"value", i, v, n>> /\ r \in View(b)
  BY <1>1, RowIs DEF ValuesOf
<1> QED BY <1>1, <1>2, <1>3

\* A statement resolves the name n to the id i: from its cache, from the registry,
\* or to a new id.
Cached(b, n, i) == idCache[b][n] = i /\ UNCHANGED <<added, locks, idCache, nameSeq>>
Upserts(b, n, i) ==
    /\ idCache[b][n] = 0 /\ Lock(b, n)
    /\ \/ i \in IdsOf(b, n) /\ nameSeq' = nameSeq
       \/ IdsOf(b, n) = {} /\ i = nameSeq + 1 /\ nameSeq' = i
    /\ added' = [added EXCEPT ![b] = @ \cup ({<<"name", n, i>>} \ db)]
    /\ idCache' = [idCache EXCEPT ![b][n] = i]
Resolves(b, n, i) ==
    /\ Creating(b) \/ Indexing(b)
    /\ stmt[b].pc = "ensure" /\ n = Head(stmt[b].todo) /\ n \in Names /\ i \in Ids
    /\ stmt' = [stmt EXCEPT ![b] = Resolved(b, i)]
    /\ Cached(b, n, i) \/ Upserts(b, n, i)
    /\ UNCHANGED <<db, removed, open, ixCache, nodeSeq, stmts, guarded, late>>

\* The name to resolve next is a label or the property key.
LEMMA HeadIs ==
    ASSUME Types, Statements, NEW b \in Backends, Creating(b) \/ Indexing(b), stmt[b].pc = "ensure"
    PROVE  Head(stmt[b].todo) \in Names
<1>1. stmt[b].l \in Labels /\ stmt[b].todo \in {<<stmt[b].l>>, <<stmt[b].l, Key>>, <<Key>>}
  BY DEF Statements, Resolving, Creating, Indexing, Creates, Indexes
<1> QED BY <1>1, TodoIs, Kinds

\* A step of ensure_label or ensure_prop_key resolves one name to one id.
LEMMA EnsureIs ==
    ASSUME Types, Statements, NEW b \in Backends, EnsureCached(b) \/ Ensure(b)
    PROVE  \E n \in Names, i \in Ids : Resolves(b, n, i)
<1> DEFINE n == Head(stmt[b].todo)
<1>1. (Creating(b) \/ Indexing(b)) /\ stmt[b].pc = "ensure"
  BY AtIs DEF EnsureCached, Ensure, At
<1>2. n \in Names
  BY <1>1, HeadIs
<1>3. idCache[b][n] \in 0..MaxName /\ nameSeq \in 0..MaxName
  BY <1>2 DEF Types
<1> HIDE DEF n
<1>4. CASE EnsureCached(b)
  <2>1. /\ stmt' = [stmt EXCEPT ![b] = Resolved(b, idCache[b][n])] /\ Cached(b, n, idCache[b][n])
        /\ UNCHANGED <<db, removed, open, ixCache, nodeSeq, stmts, guarded, late>>
        /\ idCache[b][n] # 0
    BY <1>4 DEF EnsureCached, Step, n, tables, caches, ids, history, Cached
  <2>2. idCache[b][n] \in Ids
    BY <1>3, <2>1 DEF Ids
  <2> QED BY <1>1, <1>2, <2>1, <2>2 DEF Resolves, n
<1>5. CASE Ensure(b)
  <2> DEFINE known == IdsOf(b, n)
             i == IF known # {} THEN CHOOSE j \in known : TRUE ELSE nameSeq + 1
  <2>1. /\ idCache[b][n] = 0 /\ Lock(b, n)
        /\ IF known # {} THEN UNCHANGED nameSeq ELSE nameSeq < MaxName /\ nameSeq' = i
        /\ added' = [added EXCEPT ![b] = @ \cup ({<<"name", n, i>>} \ db)]
        /\ idCache' = [idCache EXCEPT ![b][n] = i]
        /\ stmt' = [stmt EXCEPT ![b] = Resolved(b, i)]
        /\ UNCHANGED <<db, removed, open, ixCache, nodeSeq, stmts, guarded, late>>
    BY <1>5 DEF Ensure, Step, Put, n, history
  <2>2. known # {} => i \in known
    OBVIOUS
  <2>3. known \subseteq Ids
    BY <1>2, ViewIs
  <2>4. i \in Ids
    BY <2>1, <2>2, <2>3, <1>3 DEF Ids
  <2>5. Upserts(b, n, i)
    BY <2>1, <2>2 DEF Upserts
  <2> HIDE DEF i, known
  <2> QED BY <1>1, <1>2, <2>1, <2>4, <2>5 DEF Resolves, n
<1> QED BY <1>4, <1>5

\* The statement after a step of a CREATE or a CREATE INDEX.
Same(b) == stmt'[b].l = stmt[b].l /\ stmt'[b].id = stmt[b].id /\ stmt'[b].todo = stmt[b].todo

\* The statement after its node is inserted.
LEMMA InsertIs ==
    ASSUME Types, Statements, NEW b \in Backends, InsertNode(b)
    PROVE  /\ stmt' \in [Backends -> Statement] /\ Same(b) /\ nodeSeq + 1 \in Nodes
           /\ Creating(b) /\ stmt[b].pc = "insert" /\ LabelKnown(b) /\ stmt[b].id \in Ids
           /\ Creating(b)' /\ stmt'[b].pc = "index" /\ stmt'[b].n = nodeSeq + 1 /\ stmt'[b].v = stmt[b].v
           /\ stmt'[b].rows = IF stmt[b].api = "sql" THEN stmt[b].rows
                                                     ELSE stmt[b].rows \cup {<<stmt[b].id, nodeSeq + 1>>}
<1> DEFINE s == stmt[b]
           rows == IF s.api = "sql" THEN s.rows ELSE s.rows \cup {<<s.id, nodeSeq + 1>>}
           t == [s EXCEPT !.pc = "index", !.n = nodeSeq + 1, !.rows = rows]
<1>1. s \in Creates /\ s.pc = "insert" /\ nodeSeq \in Nat /\ nodeSeq < MaxNode
  BY AtIs DEF InsertNode, At, Creating, Types
<1>2. LabelKnown(b) /\ s.id \in Ids
  BY <1>1 DEF LabelKnown, Creating, Statements, Resolving
<1>3. nodeSeq + 1 \in Nodes /\ s.rows \subseteq Ids \X Nodes
  BY <1>1 DEF Nodes, Creates
<1>4. rows \in SUBSET (Ids \X Nodes) /\ nodeSeq + 1 \in 0..MaxNode
  BY <1>2, <1>3 DEF Nodes
<1>5. stmt' = [stmt EXCEPT ![b] = t]
  BY DEF InsertNode, Step
<1> HIDE DEF rows
<1>6. t \in Creates /\ t.l = s.l /\ t.id = s.id /\ t.todo = s.todo /\ t.pc = "index" /\ t.n = nodeSeq + 1
      /\ t.v = s.v /\ t.rows = rows
  BY <1>1, <1>4 DEF Creates
<1> HIDE DEF t
<1>7. t \in Statement
  BY <1>6 DEF Statement
<1>8. stmt' \in [Backends -> Statement] /\ stmt'[b] = t
  BY <1>5, <1>7 DEF Types
<1> QED BY <1>1, <1>2, <1>3, <1>6, <1>8 DEF Creating, Same, rows

\* The statement after index_node_insert.
LEMMA IndexNodeIs ==
    ASSUME Types, Statements, NEW b \in Backends, IndexNode(b)
    PROVE  /\ stmt' \in [Backends -> Statement] /\ Same(b)
           /\ Creating(b) /\ stmt[b].pc = "index" /\ LabelKnown(b) /\ stmt[b].id \in Ids /\ stmt[b].n \in Nodes
           /\ Creating(b)' /\ stmt'[b].pc = (IF stmt[b].api = "cypher" THEN "check" ELSE "flush")
           /\ stmt'[b].n = stmt[b].n /\ stmt'[b].v = stmt[b].v /\ stmt'[b].rows = stmt[b].rows
<1> DEFINE s == stmt[b]
           pc_ == IF s.api = "cypher" THEN "check" ELSE "flush"
           t == [s EXCEPT !.pc = pc_]
<1>1. s \in Creates /\ s.pc = "index"
  BY AtIs DEF IndexNode, At, Creating
<1>2. LabelKnown(b) /\ s.id \in Ids /\ s.n \in Nodes
  BY <1>1 DEF LabelKnown, Creating, Statements, Resolving
<1>3. stmt' = [stmt EXCEPT ![b] = t] /\ pc_ \in {"check", "flush"}
  BY DEF IndexNode, Step
<1> HIDE DEF pc_
<1>4. t \in Creates /\ t.l = s.l /\ t.id = s.id /\ t.todo = s.todo /\ t.pc = pc_ /\ t.n = s.n
      /\ t.v = s.v /\ t.rows = s.rows
  BY <1>1, <1>3 DEF Creates
<1> HIDE DEF t
<1>5. stmt' \in [Backends -> Statement] /\ stmt'[b] = t
  BY <1>3, <1>4 DEF Types, Statement
<1> QED BY <1>1, <1>2, <1>4, <1>5 DEF Creating, Same, pc_

\* The statement after its UNIQUE check.
LEMMA CheckIs ==
    ASSUME Types, Statements, NEW b \in Backends, CheckUnique(b)
    PROVE  /\ stmt' \in [Backends -> Statement] /\ Same(b)
           /\ Creating(b) /\ stmt[b].pc = "check" /\ LabelKnown(b) /\ stmt[b].id \in Ids /\ stmt[b].n \in Nodes
           /\ Creating(b)' /\ stmt'[b].pc = "flush" /\ stmt'[b].rows = stmt[b].rows
<1> DEFINE s == stmt[b]
           t == [s EXCEPT !.pc = "flush"]
<1>1. s \in Creates /\ s.pc = "check"
  BY AtIs DEF CheckUnique, At, Creating
<1>2. LabelKnown(b) /\ s.id \in Ids /\ s.n \in Nodes
  BY <1>1 DEF LabelKnown, Creating, Statements, Resolving
<1>3. stmt' = [stmt EXCEPT ![b] = t]
  BY DEF CheckUnique, Step
<1>4. t \in Creates /\ t.l = s.l /\ t.id = s.id /\ t.todo = s.todo /\ t.pc = "flush" /\ t.rows = s.rows
  BY <1>1 DEF Creates
<1> HIDE DEF t
<1>5. stmt' \in [Backends -> Statement] /\ stmt'[b] = t
  BY <1>3, <1>4 DEF Types, Statement
<1> QED BY <1>1, <1>2, <1>4, <1>5 DEF Creating, Same

\* The statement at the next row of its CREATE.
LEMMA NextRowIs ==
    ASSUME Types, Statements, NEW b \in Backends, NEW l \in Labels, NEW v \in Values \cup {NoVal}, NextRow(b, l, v)
    PROVE  /\ stmt' \in [Backends -> Statement]
           /\ Creating(b) /\ stmt[b].pc = "flush"
           /\ Creating(b)' /\ stmt'[b].pc = "ensure" /\ stmt'[b].l = l /\ stmt'[b].rows = stmt[b].rows
           /\ stmt'[b].todo \in {<<l>>, <<l, Key>>}
<1> DEFINE s == stmt[b]
           todo == NamesOf(l, v)
           t == [s EXCEPT !.pc = "ensure", !.l = l, !.v = v, !.todo = todo, !.n = 0]
<1>1. s \in Creates /\ s.pc = "flush"
  BY AtIs DEF NextRow, At, Creating
<1>2. stmt' = [stmt EXCEPT ![b] = t] /\ todo \in {<<l>>, <<l, Key>>} /\ todo \in Todos
  BY DEF NextRow, Step, NamesOf, Todos
<1> HIDE DEF todo
<1>a. 0 \in 0..MaxNode
  OBVIOUS
<1>3. t \in Creates /\ t.l = l /\ t.todo = todo /\ t.pc = "ensure" /\ t.rows = s.rows
  BY <1>1, <1>2, <1>a DEF Creates
<1> HIDE DEF t
<1>4. stmt' \in [Backends -> Statement] /\ stmt'[b] = t
  BY <1>2, <1>3 DEF Types, Statement
<1> QED BY <1>1, <1>2, <1>3, <1>4 DEF Creating

\* A CREATE as it starts.
LEMMA StartCreateIs ==
    ASSUME Types, Statements, NEW b \in Backends, NEW api \in Apis, NEW l \in Labels,
           NEW v \in Values \cup {NoVal}, StartCreate(b, api, l, v)
    PROVE  /\ stmt' \in [Backends -> Statement] /\ stmt[b] = Idle /\ open'[b]
           /\ Creating(b)' /\ stmt'[b].pc = "ensure" /\ stmt'[b].l = l /\ stmt'[b].rows = {}
           /\ stmt'[b].todo \in {<<l>>, <<l, Key>>}
<1> DEFINE todo == NamesOf(l, v)
           t == [pc |-> "ensure", kind |-> "create", api |-> api, l |-> l, v |-> v,
                 todo |-> todo, id |-> 0, n |-> 0, rows |-> {}]
<1>1. stmt' = [stmt EXCEPT ![b] = t] /\ todo \in {<<l>>, <<l, Key>>} /\ todo \in Todos /\ stmt[b] = Idle /\ open'[b]
  BY DEF StartCreate, Start, NamesOf, Todos, Types
<1> HIDE DEF todo
<1>a. 0 \in 0..MaxName /\ 0 \in 0..MaxNode /\ {} \in SUBSET (Ids \X Nodes)
  OBVIOUS
<1>b. t \in Creates
  BY <1>1, <1>a DEF Creates
<1>2. t \in Creates /\ t.l = l /\ t.todo = todo /\ t.pc = "ensure" /\ t.rows = {}
  BY <1>b
<1> HIDE DEF t
<1>3. stmt' \in [Backends -> Statement] /\ stmt'[b] = t
  BY <1>1, <1>2 DEF Types, Statement
<1> QED BY <1>1, <1>2, <1>3 DEF Creating

\* A CREATE INDEX as it starts.
LEMMA StartIndexIs ==
    ASSUME Types, Statements, NEW b \in Backends, NEW api \in Apis, NEW l \in Labels, StartIndex(b, api, l)
    PROVE  /\ stmt' \in [Backends -> Statement] /\ stmt[b] = Idle /\ open'[b]
           /\ Indexing(b)' /\ stmt'[b].pc = "upsert" /\ stmt'[b].l = l /\ stmt'[b].todo = <<l, Key>>
           /\ stmt'[b].snap = StoredIn(db)
<1> DEFINE snap == StoredIn(db)
           t == [pc |-> "upsert", kind |-> "index", api |-> api, l |-> l,
                 todo |-> <<l, Key>>, id |-> 0, snap |-> snap]
<1>1. stmt' = [stmt EXCEPT ![b] = t] /\ stmt[b] = Idle /\ open'[b] /\ snap \subseteq StoredIn(Row) /\ <<l, Key>> \in Todos
  BY DEF StartIndex, Start, StoredIn, Types, Todos
<1> HIDE DEF snap
<1>2. t \in Indexes /\ t.l = l /\ t.todo = <<l, Key>> /\ t.pc = "upsert" /\ t.snap = snap
  BY <1>1 DEF Indexes
<1> HIDE DEF t
<1>3. stmt' \in [Backends -> Statement] /\ stmt'[b] = t
  BY <1>1, <1>2 DEF Types, Statement
<1> QED BY <1>1, <1>2, <1>3 DEF Indexing, snap

\* A CREATE INDEX after its upsert, and after it has removed old entries.
LEMMA IndexStepIs ==
    ASSUME Types, Statements, NEW b \in Backends, IndexUpsert(b) \/ IndexClean(b)
    PROVE  /\ stmt' \in [Backends -> Statement] /\ Same(b)
           /\ Indexing(b) /\ Indexing(b)' /\ stmt'[b].snap = stmt[b].snap
           /\ IndexUpsert(b) => stmt[b].pc = "upsert" /\ stmt'[b].pc = "ensure"
           /\ IndexClean(b) => stmt[b].pc = "clean" /\ stmt'[b].pc = "fill" /\ LabelKnown(b) /\ stmt[b].id \in Ids
<1> DEFINE s == stmt[b]
           pc_ == IF s.pc = "upsert" THEN "ensure" ELSE "fill"
           t == [s EXCEPT !.pc = pc_]
<1>1. s \in Indexes /\ (IndexUpsert(b) => s.pc = "upsert") /\ (IndexClean(b) => s.pc = "clean")
  BY AtIs DEF IndexUpsert, IndexClean, At, Indexing
<1>2. IndexClean(b) => LabelKnown(b) /\ s.id \in Ids
  BY <1>1 DEF LabelKnown, Indexing, Statements, Resolving
<1>3. stmt' = [stmt EXCEPT ![b] = t] /\ pc_ \in {"ensure", "fill"}
  BY <1>1 DEF IndexUpsert, IndexClean, Step
<1>4. (IndexUpsert(b) => pc_ = "ensure") /\ (IndexClean(b) => pc_ = "fill")
  BY <1>1
<1> HIDE DEF pc_
<1>5. t \in Indexes /\ t.l = s.l /\ t.id = s.id /\ t.todo = s.todo /\ t.pc = pc_ /\ t.snap = s.snap
  BY <1>1, <1>3 DEF Indexes
<1> HIDE DEF t
<1>6. stmt' \in [Backends -> Statement] /\ stmt'[b] = t
  BY <1>3, <1>5 DEF Types, Statement
<1> QED BY <1>1, <1>2, <1>4, <1>5, <1>6 DEF Indexing, Same

\* These steps end a statement.
LEMMA EndsIs ==
    ASSUME Types, NEW b \in Backends,
           \/ Commit(b) \/ Abort(b) \/ CheckUniqueFails(b) \/ Flush(b) \/ IndexFill(b) \/ IndexPurge(b)
           \/ \E l \in Labels, api \in Apis : CreateConstraint(b, api, l) \/ DropConstraint(b, api, l)
    PROVE  /\ stmt' \in [Backends -> Statement] /\ stmt'[b] = Idle
           /\ ~Creating(b)' /\ ~Indexing(b)' /\ ~Dropping(b)' /\ ~LabelKnown(b)'
<1>1. stmt' = [stmt EXCEPT ![b] = Idle]
  BY DEF Commit, Abort, CheckUniqueFails, Flush, IndexFill, IndexPurge, CreateConstraint, DropConstraint,
         EndTxn, Step, Start
<1>2. stmt' \in [Backends -> Statement] /\ stmt'[b] = Idle
  BY <1>1 DEF Types, Statement
<1> QED BY <1>2, Kinds DEF Creating, Indexing, Dropping, LabelKnown

\* A DROP INDEX as it starts.
LEMMA DropIs ==
    ASSUME Types, NEW b \in Backends, NEW l \in Labels, NEW api \in Apis, StartDrop(b, api, l)
    PROVE  /\ stmt' \in [Backends -> Statement] /\ stmt[b] = Idle /\ open'[b]
           /\ Dropping(b)' /\ stmt'[b].l = l /\ ~Creating(b)' /\ ~Indexing(b)' /\ ~LabelKnown(b)'
<1> DEFINE t == [pc |-> "purge", kind |-> "drop", l |-> l]
<1>1. stmt' = [stmt EXCEPT ![b] = t] /\ t \in Drops /\ t.l = l /\ stmt[b] = Idle /\ open'[b]
  BY DEF StartDrop, Start, Drops, Types
<1> HIDE DEF t
<1>2. stmt' \in [Backends -> Statement] /\ stmt'[b] = t
  BY <1>1 DEF Types, Statement
<1> QED BY <1>1, <1>2, Kinds DEF Creating, Indexing, Dropping, LabelKnown

\* The statements keep their shape.
LEMMA ResolveIs ==
    ASSUME Types, Statements, NEW b \in Backends, NEW n \in Names, NEW i \in Ids, Resolves(b, n, i)
    PROVE  /\ stmt' \in [Backends -> Statement]
           /\ Creating(b)' <=> Creating(b)
           /\ Indexing(b)' <=> Indexing(b)
           /\ ~Dropping(b) /\ ~Dropping(b)' /\ stmt[b] # Idle
           /\ Creating(b) => stmt'[b].rows = stmt[b].rows
           /\ Indexing(b) => stmt'[b].snap = stmt[b].snap
           /\ stmt'[b].l = stmt[b].l /\ LabelKnown(b)'
           /\ \/ n = stmt[b].l /\ stmt'[b].id = i /\ (stmt'[b].pc = "ensure" => stmt'[b].todo = <<Key>>)
              \/ n = Key /\ LabelKnown(b) /\ stmt'[b].id = stmt[b].id /\ stmt'[b].pc # "ensure"
           /\ stmt'[b].pc \in {"ensure", "insert", "clean"}
<1> DEFINE t == Resolved(b, i)
<1>1. (Creating(b) \/ Indexing(b)) /\ stmt[b].pc = "ensure" /\ n = Head(stmt[b].todo) /\ Resolving(b)
  BY DEF Resolves, Statements
<1>2. /\ Creating(b) => t \in Creates
      /\ Indexing(b) => t \in Indexes /\ t.snap = stmt[b].snap
      /\ Creating(b) => t.rows = stmt[b].rows
      /\ t.l = stmt[b].l
      /\ \/ Head(stmt[b].todo) = stmt[b].l /\ t.id = i /\ (t.pc = "ensure" => t.todo = <<Key>>)
         \/ stmt[b].todo = <<Key>> /\ Head(stmt[b].todo) = Key /\ t.id = stmt[b].id /\ t.pc # "ensure"
      /\ t.pc \in {"ensure", "insert", "clean"}
  BY <1>1, ResolvedIs
<1> HIDE DEF t
<1>3. stmt' = [stmt EXCEPT ![b] = t]
  BY DEF Resolves, t
<1>4. stmt' \in [Backends -> Statement] /\ stmt'[b] = t
  BY <1>1, <1>2, <1>3 DEF Types, Statement
<1>5. /\ Creating(b)' <=> Creating(b)
      /\ Indexing(b)' <=> Indexing(b)
      /\ ~Dropping(b) /\ ~Dropping(b)' /\ stmt[b] # Idle
  BY <1>1, <1>2, <1>4, Kinds DEF Creating, Indexing, Dropping
<1>6. stmt[b].todo = <<Key>> => LabelKnown(b)
  BY <1>1 DEF LabelKnown
<1>7. t.pc = "ensure" => t.todo = <<Key>>
  BY <1>2
<1>8. LabelKnown(b)'
  BY <1>1, <1>2, <1>4, <1>5, <1>7 DEF LabelKnown
<1> QED BY <1>1, <1>2, <1>4, <1>5, <1>6, <1>8

\* Every step keeps the shape of all statements.
LEMMA StatementStep ==
    ASSUME Types, Statements, NEW b \in Backends, Run(b)
    PROVE  stmt' \in [Backends -> Statement] /\ Statements'
<1> DEFINE Ok == stmt' \in [Backends -> Statement] /\ (stmt'[b] # Idle => open'[b]) /\ Resolving(b)'
<1> DEFINE Ends == \/ Commit(b) \/ Abort(b) \/ CheckUniqueFails(b) \/ Flush(b) \/ IndexFill(b) \/ IndexPurge(b)
                   \/ \E l \in Labels, api \in Apis : CreateConstraint(b, api, l) \/ DropConstraint(b, api, l)
<1> HIDE DEF Ends
<1>a. stmt[b] # Idle /\ open' = open => (stmt'[b] # Idle => open'[b])
  BY DEF Statements
<1>1. ASSUME Ends PROVE Ok
  <2>1. stmt' \in [Backends -> Statement] /\ stmt'[b] = Idle /\ ~Creating(b)' /\ ~Indexing(b)' /\ ~LabelKnown(b)'
    BY <1>1, EndsIs DEF Ends
  <2>2. Resolving(b)'
    BY <2>1 DEF Resolving
  <2> QED BY <2>1, <2>2
<1>2. ASSUME EnsureCached(b) \/ Ensure(b) PROVE Ok
  <2>1. PICK n \in Names, i \in Ids : Resolves(b, n, i)
    BY <1>2, EnsureIs
  <2>2. open' = open /\ stmt[b] # Idle /\ stmt' \in [Backends -> Statement]
    BY <2>1, ResolveIs DEF Resolves
  <2>3. LabelKnown(b) => stmt[b].id \in Ids
    BY DEF Statements, Resolving
  <2>4. /\ (stmt'[b].pc = "ensure" => stmt'[b].todo = <<Key>>) /\ stmt'[b].id \in Ids
        /\ stmt'[b].pc \in {"ensure", "insert", "clean"}
    BY <2>1, <2>3, ResolveIs
  <2>5. Resolving(b)'
    BY <2>4 DEF Resolving
  <2> QED BY <2>2, <2>5, <1>a
<1>3. ASSUME InsertNode(b) PROVE Ok
  <2>1. open' = open
    BY <1>3 DEF InsertNode
  <2>2. Resolving(b)'
    BY <1>3, InsertIs, Kinds DEF Resolving, Same, Creating, Indexing
  <2>3. stmt[b] # Idle /\ stmt' \in [Backends -> Statement]
    BY <1>3, InsertIs, Kinds DEF Creating
  <2> QED BY <2>1, <2>2, <2>3, <1>a
<1>4. ASSUME IndexNode(b) PROVE Ok
  <2>1. open' = open
    BY <1>4 DEF IndexNode
  <2>2. Resolving(b)'
    BY <1>4, IndexNodeIs, Kinds DEF Resolving, Same, Creating, Indexing
  <2>3. stmt[b] # Idle /\ stmt' \in [Backends -> Statement]
    BY <1>4, IndexNodeIs, Kinds DEF Creating
  <2> QED BY <2>1, <2>2, <2>3, <1>a
<1>5. ASSUME CheckUnique(b) PROVE Ok
  <2>1. open' = open
    BY <1>5 DEF CheckUnique
  <2>2. Resolving(b)'
    BY <1>5, CheckIs, Kinds DEF Resolving, Same, Creating, Indexing
  <2>3. stmt[b] # Idle /\ stmt' \in [Backends -> Statement]
    BY <1>5, CheckIs, Kinds DEF Creating
  <2> QED BY <2>1, <2>2, <2>3, <1>a
<1>6. ASSUME IndexUpsert(b) \/ IndexClean(b) PROVE Ok
  <2>1. open' = open
    BY <1>6 DEF IndexUpsert, IndexClean
  <2>2. Resolving(b)'
    <3>1. CASE IndexUpsert(b)
      <4>1. stmt[b].todo = <<stmt[b].l, Key>>
        BY <3>1, IndexStepIs DEF Statements, Resolving
      <4>2. stmt'[b].todo = <<stmt'[b].l, Key>> /\ stmt'[b].pc = "ensure" /\ ~LabelKnown(b)'
        BY <3>1, <4>1, IndexStepIs, TodoIs DEF Same, LabelKnown, Indexing, Indexes
      <4> QED BY <4>2 DEF Resolving
    <3>2. CASE IndexClean(b)
      BY <3>2, IndexStepIs, Kinds DEF Resolving, Same, Creating, Indexing
    <3> QED BY <1>6, <3>1, <3>2
  <2>3. stmt[b] # Idle /\ stmt' \in [Backends -> Statement]
    BY <1>6, IndexStepIs, Kinds DEF Indexing
  <2> QED BY <2>1, <2>2, <2>3, <1>a
<1>7. ASSUME NEW l \in Labels, NEW v \in Values \cup {NoVal}, NextRow(b, l, v) PROVE Ok
  <2>1. open' = open
    BY <1>7 DEF NextRow, caches
  <2>2. ~LabelKnown(b)'
    BY <1>7, NextRowIs, TodoIs DEF LabelKnown
  <2>3. Resolving(b)'
    BY <1>7, <2>2, NextRowIs DEF Resolving
  <2>4. stmt[b] # Idle /\ stmt' \in [Backends -> Statement]
    BY <1>7, NextRowIs, Kinds DEF Creating
  <2> QED BY <2>1, <2>3, <2>4, <1>a
<1>8. ASSUME NEW l \in Labels, NEW api \in Apis, NEW v \in Values \cup {NoVal}, StartCreate(b, api, l, v) PROVE Ok
  <2>1. ~LabelKnown(b)'
    BY <1>8, StartCreateIs, TodoIs DEF LabelKnown
  <2>2. Resolving(b)'
    BY <1>8, <2>1, StartCreateIs DEF Resolving
  <2> QED BY <1>8, <2>2, StartCreateIs
<1>9. ASSUME NEW l \in Labels, NEW api \in Apis, StartIndex(b, api, l) PROVE Ok
  BY <1>9, StartIndexIs, Kinds DEF Resolving, LabelKnown, Indexing, Creating
<1>10. ASSUME NEW l \in Labels, NEW api \in Apis, StartDrop(b, api, l) PROVE Ok
  BY <1>10, DropIs DEF Resolving
<1> HIDE DEF Ok
<1>11. Ok
  BY <1>1, <1>2, <1>3, <1>4, <1>5, <1>6, <1>7, <1>8, <1>9, <1>10 DEF Run, Ends
<1>12. ASSUME NEW c \in Backends, c # b PROVE (stmt'[c] # Idle => open'[c]) /\ Resolving(c)'
  BY <1>12, Others DEF Statements, Resolving, LabelKnown, Creating, Indexing
<1> QED BY <1>11, <1>12 DEF Statements, Ok

\* What a CREATE INDEX enters: the values of the nodes with a row for the label's
\* id, out of its snapshot and its own nodes.
Filled(b) ==
    {<<"value", stmt[b].id, r[4], r[2]>> :
        r \in {q \in stmt[b].snap \cup StoredIn(added[b]) :
                 <<"label", stmt[b].id, q[2]>> \in View(b) /\ q[4] # NoVal}}

\* What the backfill of a CREATE INDEX inserts.
LEMMA FillIs ==
    ASSUME Types, Statements, NEW b \in Backends, IndexFill(b)
    PROVE  /\ Indexing(b) /\ stmt[b].pc = "fill" /\ LabelKnown(b) /\ stmt[b].id \in Ids
           /\ added' = [added EXCEPT ![b] = @ \cup Filled(b)]
           /\ Filled(b) \subseteq Row
           /\ \A r \in Filled(b) : \E i \in Ids, v \in Values, n \in Nodes :
                 /\ r = <<"value", stmt[b].id, v, n>> /\ <<"label", stmt[b].id, n>> \in View(b)
                 /\ Node(stmt[b].snap \cup added[b], n, i, v)
           /\ \A i \in Ids, v \in Values, n \in Nodes :
                 <<"label", stmt[b].id, n>> \in View(b) /\ Node(stmt[b].snap \cup added[b], n, i, v) =>
                    <<"value", stmt[b].id, v, n>> \in Filled(b)
<1> DEFINE id == stmt[b].id
           snap == stmt[b].snap
           nodes == {r[3] : r \in {q \in View(b) : q[1] = "label" /\ q[2] = id}}
           found == {r \in snap \union StoredIn(added[b]) : r[2] \in nodes /\ r[4] # NoVal}
           seen == {q \in snap \cup StoredIn(added[b]) : <<"label", id, q[2]>> \in View(b) /\ q[4] # NoVal}
<1>1. Indexing(b) /\ stmt[b].pc = "fill" /\ stmt[b] \in Indexes
  BY AtIs DEF IndexFill, Indexing, At
<1>2. LabelKnown(b) /\ id \in Ids /\ snap \subseteq StoredIn(Row)
  BY <1>1 DEF Statements, Resolving, LabelKnown, Indexing, Indexes
<1>3. added' = [added EXCEPT ![b] = @ \cup {<<"value", id, r[4], r[2]>> : r \in found}]
  BY DEF IndexFill, Put
<1>4. View(b) \subseteq Row /\ added[b] \subseteq Row
  BY ViewIs
<1> HIDE DEF id, snap
<1>5. \A n : n \in nodes <=> <<"label", id, n>> \in View(b)
  <2>1. \A r \in View(b) : r[1] = "label" /\ r[2] = id => r = <<"label", id, r[3]>>
    BY <1>4, RowIs
  <2> QED BY <2>1
<1> HIDE DEF nodes
<1>6. found = seen
  BY <1>5
<1>7. Filled(b) = {<<"value", id, r[4], r[2]>> : r \in seen}
  BY DEF Filled, id, snap
<1>8. \A r \in seen : /\ r = <<"node", r[2], r[3], r[4]>> /\ r[2] \in Nodes /\ r[3] \in Ids /\ r[4] \in Values
                      /\ r \in snap \cup added[b] /\ <<"label", id, r[2]>> \in View(b)
  <2>1. seen \subseteq StoredIn(Row)
    BY <1>2, <1>4 DEF StoredIn
  <2> QED BY <2>1, RowIs DEF StoredIn
<1>9. \A i \in Ids, v \in Values, n \in Nodes :
         <<"label", id, n>> \in View(b) /\ Node(snap \cup added[b], n, i, v) => <<"node", n, i, v>> \in seen
  BY DEF StoredIn, Node
<1> HIDE DEF seen, found
<1>10. \A i \in Ids, v \in Values, n \in Nodes :
         <<"label", id, n>> \in View(b) /\ Node(snap \cup added[b], n, i, v) => <<"value", id, v, n>> \in Filled(b)
  <2> TAKE i \in Ids, v \in Values, n \in Nodes
  <2> HAVE <<"label", id, n>> \in View(b) /\ Node(snap \cup added[b], n, i, v)
  <2> DEFINE r == <<"node", n, i, v>>
  <2>1. r \in seen /\ r[4] = v /\ r[2] = n
    BY <1>9
  <2> HIDE DEF r
  <2> QED BY <1>7, <2>1
<1>11. \A r \in Filled(b) : \E i \in Ids, v \in Values, n \in Nodes :
          /\ r = <<"value", id, v, n>> /\ <<"label", id, n>> \in View(b)
          /\ Node(snap \cup added[b], n, i, v)
  <2> TAKE r \in Filled(b)
  <2>1. PICK q \in seen : r = <<"value", id, q[4], q[2]>>
    BY <1>7
  <2>2. /\ q = <<"node", q[2], q[3], q[4]>> /\ q[2] \in Nodes /\ q[3] \in Ids /\ q[4] \in Values
        /\ q \in snap \cup added[b] /\ <<"label", id, q[2]>> \in View(b)
    BY <1>8
  <2>3. Node(snap \cup added[b], q[2], q[3], q[4])
    BY <2>2 DEF Node
  <2> QED BY <2>1, <2>2, <2>3
<1>12. Filled(b) \subseteq Row
  <2>1. \A v \in Values, n \in Nodes : <<"value", id, v, n>> \in Row
    BY <1>2 DEF Row
  <2>2. ASSUME NEW r \in Filled(b) PROVE r \in Row
    <3>1. PICK v \in Values, n \in Nodes : r = <<"value", id, v, n>>
      BY <1>11
    <3> QED BY <2>1, <3>1
  <2> QED BY <2>2
<1> QED BY <1>1, <1>2, <1>3, <1>6, <1>7, <1>10, <1>11, <1>12 DEF id, snap

\* Rows put are rows of the tables.
LEMMA TypesStep ==
    ASSUME Types, Statements, NEW b \in Backends, Run(b)
    PROVE  Types'
<1>1. stmt' \in [Backends -> Statement]
  BY StatementStep
<1> DEFINE Lockable == Names \cup ({"index", "unique"} \X Labels)
<1>2. /\ db \in SUBSET Row /\ added \in [Backends -> SUBSET Row] /\ removed \in [Backends -> SUBSET Row]
      /\ locks \subseteq Lockable \X Backends
      /\ open \in [Backends -> BOOLEAN] /\ idCache \in [Backends -> [Names -> 0..MaxName]]
      /\ ixCache \in [Backends -> [Labels -> {"none", "yes", "no"}]]
      /\ nameSeq \in 0..MaxName /\ nodeSeq \in 0..MaxNode
  BY DEF Types
<1>3. \A rows \in SUBSET Row : Put(b, rows) => added' \in [Backends -> SUBSET Row]
  BY <1>2 DEF Put
<1>4. \A rows : Delete(b, rows) => added' \in [Backends -> SUBSET Row] /\ removed' \in [Backends -> SUBSET Row]
  BY <1>2 DEF Delete
<1>5. \A k \in Lockable : Lock(b, k) => locks' \subseteq Lockable \X Backends
  BY <1>2 DEF Lock
<1>6. \A l \in Labels : /\ <<"index", l>> \in Row /\ <<"unique", l>> \in Row
                        /\ <<"index", l>> \in Lockable /\ <<"unique", l>> \in Lockable
  BY DEF Row
<1>7. EndTxn(b) => /\ added' \in [Backends -> SUBSET Row] /\ removed' \in [Backends -> SUBSET Row]
                   /\ locks' \subseteq Lockable \X Backends /\ open' \in [Backends -> BOOLEAN]
  BY <1>2 DEF EndTxn
<1>8. \A api : ClearCaches(b, api) => /\ idCache' \in [Backends -> [Names -> 0..MaxName]]
                                      /\ ixCache' \in [Backends -> [Labels -> {"none", "yes", "no"}]]
  <2>1. 0 \in 0..MaxName
    OBVIOUS
  <2>2. [n \in Names |-> 0] \in [Names -> 0..MaxName] /\ [l \in Labels |-> "none"] \in [Labels -> {"none", "yes", "no"}]
    BY <2>1
  <2>3. ASSUME NEW api, ClearCaches(b, api)
        PROVE  /\ idCache' = idCache \/ idCache' = [idCache EXCEPT ![b] = [n \in Names |-> 0]]
               /\ ixCache' = ixCache \/ ixCache' = [ixCache EXCEPT ![b] = [l \in Labels |-> "none"]]
    BY <2>3 DEF ClearCaches, caches
  <2> HIDE DEF ClearCaches
  <2>4. [idCache EXCEPT ![b] = [n \in Names |-> 0]] \in [Backends -> [Names -> 0..MaxName]]
    BY <1>2, <2>2
  <2>5. [ixCache EXCEPT ![b] = [l \in Labels |-> "none"]] \in [Backends -> [Labels -> {"none", "yes", "no"}]]
    BY <1>2, <2>2
  <2> QED BY <1>2, <2>3, <2>4, <2>5
<1>9. \A s : Start(b, s) => open' \in [Backends -> BOOLEAN]
  BY <1>2 DEF Start
<1> HIDE DEF Lockable
<1>10. CASE Commit(b) \/ Abort(b) \/ CheckUniqueFails(b)
  <2>1. db' \in SUBSET Row /\ UNCHANGED <<caches, ids>> /\ EndTxn(b)
    BY <1>2, <1>10 DEF Commit, Abort, CheckUniqueFails
  <2> QED BY <1>1, <1>2, <1>7, <2>1 DEF Types, caches, ids, Lockable
<1>11. CASE EnsureCached(b) \/ Ensure(b)
  <2>1. PICK n \in Names, i \in Ids : Resolves(b, n, i)
    BY <1>11, EnsureIs
  <2>2. UNCHANGED <<db, removed, open, ixCache, nodeSeq>> /\ (Cached(b, n, i) \/ Upserts(b, n, i))
    BY <2>1 DEF Resolves
  <2>3. CASE Cached(b, n, i)
    BY <1>1, <1>2, <2>2, <2>3 DEF Cached, Types, Lockable
  <2>4. CASE Upserts(b, n, i)
    <3>1. <<"name", n, i>> \in Row /\ i \in 0..MaxName /\ n \in Lockable
      BY DEF Row, Ids, Lockable
    <3>2. added' \in [Backends -> SUBSET Row] /\ idCache' \in [Backends -> [Names -> 0..MaxName]]
      BY <1>2, <2>4, <3>1 DEF Upserts
    <3>3. nameSeq' \in 0..MaxName /\ locks' \subseteq Lockable \X Backends
      BY <1>2, <1>5, <2>4, <3>1 DEF Upserts
    <3> QED BY <1>1, <1>2, <2>2, <3>2, <3>3 DEF Types, Lockable
  <2> QED BY <2>2, <2>3, <2>4
<1>12. CASE InsertNode(b)
  <2>1. stmt[b].id \in Ids /\ stmt[b] \in Creates /\ nodeSeq + 1 \in Nodes
    BY <1>12, InsertIs DEF Creating
  <2> DEFINE rows == {<<"node", nodeSeq + 1, stmt[b].id, stmt[b].v>>}
                     \cup IF stmt[b].api = "sql" THEN {<<"label", stmt[b].id, nodeSeq + 1>>} ELSE {}
  <2>2. rows \in SUBSET Row
    BY <2>1 DEF Creates, Row
  <2>3. Put(b, rows) /\ nodeSeq' = nodeSeq + 1 /\ UNCHANGED <<db, removed, locks, open, caches, nameSeq>>
    BY <1>12 DEF InsertNode
  <2> HIDE DEF rows
  <2>4. nodeSeq' \in 0..MaxNode
    BY <2>1, <2>3 DEF Nodes
  <2> QED BY <1>1, <1>2, <1>3, <2>2, <2>3, <2>4 DEF Types, Lockable, caches
<1>13. CASE IndexNode(b)
  <2>1. stmt[b].id \in Ids /\ stmt[b] \in Creates /\ stmt[b].n \in Nodes
    BY <1>13, IndexNodeIs DEF Creating
  <2> DEFINE rows == IF Indexed(b, stmt[b].l) /\ stmt[b].v # NoVal
                     THEN {<<"value", stmt[b].id, stmt[b].v, stmt[b].n>>} ELSE {}
  <2>2. rows \in SUBSET Row
    BY <2>1 DEF Creates, Row
  <2> DEFINE how == IF Indexed(b, stmt[b].l) THEN "yes" ELSE "no"
  <2>3. Put(b, rows) /\ ixCache' = [ixCache EXCEPT ![b][stmt[b].l] = how]
        /\ UNCHANGED <<db, removed, locks, open, idCache, ids>>
    BY <1>13 DEF IndexNode
  <2>4. how \in {"none", "yes", "no"}
    OBVIOUS
  <2> HIDE DEF rows, how
  <2>5. ixCache' \in [Backends -> [Labels -> {"none", "yes", "no"}]]
    BY <1>2, <2>3, <2>4
  <2> QED BY <1>1, <1>2, <1>3, <2>2, <2>3, <2>5 DEF Types, Lockable, ids
<1>14. CASE CheckUnique(b) \/ \E l \in Labels, v \in Values \cup {NoVal} : NextRow(b, l, v)
  <2>1. UNCHANGED <<db, added, removed, locks, open, idCache, ixCache, nameSeq, nodeSeq>>
    <3>1. CheckUnique(b) => UNCHANGED <<db, added, removed, locks, open, idCache, ixCache, nameSeq, nodeSeq>>
      BY DEF CheckUnique, tables, caches, ids
    <3>2. ASSUME NEW l \in Labels, NEW v \in Values \cup {NoVal}, NextRow(b, l, v)
          PROVE  UNCHANGED <<db, added, removed, locks, open, idCache, ixCache, nameSeq, nodeSeq>>
      BY <3>2 DEF NextRow, tables, caches, ids
    <3> QED BY <1>14, <3>1, <3>2
  <2> QED BY <1>1, <1>2, <2>1 DEF Types, Lockable
<1>15. CASE Flush(b)
  <2>1. stmt[b] \in Creates
    BY <1>15, AtIs DEF Flush, Creating
  <2> DEFINE rows == {<<"label", r[1], r[2]>> : r \in stmt[b].rows}
  <2>2. rows \in SUBSET Row
    BY <2>1 DEF Creates, Row
  <2>3. Put(b, rows) /\ UNCHANGED <<db, removed, locks, open, caches, ids>>
    BY <1>15 DEF Flush
  <2> HIDE DEF rows
  <2> QED BY <1>1, <1>2, <1>3, <2>2, <2>3 DEF Types, Lockable, caches, ids
<1>16. CASE IndexUpsert(b)
  <2>1. stmt[b] \in Indexes
    BY <1>16, IndexStepIs DEF Indexing
  <2> DEFINE row == <<"index", stmt[b].l>>
  <2>a. stmt[b].l \in Labels
    BY <2>1 DEF Indexes
  <2>2. {row} \ (db \ removed[b]) \in SUBSET Row /\ row \in Lockable
    BY <1>6, <2>a
  <2>3. Lock(b, row) /\ Put(b, {row} \ (db \ removed[b])) /\ UNCHANGED <<db, removed, open, caches, ids>>
    BY <1>16 DEF IndexUpsert
  <2> HIDE DEF row
  <2> QED BY <1>1, <1>2, <1>3, <1>5, <2>2, <2>3 DEF Types, Lockable, caches, ids
<1>17. CASE IndexClean(b) \/ IndexPurge(b)
  <2>1. UNCHANGED <<db, locks, open, caches, ids>> /\ \E rows : Delete(b, rows)
    BY <1>17 DEF IndexClean, IndexPurge
  <2> QED BY <1>1, <1>2, <1>4, <2>1 DEF Types, Lockable, caches, ids
<1>18. CASE IndexFill(b)
  <2>1. Put(b, Filled(b)) /\ Filled(b) \in SUBSET Row
    BY <1>18, FillIs DEF Put
  <2>2. UNCHANGED <<db, removed, locks, open, caches, ids>>
    BY <1>18 DEF IndexFill
  <2> QED BY <1>1, <1>2, <1>3, <2>1, <2>2 DEF Types, Lockable, caches, ids
<1>19. ASSUME NEW l \in Labels, NEW api \in Apis, NEW v \in Values \cup {NoVal}, StartCreate(b, api, l, v)
       PROVE  Types'
  <2>1. UNCHANGED <<tables, ids>> /\ ClearCaches(b, api) /\ \E s : Start(b, s)
    BY <1>19 DEF StartCreate
  <2> QED BY <1>1, <1>2, <1>8, <1>9, <2>1 DEF Types, Lockable, tables, ids
<1>20. ASSUME NEW l \in Labels, NEW api \in Apis, StartIndex(b, api, l) PROVE Types'
  <2>1. UNCHANGED <<tables, ids>> /\ ClearCaches(b, api) /\ \E s : Start(b, s)
    BY <1>20 DEF StartIndex
  <2> QED BY <1>1, <1>2, <1>8, <1>9, <2>1 DEF Types, Lockable, tables, ids
<1>21. ASSUME NEW l \in Labels, NEW api \in Apis, StartDrop(b, api, l) PROVE Types'
  <2>1. UNCHANGED <<db, ids>> /\ ClearCaches(b, api) /\ (\E s : Start(b, s)) /\ Lock(b, <<"index", l>>)
        /\ \E rows : Delete(b, rows)
    BY <1>21 DEF StartDrop
  <2> QED BY <1>1, <1>2, <1>4, <1>5, <1>6, <1>8, <1>9, <2>1 DEF Types, Lockable, ids
<1>22. ASSUME NEW l \in Labels, NEW api \in Apis, CreateConstraint(b, api, l) PROVE Types'
  <2>1. UNCHANGED <<db, removed, ids>> /\ ClearCaches(b, api) /\ (\E s : Start(b, s)) /\ Lock(b, <<"unique", l>>)
        /\ Put(b, {<<"unique", l>>}) /\ {<<"unique", l>>} \in SUBSET Row
    BY <1>6, <1>22 DEF CreateConstraint
  <2> QED BY <1>1, <1>2, <1>3, <1>5, <1>6, <1>8, <1>9, <2>1 DEF Types, Lockable, ids
<1>23. ASSUME NEW l \in Labels, NEW api \in Apis, DropConstraint(b, api, l) PROVE Types'
  <2>1. UNCHANGED <<db, ids>> /\ ClearCaches(b, api) /\ (\E s : Start(b, s)) /\ Lock(b, <<"unique", l>>)
        /\ \E rows : Delete(b, rows)
    BY <1>23 DEF DropConstraint
  <2> QED BY <1>1, <1>2, <1>4, <1>5, <1>6, <1>8, <1>9, <2>1 DEF Types, Lockable, ids
<1> QED BY <1>10, <1>11, <1>12, <1>13, <1>14, <1>15, <1>16, <1>17, <1>18, <1>19, <1>20, <1>21, <1>22, <1>23 DEF Run

(* Locks *)

\* Locks are taken one at a time, and given back at the end of the transaction.
Ends(b) == Commit(b) \/ Abort(b) \/ CheckUniqueFails(b)

\* A step releases all locks of its transaction, changes none, or takes one.
LEMMA LockCases ==
    ASSUME Types, Statements, NEW b \in Backends, Run(b)
    PROVE  \/ Ends(b)
           \/ UNCHANGED locks
           \/ \E k : Lock(b, k)
<1>1. CASE Ends(b)
  BY <1>1
<1>2. CASE EnsureCached(b) \/ Ensure(b)
  BY <1>2, EnsureIs DEF Resolves, Cached, Upserts
<1>3. CASE InsertNode(b) \/ IndexNode(b) \/ CheckUnique(b) \/ Flush(b)
  BY <1>3 DEF InsertNode, IndexNode, CheckUnique, Flush, tables
<1>4. CASE IndexUpsert(b)
  BY <1>4 DEF IndexUpsert
<1>5. CASE IndexClean(b) \/ IndexFill(b) \/ IndexPurge(b)
  BY <1>5 DEF IndexClean, IndexFill, IndexPurge
<1>6. ASSUME NEW l \in Labels, NEW v \in Values \cup {NoVal}, NextRow(b, l, v) PROVE UNCHANGED locks
  BY <1>6 DEF NextRow, tables
<1>7. ASSUME NEW l \in Labels, NEW api \in Apis, NEW v \in Values \cup {NoVal}, StartCreate(b, api, l, v)
      PROVE  UNCHANGED locks
  BY <1>7 DEF StartCreate, tables
<1>8. ASSUME NEW l \in Labels, NEW api \in Apis, StartIndex(b, api, l) PROVE UNCHANGED locks
  BY <1>8 DEF StartIndex, tables
<1>9. ASSUME NEW l \in Labels, NEW api \in Apis,
             StartDrop(b, api, l) \/ CreateConstraint(b, api, l) \/ DropConstraint(b, api, l)
      PROVE  \E k : Lock(b, k)
  BY <1>9 DEF StartDrop, CreateConstraint, DropConstraint
<1> QED BY <1>1, <1>2, <1>3, <1>4, <1>5, <1>6, <1>7, <1>8, <1>9 DEF Run, Ends

\* What is left of a transaction after its end.
LEMMA EndLocks ==
    ASSUME Types, NEW b \in Backends, Ends(b)
    PROVE  /\ locks' = {k \in locks : k[2] # b} /\ added'[b] = {} /\ removed'[b] = {}
           /\ UNCHANGED <<caches, ids>>
           /\ \A k : ~Has(b, k)'
BY DEF Ends, Commit, Abort, CheckUniqueFails, EndTxn, Types, Has

\* Nothing but the end of a transaction releases its locks.
LEMMA LocksKept ==
    ASSUME Types, Statements, NEW b \in Backends, Run(b), ~Ends(b)
    PROVE  /\ locks \subseteq locks'
           /\ \A c \in Backends : \A k : Has(c, k) => Has(c, k)'
BY LockCases DEF Lock, Has

\* Row locks keep excluding each other, and builders of an index keep theirs.
LEMMA LockingStep ==
    ASSUME Types, Statements, Locking, NEW b \in Backends, Run(b)
    PROVE  Locking'
<1>1. \A x, y \in locks' : x[1] = y[1] => x = y
  <2>1. CASE Ends(b)
    BY <2>1, EndLocks DEF Locking
  <2>2. CASE UNCHANGED locks
    BY <2>2 DEF Locking
  <2>3. ASSUME NEW k, Lock(b, k) PROVE \A x, y \in locks' : x[1] = y[1] => x = y
    <3>1. locks' = locks \cup {<<k, b>>} /\ \A c \in Backends \ {b} : <<k, c>> \notin locks
      BY <2>3 DEF Lock, Free
    <3>2. \A x \in locks : x = <<x[1], x[2]>> /\ x[2] \in Backends
      BY DEF Types
    <3>3. \A x \in locks : x[1] = k => x = <<k, b>>
      BY <3>1, <3>2
    <3> QED BY <3>1, <3>3 DEF Locking
  <2> QED BY <2>1, <2>2, <2>3, LockCases
<1> DEFINE Held(c) == /\ Indexing(c) /\ stmt[c].pc # "upsert" => Has(c, <<"index", stmt[c].l>>)
                      /\ Dropping(c) => Has(c, <<"index", stmt[c].l>>)
<1>2. \A c \in Backends : Held(c)
  BY DEF Locking
<1>3. ASSUME NEW c \in Backends, c # b PROVE Held(c)'
  BY <1>2, <1>3, Others DEF Indexing, Dropping
<1>4. Held(b)'
  <2> DEFINE End == \/ Commit(b) \/ Abort(b) \/ CheckUniqueFails(b) \/ Flush(b) \/ IndexFill(b) \/ IndexPurge(b)
                    \/ \E l \in Labels, api \in Apis : CreateConstraint(b, api, l) \/ DropConstraint(b, api, l)
  <2>1. ASSUME End PROVE Held(b)'
    BY <2>1, EndsIs
  <2> HIDE DEF End
  <2>2. ASSUME EnsureCached(b) \/ Ensure(b) PROVE Held(b)'
    <3>1. PICK n \in Names, i \in Ids : Resolves(b, n, i)
      BY <2>2, EnsureIs
    <3>2. ~Ends(b)
      BY <3>1, ResolveIs, EndsIs DEF Ends
    <3>3. Indexing(b) => Has(b, <<"index", stmt[b].l>>)
      BY <1>2, <3>1 DEF Resolves
    <3> QED BY <3>1, <3>2, <3>3, ResolveIs, LocksKept
  <2>3. ASSUME InsertNode(b) \/ IndexNode(b) \/ CheckUnique(b) PROVE Held(b)'
    BY <2>3, InsertIs, IndexNodeIs, CheckIs, Kinds DEF Creating, Indexing, Dropping
  <2>4. ASSUME IndexUpsert(b) PROVE Held(b)'
    BY <2>4, IndexStepIs, Kinds DEF IndexUpsert, Indexing, Dropping, Lock, Has, Same
  <2>5. ASSUME IndexClean(b) PROVE Held(b)'
    <3>1. UNCHANGED locks /\ stmt[b].pc # "upsert" /\ Indexing(b) /\ stmt'[b].l = stmt[b].l /\ ~Dropping(b)'
      BY <2>5, IndexStepIs, Kinds DEF IndexClean, Same, Indexing, Dropping
    <3> QED BY <1>2, <3>1 DEF Has
  <2>6. ASSUME NEW l \in Labels, NEW v \in Values \cup {NoVal}, NextRow(b, l, v) PROVE Held(b)'
    BY <2>6, NextRowIs, Kinds DEF Creating, Indexing, Dropping
  <2>7. ASSUME NEW l \in Labels, NEW api \in Apis, NEW v \in Values \cup {NoVal}, StartCreate(b, api, l, v)
        PROVE  Held(b)'
    BY <2>7, StartCreateIs, Kinds DEF Creating, Indexing, Dropping
  <2>8. ASSUME NEW l \in Labels, NEW api \in Apis, StartIndex(b, api, l) PROVE Held(b)'
    BY <2>8, StartIndexIs, Kinds DEF Indexing, Dropping
  <2>9. ASSUME NEW l \in Labels, NEW api \in Apis, StartDrop(b, api, l) PROVE Held(b)'
    BY <2>9, DropIs DEF StartDrop, Lock, Has
  <2> HIDE DEF Held
  <2> QED BY <2>1, <2>2, <2>3, <2>4, <2>5, <2>6, <2>7, <2>8, <2>9 DEF Run, End
<1> QED BY <1>1, <1>3, <1>4 DEF Locking

(* Rows *)

\* The rows a step adds: which action, and to which table.
LEMMA AddedIs ==
    ASSUME Types, Statements, NEW b \in Backends, Run(b), NEW r \in added'[b], r \notin added[b]
    PROVE  \/ (\E n \in Names, i \in Ids : Resolves(b, n, i) /\ Upserts(b, n, i) /\ r = <<"name", n, i>>)
           \/ InsertNode(b) /\ (\/ r = <<"node", nodeSeq + 1, stmt[b].id, stmt[b].v>>
                                \/ stmt[b].api = "sql" /\ r = <<"label", stmt[b].id, nodeSeq + 1>>)
           \/ IndexNode(b) /\ r = <<"value", stmt[b].id, stmt[b].v, stmt[b].n>>
           \/ Flush(b) /\ (\E x \in stmt[b].rows : r = <<"label", x[1], x[2]>>)
           \/ IndexUpsert(b) /\ r = <<"index", stmt[b].l>>
           \/ IndexFill(b) /\ r \in Filled(b)
           \/ \E l \in Labels : r = <<"unique", l>>
<1>0. added \in [Backends -> SUBSET Row]
  BY DEF Types
<1>1. CASE Ends(b)
  BY <1>1, EndLocks
<1>2. CASE EnsureCached(b) \/ Ensure(b)
  <2>1. PICK n \in Names, i \in Ids : Resolves(b, n, i)
    BY <1>2, EnsureIs
  <2>2. Upserts(b, n, i)
    BY <2>1 DEF Resolves, Cached
  <2>3. r = <<"name", n, i>>
    BY <1>0, <2>2 DEF Upserts
  <2> QED BY <2>1, <2>2, <2>3
<1>3. CASE InsertNode(b)
  BY <1>0, <1>3 DEF InsertNode, Put
<1>4. CASE IndexNode(b)
  BY <1>0, <1>4 DEF IndexNode, Put
<1>5. CASE CheckUnique(b)
  BY <1>5 DEF CheckUnique, tables
<1>6. CASE Flush(b)
  BY <1>0, <1>6 DEF Flush, Put
<1>7. CASE IndexUpsert(b)
  BY <1>0, <1>7 DEF IndexUpsert, Put
<1>8. CASE IndexClean(b) \/ IndexPurge(b)
  BY <1>0, <1>8 DEF IndexClean, IndexPurge, Delete
<1>9. CASE IndexFill(b)
  <2>1. added' = [added EXCEPT ![b] = @ \cup Filled(b)]
    BY <1>9, FillIs
  <2>2. r \in Filled(b)
    BY <1>0, <2>1
  <2> QED BY <1>9, <2>2
<1>10. CASE \E l \in Labels, v \in Values \cup {NoVal} : NextRow(b, l, v)
  BY <1>10 DEF NextRow, tables
<1>11. CASE \E l \in Labels, api \in Apis, v \in Values \cup {NoVal} : StartCreate(b, api, l, v)
  BY <1>11 DEF StartCreate, tables
<1>12. CASE \E l \in Labels, api \in Apis : StartIndex(b, api, l)
  BY <1>12 DEF StartIndex, tables
<1>13. CASE \E l \in Labels, api \in Apis : StartDrop(b, api, l) \/ DropConstraint(b, api, l)
  BY <1>0, <1>13 DEF StartDrop, DropConstraint, Delete
<1>14. ASSUME NEW l \in Labels, NEW api \in Apis, CreateConstraint(b, api, l) PROVE r = <<"unique", l>>
  BY <1>0, <1>14 DEF CreateConstraint, Put
<1> QED BY <1>1, <1>2, <1>3, <1>4, <1>5, <1>6, <1>7, <1>8, <1>9, <1>10, <1>11, <1>12, <1>13, <1>14 DEF Run, Ends

\* The committed rows change on commit only; the rows a step deletes.
LEMMA DeletedIs ==
    ASSUME Types, Statements, NEW b \in Backends, Run(b)
    PROVE  /\ db' = db \/ Commit(b)
           /\ \A r : r \in removed[b] /\ r \notin removed'[b] => Ends(b)
           /\ \A r : (r \in removed'[b] /\ r \notin removed[b]) \/ (r \in added[b] /\ r \notin added'[b]) =>
                 \/ Ends(b)
                 \/ IndexClean(b) /\ r \in ValuesOf(b, stmt[b].id)
                 \/ IndexPurge(b) /\ \E i \in IdsOf(b, stmt[b].l) : r \in ValuesOf(b, i)
                 \/ \E l \in Labels, api \in Apis : StartDrop(b, api, l) /\ r = <<"index", l>>
                 \/ \E l \in Labels, api \in Apis : DropConstraint(b, api, l) /\ r = <<"unique", l>>
           /\ \A r : r \in removed'[b] /\ r \notin removed[b] => r \in db
<1>0. added \in [Backends -> SUBSET Row] /\ removed \in [Backends -> SUBSET Row]
  BY DEF Types
<1> DEFINE Kept == db' = db /\ removed'[b] = removed[b] /\ \A r \in added[b] : r \in added'[b]
<1> DEFINE Out(rows) == /\ db' = db
                        /\ \A r \in removed[b] : r \in removed'[b]
                        /\ \A r : (r \in removed'[b] /\ r \notin removed[b])
                                  \/ (r \in added[b] /\ r \notin added'[b]) => r \in rows
                        /\ \A r : r \in removed'[b] /\ r \notin removed[b] => r \in db
<1>1. CASE Ends(b)
  <2>1. (db' = db \/ Commit(b)) /\ removed'[b] = {}
    BY <1>1, EndLocks DEF Ends, Abort, CheckUniqueFails
  <2> QED BY <1>1, <2>1
<1>2. ASSUME EnsureCached(b) \/ Ensure(b) PROVE Kept
  <2>1. PICK n \in Names, i \in Ids : Resolves(b, n, i)
    BY <1>2, EnsureIs
  <2> QED BY <1>0, <2>1 DEF Resolves, Cached, Upserts
<1>3. ASSUME InsertNode(b) \/ Flush(b) PROVE Kept
  BY <1>0, <1>3 DEF InsertNode, Put, Flush
<1>4. ASSUME IndexNode(b) PROVE Kept
  BY <1>0, <1>4 DEF IndexNode, Put
<1>5. ASSUME CheckUnique(b) PROVE Kept
  BY <1>5 DEF CheckUnique, tables
<1>6. ASSUME IndexUpsert(b) PROVE Kept
  BY <1>0, <1>6 DEF IndexUpsert, Put
<1>7. ASSUME IndexFill(b) PROVE Kept
  BY <1>0, <1>7 DEF IndexFill, Put
<1>8. ASSUME NEW l \in Labels, NEW v \in Values \cup {NoVal}, NextRow(b, l, v) PROVE Kept
  BY <1>8 DEF NextRow, tables
<1>9. ASSUME NEW l \in Labels, NEW api \in Apis, NEW v \in Values \cup {NoVal}, StartCreate(b, api, l, v)
      PROVE  Kept
  BY <1>9 DEF StartCreate, tables
<1>10. ASSUME NEW l \in Labels, NEW api \in Apis, StartIndex(b, api, l) PROVE Kept
  BY <1>10 DEF StartIndex, tables
<1>11. ASSUME NEW l \in Labels, NEW api \in Apis, CreateConstraint(b, api, l) PROVE Kept
  BY <1>0, <1>11 DEF CreateConstraint, Put
<1>12. ASSUME NEW rows, Delete(b, rows), UNCHANGED db PROVE Out(rows)
  BY <1>0, <1>12 DEF Delete
<1>13. CASE IndexClean(b)
  <2>1. Delete(b, ValuesOf(b, stmt[b].id)) /\ UNCHANGED db
    BY <1>13 DEF IndexClean
  <2> QED BY <1>12, <1>13, <2>1
<1>14. CASE IndexPurge(b)
  <2>1. Delete(b, UNION {ValuesOf(b, i) : i \in IdsOf(b, stmt[b].l)}) /\ UNCHANGED db
    BY <1>14 DEF IndexPurge
  <2>2. Out(UNION {ValuesOf(b, i) : i \in IdsOf(b, stmt[b].l)})
    BY <1>12, <2>1
  <2> QED BY <1>14, <2>2
<1>15. ASSUME NEW l \in Labels, NEW api \in Apis, StartDrop(b, api, l) PROVE Out({<<"index", l>>})
  <2>1. Delete(b, {<<"index", l>>}) /\ UNCHANGED db
    BY <1>15 DEF StartDrop
  <2> QED BY <1>12, <2>1
<1>16. ASSUME NEW l \in Labels, NEW api \in Apis, DropConstraint(b, api, l) PROVE Out({<<"unique", l>>})
  <2>1. Delete(b, {<<"unique", l>>}) /\ UNCHANGED db
    BY <1>16 DEF DropConstraint
  <2> QED BY <1>12, <2>1
<1>17. CASE Kept
  BY <1>17
<1>18. CASE \E l \in Labels, api \in Apis : StartDrop(b, api, l)
  BY <1>15, <1>18
<1>19. CASE \E l \in Labels, api \in Apis : DropConstraint(b, api, l)
  BY <1>16, <1>19
<1> HIDE DEF Kept
<1> QED BY <1>1, <1>2, <1>3, <1>4, <1>5, <1>6, <1>7, <1>8, <1>9, <1>10, <1>11, <1>13, <1>14, <1>17, <1>18, <1>19
        DEF Run, Ends

(* Names and ids *)

\* An id is bound to a name by a step only if it was before, or if it is the next
\* of the sequence and the name the one the statement resolves.
Fresh(b, n, i) == i = nameSeq + 1 /\ nameSeq' = i /\ n = Head(stmt[b].todo)

\* The sequence of ids only grows; caches change when they are cleared or filled.
LEMMA SeqStep ==
    ASSUME Types, Statements, NEW b \in Backends, Run(b)
    PROVE  /\ nameSeq <= nameSeq'
           /\ \A n \in Names : idCache'[b][n] \in {idCache[b][n], 0} \/ EnsureCached(b) \/ Ensure(b)
<1>0. nameSeq \in Nat /\ idCache \in [Backends -> [Names -> 0..MaxName]]
  BY DEF Types
<1>1. CASE EnsureCached(b) \/ Ensure(b)
  <2>1. PICK n \in Names, i \in Ids : Resolves(b, n, i)
    BY <1>1, EnsureIs
  <2>2. nameSeq <= nameSeq'
    BY <1>0, <2>1 DEF Resolves, Cached, Upserts
  <2> QED BY <1>1, <2>2
<1>2. ASSUME NEW api, ClearCaches(b, api)
      PROVE  idCache' = idCache \/ idCache' = [idCache EXCEPT ![b] = [n \in Names |-> 0]]
  BY <1>2 DEF ClearCaches, caches
<1>3. CASE UNCHANGED <<nameSeq, idCache>>
  BY <1>0, <1>3
<1>4. ASSUME UNCHANGED nameSeq, NEW api, ClearCaches(b, api)
      PROVE  /\ nameSeq <= nameSeq'
             /\ \A n \in Names : idCache'[b][n] \in {idCache[b][n], 0} \/ EnsureCached(b) \/ Ensure(b)
  BY <1>0, <1>2, <1>4
<1>5. CASE \E l \in Labels, api \in Apis :
              \/ \E v \in Values \union {NoVal} : StartCreate(b, api, l, v)
              \/ StartIndex(b, api, l) \/ StartDrop(b, api, l)
              \/ CreateConstraint(b, api, l) \/ DropConstraint(b, api, l)
  <2>1. PICK api \in Apis : UNCHANGED nameSeq /\ ClearCaches(b, api)
    BY <1>5 DEF StartCreate, StartIndex, StartDrop, CreateConstraint, DropConstraint, ids
  <2> QED BY <1>4, <2>1
<1>6. CASE \E l \in Labels, v \in Values \union {NoVal} : NextRow(b, l, v)
  BY <1>3, <1>6 DEF NextRow, caches, ids
<1>7. CASE Ends(b)
  BY <1>3, <1>7, EndLocks DEF caches, ids
<1>8. CASE InsertNode(b) \/ Flush(b) \/ IndexNode(b) \/ CheckUnique(b)
  BY <1>3, <1>8 DEF InsertNode, Flush, IndexNode, CheckUnique, caches, ids
<1>9. CASE IndexUpsert(b) \/ IndexClean(b) \/ IndexFill(b) \/ IndexPurge(b)
  BY <1>3, <1>9 DEF IndexUpsert, IndexClean, IndexFill, IndexPurge, caches, ids
<1> QED BY <1>1, <1>5, <1>6, <1>7, <1>8, <1>9 DEF Run, Ends

\* What a statement has resolved it had resolved before, or resolves by this step.
LEMMA LabelKnownStep ==
    ASSUME Types, Statements, NEW b \in Backends, Run(b), LabelKnown(b)'
    PROVE  \/ LabelKnown(b) /\ stmt'[b].l = stmt[b].l /\ stmt'[b].id = stmt[b].id
           \/ \E n \in Names, i \in Ids : Resolves(b, n, i) /\ n = stmt'[b].l /\ i = stmt'[b].id
<1> DEFINE Kept == LabelKnown(b) /\ stmt'[b].l = stmt[b].l /\ stmt'[b].id = stmt[b].id
<1>1. CASE EnsureCached(b) \/ Ensure(b)
  <2>1. PICK n \in Names, i \in Ids : Resolves(b, n, i)
    BY <1>1, EnsureIs
  <2> QED BY <2>1, ResolveIs
<1>2. CASE InsertNode(b) \/ IndexNode(b) \/ CheckUnique(b) \/ IndexClean(b)
  BY <1>2, InsertIs, IndexNodeIs, CheckIs, IndexStepIs DEF Same
<1>3. ASSUME IndexUpsert(b) PROVE ~LabelKnown(b)'
  <2>1. stmt'[b].todo = <<stmt[b].l, Key>> /\ stmt'[b].pc = "ensure" /\ stmt[b].l \in Labels
    BY <1>3, IndexStepIs DEF Same, Statements, Resolving, Indexing, Indexes
  <2> QED BY <2>1, TodoIs DEF LabelKnown
<1>4. ASSUME NEW l \in Labels, NEW v \in Values \cup {NoVal}, NextRow(b, l, v) PROVE ~LabelKnown(b)'
  BY <1>4, NextRowIs, TodoIs DEF LabelKnown
<1>5. ASSUME NEW l \in Labels, NEW api \in Apis, NEW v \in Values \cup {NoVal}, StartCreate(b, api, l, v)
      PROVE  ~LabelKnown(b)'
  BY <1>5, StartCreateIs, TodoIs DEF LabelKnown
<1>6. ASSUME NEW l \in Labels, NEW api \in Apis, StartIndex(b, api, l) PROVE ~LabelKnown(b)'
  BY <1>6, StartIndexIs DEF LabelKnown
<1>7. ASSUME NEW l \in Labels, NEW api \in Apis, StartDrop(b, api, l) PROVE ~LabelKnown(b)'
  BY <1>7, DropIs
<1>8. CASE \/ Commit(b) \/ Abort(b) \/ CheckUniqueFails(b) \/ Flush(b) \/ IndexFill(b) \/ IndexPurge(b)
           \/ \E l \in Labels, api \in Apis : CreateConstraint(b, api, l) \/ DropConstraint(b, api, l)
  BY <1>8, EndsIs
<1> QED BY <1>1, <1>2, <1>3, <1>4, <1>5, <1>6, <1>7, <1>8 DEF Run

\* A step makes an id stand for a name only where it resolves that name.
LEMMA BoundStep ==
    ASSUME Types, Statements, NEW b \in Backends, Run(b), NEW n \in Names, NEW i \in Ids, Bound(n, i)'
    PROVE  Bound(n, i) \/ Fresh(b, n, i)
<1>1. ASSUME Resolves(b, n, i) PROVE Bound(n, i) \/ Fresh(b, n, i)
  <2>1. CASE Cached(b, n, i)
    BY <2>1 DEF Cached, Bound
  <2>2. CASE i \in IdsOf(b, n)
    <3>1. <<"name", n, i>> \in db \/ <<"name", n, i>> \in added[b]
      BY <2>2, ViewIs DEF View
    <3> QED BY <3>1 DEF Bound
  <2> QED BY <1>1, <2>1, <2>2 DEF Resolves, Upserts, Fresh
<1>2. CASE <<"name", n, i>> \in db'
  <2>1. <<"name", n, i>> \in db \/ <<"name", n, i>> \in added[b]
    BY <1>2, DeletedIs DEF Commit
  <2> QED BY <2>1 DEF Bound
<1>3. ASSUME NEW c \in Backends, c # b,
             <<"name", n, i>> \in added'[c] \/ idCache'[c][n] = i
             \/ (LabelKnown(c)' /\ stmt'[c].l = n /\ stmt'[c].id = i)
      PROVE  Bound(n, i)
  BY <1>3, Others DEF Bound, LabelKnown, Creating, Indexing
<1>4. CASE <<"name", n, i>> \in added'[b]
  <2>1. CASE <<"name", n, i>> \in added[b]
    BY <2>1 DEF Bound
  <2>2. CASE <<"name", n, i>> \notin added[b]
    <3> DEFINE r == <<"name", n, i>>
    <3>1. r \notin Filled(b) \/ ~IndexFill(b)
      BY FillIs
    <3>2. \E m \in Names, j \in Ids : Resolves(b, m, j) /\ r = <<"name", m, j>>
      BY <1>4, <2>2, <3>1, AddedIs
    <3> QED BY <1>1, <3>2
  <2> QED BY <2>1, <2>2
<1>5. CASE idCache'[b][n] = i
  <2>1. CASE idCache[b][n] = i
    BY <2>1 DEF Bound
  <2>2. CASE idCache[b][n] # i
    <3>1. EnsureCached(b) \/ Ensure(b)
      BY <1>5, <2>2, SeqStep, Kinds
    <3>2. PICK m \in Names, j \in Ids : Resolves(b, m, j)
      BY <3>1, EnsureIs
    <3>3. m = n /\ j = i
      BY <1>5, <2>2, <3>2 DEF Resolves, Cached, Upserts, Types
    <3> QED BY <1>1, <3>2, <3>3
  <2> QED BY <2>1, <2>2
<1>6. CASE LabelKnown(b)' /\ stmt'[b].l = n /\ stmt'[b].id = i
  BY <1>1, <1>6, LabelKnownStep DEF Bound
<1> QED BY <1>2, <1>3, <1>4, <1>5, <1>6 DEF Bound

\* An id stands for one name at most, before and after a step.
LEMMA NamingStep ==
    ASSUME Types, Statements, Naming, NEW b \in Backends, Run(b)
    PROVE  Naming'
<1>0. nameSeq \in Nat /\ nameSeq' \in Nat /\ nameSeq <= nameSeq'
  BY SeqStep, TypesStep DEF Types
<1> SUFFICES ASSUME NEW n \in Names, NEW i \in Ids, Bound(n, i)'
             PROVE  i <= nameSeq' /\ \A m \in Names : Bound(m, i)' => m = n
  BY DEF Naming
<1>1. i \in Nat /\ (Bound(n, i) \/ Fresh(b, n, i))
  BY BoundStep, Kinds
<1>2. i <= nameSeq'
  BY <1>0, <1>1 DEF Naming, Fresh
<1>3. ASSUME NEW m \in Names, Bound(m, i)' PROVE m = n
  <2>1. Bound(m, i) \/ Fresh(b, m, i)
    BY <1>3, BoundStep
  <2>2. CASE Bound(n, i) /\ Bound(m, i)
    BY <2>2 DEF Naming
  <2>3. CASE Fresh(b, n, i) /\ Fresh(b, m, i)
    BY <2>3 DEF Fresh
  <2>4. \A k \in Names : Bound(k, i) => i <= nameSeq
    BY DEF Naming
  <2>5. \A k \in Names : Fresh(b, k, i) => ~(i <= nameSeq)
    BY <1>0 DEF Fresh
  <2> QED BY <1>1, <2>1, <2>2, <2>3, <2>4, <2>5
<1> QED BY <1>2, <1>3

(* Rows removed *)

\* A claim to remove a row lasts as long as its lock.
LEMMA ClaimKept ==
    ASSUME Types, Statements, Naming, NEW b \in Backends, Run(b), NEW c \in Backends, NEW r, Claim(c, r),
           \A k : Has(c, k) => Has(c, k)'
    PROVE  Claim(c, r)'
<1>1. CASE \E l \in Labels : r = <<"index", l>> /\ Has(c, <<"index", l>>)
  BY <1>1 DEF Claim
<1>2. CASE \E l \in Labels : r = <<"unique", l>> /\ Has(c, <<"unique", l>>)
  BY <1>2 DEF Claim
<1>3. CASE \E i \in Ids, v \in Values, n \in Nodes, l \in Labels :
              /\ r = <<"value", i, v, n>> /\ Has(c, <<"index", l>>)
              /\ i <= nameSeq /\ \A m \in Names : Bound(m, i) => m = l
  <2>1. PICK i \in Ids, v \in Values, n \in Nodes, l \in Labels :
              /\ r = <<"value", i, v, n>> /\ Has(c, <<"index", l>>)
              /\ i <= nameSeq /\ \A m \in Names : Bound(m, i) => m = l
    BY <1>3
  <2>2. i \in Nat /\ nameSeq \in Nat /\ nameSeq' \in Nat /\ nameSeq <= nameSeq'
    BY SeqStep, TypesStep, Kinds DEF Types
  <2>3. \A m \in Names : Bound(m, i)' => m = l
    BY <2>1, <2>2, BoundStep DEF Fresh
  <2>4. i <= nameSeq' /\ Has(c, <<"index", l>>)'
    BY <2>1, <2>2
  <2> QED BY <2>1, <2>3, <2>4 DEF Claim
<1> QED BY <1>1, <1>2, <1>3 DEF Claim

\* Whose claim it is that the values of an index are removed.
LEMMA ValueClaim ==
    ASSUME Types, Locking, Naming, NEW b \in Backends, NEW l \in Labels, NEW i \in Ids, NEW r,
           Has(b, <<"index", l>>), Bound(l, i), r \in ValuesOf(b, i)
    PROVE  Claim(b, r) /\ \A c \in Backends : Claim(c, r) => c = b
<1>1. PICK v \in Values, n \in Nodes : r = <<"value", i, v, n>>
  BY ViewIs
<1>2. l \in Names /\ i <= nameSeq /\ \A m \in Names : Bound(m, i) => m = l
  BY Kinds DEF Naming
<1>3. Claim(b, r)
  BY <1>1, <1>2 DEF Claim
<1>4. ASSUME NEW c \in Backends, Claim(c, r) PROVE c = b
  <2>1. PICK k \in Labels : Has(c, <<"index", k>>) /\ \A m \in Names : Bound(m, i) => m = k
    BY <1>1, <1>4 DEF Claim
  <2>2. Has(c, <<"index", l>>)
    BY <1>2, <2>1
  <2> QED BY <2>2 DEF Locking, Has
<1> QED BY <1>3, <1>4

\* Who removes a row has the claim to it, and nobody else has.
LEMMA NewClaim ==
    ASSUME Types, Statements, Locking, Naming, NEW b \in Backends, Run(b),
           NEW r \in removed'[b], r \notin removed[b]
    PROVE  Claim(b, r)' /\ \A c \in Backends : Claim(c, r) => c = b
<1>1. ~Ends(b)
  BY EndLocks
<1>2. \A k : Has(b, k) => Has(b, k)'
  BY <1>1, LocksKept
<1>3. CASE IndexClean(b) /\ r \in ValuesOf(b, stmt[b].id)
  <2>1. /\ Has(b, <<"index", stmt[b].l>>) /\ stmt[b].l \in Labels /\ stmt[b].id \in Ids
        /\ LabelKnown(b)
    BY <1>3, IndexStepIs DEF Locking, Indexing, Indexes
  <2>2. Bound(stmt[b].l, stmt[b].id)
    BY <2>1 DEF Bound
  <2> QED BY <1>2, <1>3, <2>1, <2>2, ValueClaim, ClaimKept
<1>4. CASE IndexPurge(b) /\ \E i \in IdsOf(b, stmt[b].l) : r \in ValuesOf(b, i)
  <2>1. PICK i \in IdsOf(b, stmt[b].l) : r \in ValuesOf(b, i)
    BY <1>4
  <2>2. Dropping(b) /\ stmt[b].l \in Labels
    BY <1>4, AtIs DEF IndexPurge, Dropping, Drops
  <2>3. stmt[b].l \in Names /\ Has(b, <<"index", stmt[b].l>>)
    BY <2>2, Kinds DEF Locking
  <2>4. i \in Ids /\ <<"name", stmt[b].l, i>> \in View(b)
    BY <2>1, <2>3, ViewIs
  <2>5. Bound(stmt[b].l, i)
    BY <2>4 DEF Bound, View
  <2> QED BY <1>2, <2>1, <2>2, <2>3, <2>4, <2>5, ValueClaim, ClaimKept
<1>5. ASSUME NEW l \in Labels, NEW api \in Apis, StartDrop(b, api, l), r = <<"index", l>>
      PROVE  Claim(b, r)' /\ \A c \in Backends : Claim(c, r) => c = b
  BY <1>5 DEF StartDrop, Lock, Free, Has, Claim
<1>6. ASSUME NEW l \in Labels, NEW api \in Apis, DropConstraint(b, api, l), r = <<"unique", l>>
      PROVE  Claim(b, r)' /\ \A c \in Backends : Claim(c, r) => c = b
  BY <1>6 DEF DropConstraint, Lock, Free, Has, Claim
<1> QED BY <1>1, <1>3, <1>4, <1>5, <1>6, DeletedIs

\* Transactions remove committed rows under their locks, no two the same.
LEMMA RemovalsStep ==
    ASSUME Types, Statements, Locking, Naming, Removals, NEW b \in Backends, Run(b)
    PROVE  Removals'
<1>1. ASSUME NEW c \in Backends, NEW r \in removed'[c] PROVE r \in db'
  <2>1. r \in db
    BY <1>1, Others, DeletedIs DEF Removals, Removing
  <2>2. CASE db' = db
    BY <2>1, <2>2
  <2>3. CASE Commit(b)
    <3>1. removed'[b] = {} /\ db' = (db \ removed[b]) \cup added[b]
      BY <2>3, EndLocks DEF Ends, Commit
    <3>2. c # b /\ r \in removed[c]
      BY <3>1, <1>1, Others
    <3>3. r \notin removed[b]
      BY <3>2 DEF Removals
    <3> QED BY <2>1, <3>1, <3>3
  <2> QED BY <2>2, <2>3, DeletedIs
<1>2. ASSUME NEW c \in Backends, NEW r \in removed'[c] PROVE Claim(c, r)'
  <2>1. CASE c # b
    <3>1. r \in removed[c] /\ \A k : Has(c, k) => Has(c, k)'
      BY <1>2, <2>1, Others
    <3> QED BY <3>1, ClaimKept DEF Removals, Removing
  <2>2. CASE c = b /\ r \notin removed[b]
    BY <1>2, <2>2, NewClaim
  <2>3. CASE c = b /\ r \in removed[b]
    <3>1. ~Ends(b)
      BY <1>2, <2>3, EndLocks
    <3>2. \A k : Has(c, k) => Has(c, k)'
      BY <2>3, <3>1, LocksKept
    <3> QED BY <2>3, <3>2, ClaimKept DEF Removals, Removing
  <2> QED BY <2>1, <2>2, <2>3
<1>3. ASSUME NEW c \in Backends, c # b, NEW r \in removed'[b], r \in removed'[c] PROVE FALSE
  <2>1. r \in removed[c] /\ Claim(c, r)
    BY <1>3, Others DEF Removals, Removing
  <2>2. r \notin removed[b]
    BY <1>3, <2>1 DEF Removals
  <2> QED BY <1>3, <2>1, <2>2, NewClaim
<1>4. ASSUME NEW c \in Backends, NEW d \in Backends, c # d, c # b, d # b PROVE removed'[c] \cap removed'[d] = {}
  BY <1>4, Others DEF Removals
<1> QED BY <1>1, <1>2, <1>3, <1>4 DEF Removals, Removing

(* Structure *)

\* The structural invariant holds at first.
LEMMA StructureInit == Init => Structure
<1> SUFFICES ASSUME Init PROVE Structure
  OBVIOUS
<1>1. \A b \in Backends : ~Creating(b) /\ ~Indexing(b) /\ ~Dropping(b)
  BY Kinds DEF Init, Creating, Indexing, Dropping
<1>2. Types
  <2>1. 0 \in 0..MaxName /\ 0 \in 0..MaxNode
    OBVIOUS
  <2> QED BY <2>1 DEF Init, Types, Statement
<1>3. Statements
  BY <1>1 DEF Init, Statements, Resolving, LabelKnown
<1>4. Locking
  BY <1>1 DEF Init, Locking
<1>5. \A n \in Names, i \in Ids : ~Bound(n, i)
  BY <1>1, Kinds DEF Init, Bound, LabelKnown
<1>6. Naming
  BY <1>5 DEF Naming
<1>7. Removals
  BY DEF Init, Removals, Removing
<1> QED BY <1>2, <1>3, <1>4, <1>6, <1>7 DEF Structure

\* Every step keeps the structural invariant.
LEMMA StructureStep == Structure /\ [Next]_vars => Structure'
<1> SUFFICES ASSUME Structure, [Next]_vars PROVE Structure'
  OBVIOUS
<1>1. ASSUME NEW b \in Backends, Run(b) PROVE Structure'
  BY <1>1, StatementStep, TypesStep, LockingStep, NamingStep, RemovalsStep DEF Structure
<1>2. CASE UNCHANGED vars
  <2>1. UNCHANGED <<db, added, removed, locks, open, stmt, idCache, ixCache, nameSeq, nodeSeq>>
    BY <1>2 DEF vars, tables, caches, ids
  <2>2. \A b \in Backends : /\ Creating(b)' <=> Creating(b)
                            /\ Indexing(b)' <=> Indexing(b)
                            /\ Dropping(b)' <=> Dropping(b)
                            /\ LabelKnown(b)' <=> LabelKnown(b)
                            /\ \A k : Has(b, k)' <=> Has(b, k)
    BY <2>1 DEF Creating, Indexing, Dropping, LabelKnown, Has
  <2>3. \A n \in Names, i \in Ids : Bound(n, i)' <=> Bound(n, i)
    BY <2>1, <2>2 DEF Bound
  <2>4. Types' /\ Statements'
    BY <2>1, <2>2 DEF Structure, Types, Statements, Resolving
  <2>5. Locking' /\ Naming'
    BY <2>1, <2>2, <2>3 DEF Structure, Locking, Naming
  <2>6. Removals'
    <3>1. ASSUME NEW b \in Backends, NEW r, Claim(b, r) PROVE Claim(b, r)'
      BY <2>1, <2>2, <2>3, <3>1 DEF Claim
    <3> QED BY <2>1, <3>1 DEF Structure, Removals, Removing
  <2> QED BY <2>4, <2>5, <2>6 DEF Structure
<1> QED BY <1>1, <1>2 DEF Next

\* Statements have their shape, row locks exclude each other, an id stands for one
\* name at most, and what a transaction removes is committed and under its lock.
THEOREM StructureHolds == Spec => []Structure
BY StructureInit, StructureStep, PTL DEF Spec

\* Types are right, a transaction deletes only committed rows and no two the same,
\* and every row lock is one that an upsert or a delete of the catalog takes.
THEOREM TypeCorrect == Spec => []TypeOK
<1>1. Structure => TypeOK
  BY DEF Structure, Types, Statements, Removals, Removing, TypeOK
<1> QED BY <1>1, StructureHolds, PTL

-----------------------------------------------------------------------------
(* Names are registered once, and the ids of nodes are registered.         *)

\* Every statement is a cypher() call, and so clears the caches first.
CypherOnly == Apis \subseteq {"cypher"}

\* Registered names are never removed; what a transaction sees of them.
LEMMA KnownIs ==
    ASSUME Structure, NEW b \in Backends, NEW n \in Names
    PROVE  /\ \A i : <<"name", n, i>> \notin removed[b]
           /\ \A i : Known(b, n, i) <=> i \in IdsOf(b, n)
<1>1. ASSUME NEW r \in removed[b] PROVE r[1] # "name"
  <2>1. Claim(b, r)
    BY DEF Structure, Removals, Removing
  <2>2. CASE \E l \in Labels : r = <<"index", l>>
    BY <2>2
  <2>3. CASE \E l \in Labels : r = <<"unique", l>>
    BY <2>3
  <2>4. CASE \E i \in Ids, v \in Values, n_ \in Nodes : r = <<"value", i, v, n_>>
    BY <2>4
  <2> QED BY <2>1, <2>2, <2>3, <2>4 DEF Claim
<1>2. \A i : <<"name", n, i>> \notin removed[b]
  BY <1>1
<1>3. ASSUME NEW i PROVE Known(b, n, i) <=> i \in IdsOf(b, n)
  <2>1. Known(b, n, i) <=> <<"name", n, i>> \in View(b)
    BY <1>2 DEF Known, View
  <2>2. <<"name", n, i>> \in View(b) => i \in Ids
    <3>1. View(b) \subseteq Row
      BY ViewIs DEF Structure
    <3> DEFINE r == <<"name", n, i>>
    <3>2. r \in View(b) => r[3] \in Ids
      BY <3>1, RowIs
    <3> QED BY <3>2
  <2> QED BY <2>1, <2>2, ViewIs DEF Structure
<1> QED BY <1>2, <1>3

\* A registered name stays registered to whoever sees it.
LEMMA KnownKept ==
    ASSUME Structure, NEW b \in Backends, Run(b), NEW c \in Backends, NEW n \in Names, NEW i, Known(c, n, i),
           c # b \/ ~Ends(b)
    PROVE  Known(c, n, i)'
<1> DEFINE r == <<"name", n, i>>
<1>1. Types /\ Statements
  BY DEF Structure
<1>2. ASSUME r \in db PROVE r \in db'
  <2>1. r \notin removed[b]
    BY KnownIs
  <2>2. db' = db \/ db' = (db \ removed[b]) \cup added[b]
    BY <1>1, DeletedIs DEF Commit
  <2> QED BY <1>2, <2>1, <2>2
<1>3. ASSUME r \in added[c], c # b PROVE r \in added'[c]
  BY <1>1, <1>3, Others
<1>4. ASSUME r \in added[b], ~Ends(b) PROVE r \in added'[b]
  <2>1. \A m \in Ids : r \notin ValuesOf(b, m)
    BY <1>1, ViewIs
  <2>2. IndexClean(b) => stmt[b].id \in Ids
    BY <1>1, IndexStepIs
  <2>3. IndexPurge(b) => IdsOf(b, stmt[b].l) \subseteq Ids
    <3>1. IndexPurge(b) => stmt[b].l \in Names
      BY <1>1, AtIs, Kinds DEF IndexPurge, Dropping, Drops
    <3> QED BY <1>1, <3>1, ViewIs
  <2> QED BY <1>1, <1>4, <2>1, <2>2, <2>3, DeletedIs
<1>5. r \in db \/ r \in added[c]
  BY DEF Known
<1> QED BY <1>2, <1>3, <1>4, <1>5 DEF Known

\* Whom a name becomes known to, and how.
LEMMA KnownStep ==
    ASSUME Structure, NEW b \in Backends, Run(b), NEW c \in Backends, NEW n \in Names, NEW i,
           Known(c, n, i)', ~Known(c, n, i)
    PROVE  \/ Commit(b) /\ c # b /\ <<"name", n, i>> \in added[b]
           \/ c = b /\ Resolves(b, n, i) /\ Upserts(b, n, i) /\ <<"name", n, i>> \in added'[b]
<1> DEFINE r == <<"name", n, i>>
<1>1. Types /\ Statements /\ r \notin db /\ r \notin added[c]
  BY DEF Structure, Known
<1>2. CASE r \in db'
  <2>1. Commit(b) /\ r \in added[b]
    BY <1>1, <1>2, DeletedIs DEF Commit
  <2> QED BY <1>1, <2>1
<1>3. CASE r \in added'[c]
  <2>1. c = b
    BY <1>1, <1>3, Others
  <2>2. ~IndexFill(b) \/ r \notin Filled(b)
    BY <1>1, FillIs
  <2> QED BY <1>1, <1>3, <2>1, <2>2, AddedIs
<1> QED BY <1>2, <1>3 DEF Known

\* A resolved name is known, and its row locked.
LEMMA ResolvedKnown ==
    ASSUME Structure, NEW b \in Backends, Registry(b), NEW n \in Names, NEW i \in Ids, Resolves(b, n, i), Run(b)
    PROVE  Known(b, n, i)' /\ Has(b, n)' /\ stmt[b] # Idle /\ ~Ends(b)
<1>1. stmt[b] # Idle /\ ~Ends(b)
  BY ResolveIs, EndsIs DEF Ends, Structure
<1>2. CASE Cached(b, n, i)
  <2>1. Known(b, n, i) /\ Has(b, n)
    BY <1>1, <1>2, Kinds DEF Cached, Registry
  <2> QED BY <1>1, <2>1, KnownKept, LocksKept DEF Structure
<1>3. CASE Upserts(b, n, i)
  <2>1. Has(b, n)'
    BY <1>3 DEF Upserts, Lock, Has
  <2>2. <<"name", n, i>> \in db \cup added'[b] /\ db' = db
    BY <1>3 DEF Upserts, Resolves, Structure, Types
  <2> QED BY <1>1, <2>1, <2>2 DEF Known
<1> QED BY <1>1, <1>2, <1>3 DEF Resolves

\* A statement starts with empty caches.
LEMMA StartClears ==
    ASSUME Structure, CypherOnly, NEW b \in Backends, Run(b), stmt[b] = Idle, stmt'[b] # Idle
    PROVE  /\ \A n \in Names : idCache'[b][n] = 0
           /\ \A l \in Labels : ixCache'[b][l] = "none"
<1>1. ASSUME NEW api \in Apis, ClearCaches(b, api)
      PROVE  /\ \A n \in Names : idCache'[b][n] = 0
             /\ \A l \in Labels : ixCache'[b][l] = "none"
  <2>1. /\ idCache' = [idCache EXCEPT ![b] = [n \in Names |-> 0]]
        /\ ixCache' = [ixCache EXCEPT ![b] = [l \in Labels |-> "none"]]
    BY <1>1 DEF ClearCaches, CypherOnly
  <2> QED BY <2>1 DEF Structure, Types
<1>2. CASE \E l \in Labels, api \in Apis :
              \/ \E v \in Values \union {NoVal} : StartCreate(b, api, l, v)
              \/ StartIndex(b, api, l) \/ StartDrop(b, api, l)
  BY <1>1, <1>2 DEF StartCreate, StartIndex, StartDrop
<1>3. CASE \E l \in Labels, api \in Apis : CreateConstraint(b, api, l) \/ DropConstraint(b, api, l)
  BY <1>3, EndsIs DEF Structure
<1>4. CASE \E l \in Labels, v \in Values \union {NoVal} : NextRow(b, l, v)
  BY <1>4 DEF NextRow, At
<1>5. CASE Ends(b)
  BY <1>5, EndsIs DEF Structure, Ends
<1> QED BY <1>2, <1>3, <1>4, <1>5 DEF Run, Ends, EnsureCached, Ensure, InsertNode, IndexNode, CheckUnique, Flush,
                IndexUpsert, IndexClean, IndexFill, IndexPurge, At

\* A step keeps what others' statements and caches know.
LEMMA RegistryOthers ==
    ASSUME Structure, NEW b \in Backends, Run(b), NEW c \in Backends, c # b, Registry(b), Registry(c)
    PROVE  Registry(c)'
<1>0. Types /\ Statements /\ Locking
  BY DEF Structure
<1>1. /\ stmt'[c] = stmt[c] /\ added'[c] = added[c] /\ idCache'[c] = idCache[c]
      /\ LabelKnown(c)' <=> LabelKnown(c)
      /\ \A k : Has(c, k)' <=> Has(c, k)
  BY <1>0, Others DEF LabelKnown, Creating, Indexing
<1>2. \A n \in Names : \A i : Known(c, n, i) => Known(c, n, i)'
  BY KnownKept
<1>3. ASSUME NEW n \in Names, stmt'[c] # Idle, idCache'[c][n] # 0
      PROVE  Known(c, n, idCache[c][n])' /\ Has(c, n)'
  <2>1. Known(c, n, idCache[c][n]) /\ Has(c, n)
    BY <1>1, <1>3 DEF Registry
  <2>2. <<"name", n, idCache[c][n]>> \in db' \cup added'[c]
    BY <1>2, <2>1 DEF Known
  <2> QED BY <1>1, <2>1, <2>2 DEF Known
<1>4. ASSUME LabelKnown(c)' PROVE Known(c, stmt[c].l, stmt[c].id)' /\ Has(c, stmt[c].l)'
  <2>1. stmt[c].l \in Names
    BY <1>1, <1>4, Kinds DEF LabelKnown, Creating, Indexing, Creates, Indexes
  <2>2. Known(c, stmt[c].l, stmt[c].id) /\ Has(c, stmt[c].l)
    BY <1>1, <1>4 DEF Registry
  <2>3. <<"name", stmt[c].l, stmt[c].id>> \in db' \cup added'[c]
    BY <1>2, <2>1, <2>2 DEF Known
  <2> QED BY <1>1, <2>2, <2>3 DEF Known, Has
<1>5. ASSUME NEW n \in Names, NEW i \in Ids, <<"name", n, i>> \in added'[c]
      PROVE  Has(c, n)' /\ \A j \in Ids : Known(c, n, j)' => j = i
  <2>1. Has(c, n) /\ \A j \in Ids : Known(c, n, j) => j = i
    BY <1>1, <1>5 DEF Registry
  <2>2. ASSUME NEW j \in Ids, Known(c, n, j)' PROVE Known(c, n, j)
    <3>1. <<"name", n, j>> \in added[b] => Has(b, n)
      BY DEF Registry
    <3> QED BY <1>0, <2>1, <2>2, <3>1, KnownStep DEF Locking, Has
  <2> QED BY <1>1, <2>1, <2>2
<1>6. ASSUME NEW n \in Nodes, NEW i \in Ids, NEW v \in Values \cup {NoVal}, <<"node", n, i, v>> \in added'[c]
      PROVE  \E l \in Labels : Known(c, l, i)' /\ Has(c, l)'
  <2>1. PICK l \in Labels : Known(c, l, i) /\ Has(c, l)
    BY <1>1, <1>6 DEF Registry
  <2> QED BY <1>1, <1>2, <2>1, Kinds
<1> QED BY <1>3, <1>4, <1>5, <1>6 DEF Registry

\* A step keeps what its own statement and cache know.
LEMMA RegistryOwn ==
    ASSUME Structure, CypherOnly, NEW b \in Backends, Run(b), Registry(b)
    PROVE  Registry(b)'
<1>0. Types /\ Statements /\ Locking /\ idCache \in [Backends -> [Names -> 0..MaxName]]
  BY DEF Structure, Types
<1>1. CASE Ends(b)
  <2>1. added'[b] = {} /\ stmt'[b] = Idle /\ ~LabelKnown(b)'
    BY <1>0, <1>1, EndLocks, EndsIs DEF Ends
  <2> QED BY <2>1 DEF Registry
<1>2. CASE ~Ends(b)
  <2>1. /\ \A n \in Names : \A i : Known(b, n, i) => Known(b, n, i)'
        /\ \A k : Has(b, k) => Has(b, k)'
    BY <1>0, <1>2, KnownKept, LocksKept
  <2>2. ASSUME NEW n \in Names, stmt'[b] # Idle, idCache'[b][n] # 0
        PROVE  Known(b, n, idCache[b][n])' /\ Has(b, n)'
    <3>1. CASE stmt[b] = Idle
      BY <2>2, <3>1, StartClears
    <3>2. CASE stmt[b] # Idle /\ idCache'[b][n] = idCache[b][n]
      <4>1. Known(b, n, idCache[b][n]) /\ Has(b, n)
        BY <2>2, <3>2 DEF Registry
      <4>2. <<"name", n, idCache[b][n]>> \in db' \cup added'[b]
        BY <2>1, <4>1 DEF Known
      <4> QED BY <2>1, <3>2, <4>1, <4>2 DEF Known
    <3>3. CASE idCache'[b][n] # idCache[b][n]
      <4>1. EnsureCached(b) \/ Ensure(b)
        BY <1>0, <2>2, <3>3, SeqStep
      <4>2. PICK m \in Names, i \in Ids : Resolves(b, m, i)
        BY <1>0, <4>1, EnsureIs
      <4>3. m = n /\ idCache'[b][n] = i
        BY <1>0, <3>3, <4>2 DEF Resolves, Cached, Upserts
      <4>4. Known(b, n, i)' /\ Has(b, n)'
        BY <4>2, <4>3, ResolvedKnown
      <4> QED BY <4>3, <4>4 DEF Known
    <3> QED BY <3>1, <3>2, <3>3
  <2>3. ASSUME LabelKnown(b)' PROVE Known(b, stmt[b].l, stmt[b].id)' /\ Has(b, stmt[b].l)'
    <3>1. CASE LabelKnown(b) /\ stmt'[b].l = stmt[b].l /\ stmt'[b].id = stmt[b].id
      <4>1. stmt[b].l \in Names
        BY <3>1, Kinds DEF LabelKnown, Creating, Indexing, Creates, Indexes
      <4>2. Known(b, stmt[b].l, stmt[b].id) /\ Has(b, stmt[b].l)
        BY <3>1 DEF Registry
      <4>3. <<"name", stmt[b].l, stmt[b].id>> \in db' \cup added'[b]
        BY <2>1, <4>1, <4>2 DEF Known
      <4> QED BY <2>1, <3>1, <4>2, <4>3 DEF Known, Has
    <3>2. CASE \E n \in Names, i \in Ids : Resolves(b, n, i) /\ n = stmt'[b].l /\ i = stmt'[b].id
      <4>1. PICK n \in Names, i \in Ids : Resolves(b, n, i) /\ n = stmt'[b].l /\ i = stmt'[b].id
        BY <3>2
      <4>2. Known(b, n, i)' /\ Has(b, n)'
        BY <4>1, ResolvedKnown
      <4> QED BY <4>1, <4>2 DEF Known, Has
    <3> QED BY <1>0, <2>3, <3>1, <3>2, LabelKnownStep
  <2>4. ASSUME NEW n \in Names, NEW i \in Ids, <<"name", n, i>> \in added'[b]
        PROVE  Has(b, n)' /\ \A j \in Ids : Known(b, n, j)' => j = i
    <3>1. Known(b, n, i)'
      BY <2>4 DEF Known
    <3>2. CASE <<"name", n, i>> \in added[b]
      <4>1. Has(b, n) /\ Known(b, n, i) /\ \A j \in Ids : Known(b, n, j) => j = i
        BY <3>2 DEF Registry, Known
      <4>2. IdsOf(b, n) # {}
        BY <4>1, KnownIs
      <4>3. ASSUME NEW j \in Ids, Known(b, n, j)' PROVE Known(b, n, j)
        BY <4>2, <4>3, KnownStep, KnownIs DEF Upserts
      <4> QED BY <2>1, <4>1, <4>3
    <3>3. CASE <<"name", n, i>> \notin added[b]
      <4>1. Resolves(b, n, i) /\ Upserts(b, n, i)
        <5>1. ~IndexFill(b) \/ <<"name", n, i>> \notin Filled(b)
          BY <1>0, FillIs
        <5> QED BY <1>0, <2>4, <3>3, <5>1, AddedIs
      <4>2. <<"name", n, i>> \notin db
        BY <1>0, <2>4, <3>3, <4>1 DEF Upserts, Types
      <4>3. IdsOf(b, n) = {}
        BY <3>3, <4>1, <4>2, KnownIs DEF Upserts, Known
      <4>4. ASSUME NEW j \in Ids, Known(b, n, j)' PROVE j = i
        <5>1. Upserts(b, n, j)
          BY <4>3, <4>4, KnownStep, KnownIs
        <5> QED BY <4>1, <4>3, <5>1 DEF Upserts
      <4> QED BY <4>1, <4>4, ResolvedKnown
    <3> QED BY <3>2, <3>3
  <2>5. ASSUME NEW n \in Nodes, NEW i \in Ids, NEW v \in Values \cup {NoVal}, <<"node", n, i, v>> \in added'[b]
        PROVE  \E l \in Labels : Known(b, l, i)' /\ Has(b, l)'
    <3>1. CASE <<"node", n, i, v>> \in added[b]
      <4>1. PICK l \in Labels : Known(b, l, i) /\ Has(b, l)
        BY <3>1 DEF Registry
      <4> QED BY <2>1, <4>1, Kinds
    <3>2. CASE <<"node", n, i, v>> \notin added[b]
      <4>1. InsertNode(b) /\ i = stmt[b].id
        <5>1. ~IndexFill(b) \/ <<"node", n, i, v>> \notin Filled(b)
          BY <1>0, FillIs
        <5> QED BY <1>0, <2>5, <3>2, <5>1, AddedIs
      <4>2. LabelKnown(b) /\ stmt[b].l \in Labels
        BY <1>0, <4>1, InsertIs DEF Creating, Creates
      <4>3. Known(b, stmt[b].l, i) /\ Has(b, stmt[b].l)
        BY <4>1, <4>2 DEF Registry
      <4> QED BY <2>1, <4>2, <4>3, Kinds
    <3> QED BY <3>1, <3>2
  <2> QED BY <2>2, <2>3, <2>4, <2>5 DEF Registry
<1> QED BY <1>1, <1>2

\* Every step keeps the registry in order, if all statements clear the caches.
LEMMA RegisteredStep ==
    ASSUME Structure, CypherOnly, Registered, [Next]_vars
    PROVE  Registered'
<1>1. ASSUME NEW b \in Backends, Run(b) PROVE Registered'
  <2>0. Types /\ Statements
    BY DEF Structure
  <2>1. \A c \in Backends : Registry(c)'
    BY <1>1, RegistryOthers, RegistryOwn DEF Registered
  <2>2. CASE db' = db
    BY <2>1, <2>2 DEF Registered
  <2>3. CASE Commit(b)
    <3>1. db' = (db \ removed[b]) \cup added[b]
      BY <2>3 DEF Commit
    <3>2. ASSUME NEW n \in Names, NEW i \in Ids, NEW j \in Ids, <<"name", n, i>> \in db', <<"name", n, j>> \in db'
          PROVE  i = j
      <4>1. Known(b, n, i) /\ Known(b, n, j)
        BY <3>1, <3>2 DEF Known
      <4>2. CASE <<"name", n, i>> \in added[b] \/ <<"name", n, j>> \in added[b]
        BY <4>1, <4>2 DEF Registered, Registry
      <4>3. CASE <<"name", n, i>> \in db /\ <<"name", n, j>> \in db
        BY <4>3 DEF Registered
      <4> QED BY <4>1, <4>2, <4>3 DEF Known
    <3>3. ASSUME NEW n \in Nodes, NEW i \in Ids, NEW v \in Values \cup {NoVal}, <<"node", n, i, v>> \in db'
          PROVE  \E l \in Labels : <<"name", l, i>> \in db'
      <4>1. PICK l \in Labels : Known(b, l, i)
        BY <3>1, <3>3 DEF Registered, Registry, Known
      <4>2. <<"name", l, i>> \notin removed[b]
        BY KnownIs, Kinds
      <4> QED BY <3>1, <4>1, <4>2 DEF Known
    <3> QED BY <2>1, <3>2, <3>3 DEF Registered
  <2> QED BY <1>1, <2>0, <2>2, <2>3, DeletedIs
<1>2. CASE UNCHANGED vars
  <2>1. UNCHANGED <<db, added, locks, stmt, idCache>>
    BY <1>2 DEF vars, tables, caches
  <2>2. \A b \in Backends : /\ LabelKnown(b)' <=> LabelKnown(b)
                            /\ \A k : Has(b, k)' <=> Has(b, k)
                            /\ \A n, i : Known(b, n, i)' <=> Known(b, n, i)
    BY <2>1 DEF LabelKnown, Creating, Indexing, Has, Known
  <2>3. \A b \in Backends : Registry(b)'
    BY <2>1, <2>2 DEF Registered, Registry
  <2> QED BY <2>1, <2>3 DEF Registered
<1> QED BY <1>1, <1>2 DEF Next

\* Where every statement clears the caches first, a name is registered under one id,
\* an id for one name, and the label id of every committed node is registered.
THEOREM IdsAreRegistered == ASSUME CypherOnly PROVE Spec => []IdsRegistered
<1>1. Init => Registered
  <2> SUFFICES ASSUME Init PROVE Registered
    OBVIOUS
  <2>1. \A b \in Backends : ~LabelKnown(b)
    BY Kinds DEF Init, LabelKnown, Creating, Indexing
  <2> QED BY <2>1 DEF Init, Registered, Registry
<1>2. ASSUME Structure, Registered PROVE IdsRegistered
  <2>1. db \subseteq Row
    BY <1>2 DEF Structure, Types
  <2>2. \A n \in Names : \A i : i \in LabelIds(n) <=> i \in Ids /\ <<"name", n, i>> \in db
    BY <2>1, RowIs DEF LabelIds
  <2>3. ASSUME NEW r \in StoredIn(db) PROVE \E l \in Labels : r[3] \in LabelIds(l)
    <3>1. r \in db /\ r[2] \in Nodes /\ r[3] \in Ids /\ r[4] \in Values \cup {NoVal} /\ r = <<"node", r[2], r[3], r[4]>>
      BY <2>1, RowIs DEF StoredIn
    <3>2. PICK l \in Labels : <<"name", l, r[3]>> \in db
      BY <1>2, <3>1 DEF Registered
    <3> QED BY <2>2, <3>1, <3>2, Kinds
  <2>4. ASSUME NEW m \in Names, NEW n \in Names, NEW i, i \in LabelIds(m), i \in LabelIds(n) PROVE m = n
    <3>1. i \in Ids /\ Bound(m, i) /\ Bound(n, i)
      BY <2>2, <2>4 DEF Bound
    <3> QED BY <1>2, <3>1 DEF Structure, Naming
  <2>5. ASSUME NEW n \in Names PROVE Cardinality(LabelIds(n)) <= 1
    <3>1. CASE LabelIds(n) = {}
      BY <3>1, FS_EmptySet
    <3>2. ASSUME NEW i \in LabelIds(n) PROVE Cardinality(LabelIds(n)) <= 1
      <4>1. ASSUME NEW j \in LabelIds(n) PROVE j = i
        BY <1>2, <2>2, <3>2, <4>1 DEF Registered
      <4>2. LabelIds(n) = {i}
        BY <3>2, <4>1
      <4>3. Cardinality({i}) = 1
        BY FS_Singleton
      <4> QED BY <4>2, <4>3
    <3> QED BY <3>1, <3>2
  <2> QED BY <2>3, <2>4, <2>5 DEF IdsRegistered
<1> QED BY <1>1, <1>2, RegisteredStep, StructureHolds, PTL DEF Spec

-----------------------------------------------------------------------------
(* Nodes, label rows and entries belong together.                          *)

\* Rows of names, nodes and labels are never deleted.
LEMMA Lasting ==
    ASSUME Structure, NEW b \in Backends, Run(b), NEW r \in Row, r[1] \in {"name", "node", "label"}
    PROVE  /\ \A c \in Backends : r \notin removed[c]
           /\ r \in db => r \in db'
           /\ \A c \in Backends : c # b \/ ~Ends(b) => (r \in added[c] => r \in added'[c])
           /\ r \in db' => r \in db \/ (Commit(b) /\ r \in added[b])
<1>0. Types /\ Statements
  BY DEF Structure
<1>1. \A x : x[1] \in {"index", "unique", "value"} => x # r
  OBVIOUS
<1>2. ASSUME NEW c \in Backends PROVE r \notin removed[c]
  <2>1. ASSUME Claim(c, r) PROVE FALSE
    <3>1. CASE \E l \in Labels : r = <<"index", l>>
      BY <3>1
    <3>2. CASE \E l \in Labels : r = <<"unique", l>>
      BY <3>2
    <3>3. CASE \E i \in Ids, v \in Values, n \in Nodes : r = <<"value", i, v, n>>
      BY <3>3
    <3> QED BY <2>1, <3>1, <3>2, <3>3 DEF Claim
  <2> QED BY <2>1 DEF Structure, Removals, Removing
<1>3. db' = db \/ (Commit(b) /\ db' = (db \ removed[b]) \cup added[b])
  BY <1>0, DeletedIs DEF Commit
<1>4. ASSUME NEW c \in Backends, c # b \/ ~Ends(b), r \in added[c] PROVE r \in added'[c]
  <2>1. CASE c # b
    BY <1>0, <1>4, <2>1, Others
  <2>2. CASE c = b
    <3>1. \A i \in Ids : r \notin ValuesOf(b, i)
      <4>1. ASSUME NEW i \in Ids, r \in ValuesOf(b, i) PROVE FALSE
        <5>1. \E v \in Values, n \in Nodes : r = <<"value", i, v, n>>
          BY <1>0, <4>1, ViewIs
        <5> QED BY <5>1
      <4> QED BY <4>1
    <3>2. IndexClean(b) => stmt[b].id \in Ids
      BY <1>0, IndexStepIs
    <3>3. IndexPurge(b) => IdsOf(b, stmt[b].l) \subseteq Ids
      <4>1. IndexPurge(b) => stmt[b].l \in Names
        BY <1>0, AtIs, Kinds DEF IndexPurge, Dropping, Drops
      <4> QED BY <1>0, <4>1, ViewIs
    <3>4. \A l \in Labels : r # <<"index", l>> /\ r # <<"unique", l>>
      OBVIOUS
    <3> QED BY <1>0, <1>4, <2>2, <3>1, <3>2, <3>3, <3>4, DeletedIs
  <2> QED BY <2>1, <2>2
<1> QED BY <1>2, <1>3, <1>4

\* Where new nodes, label rows and entries come from.
LEMMA NodeStep ==
    ASSUME Structure, NEW b \in Backends, Run(b), NEW c \in Backends, NEW n \in Nodes, NEW i \in Ids,
           NEW v \in Values \cup {NoVal}, Node(added'[c], n, i, v), ~Node(added[c], n, i, v)
    PROVE  c = b /\ InsertNode(b) /\ n = nodeSeq + 1 /\ i = stmt[b].id /\ v = stmt[b].v
<1>0. Types /\ Statements
  BY DEF Structure
<1>1. c = b
  BY <1>0, Others DEF Node
<1> DEFINE r == <<"node", n, i, v>>
<1>2. ~IndexFill(b) \/ r \notin Filled(b)
  BY <1>0, FillIs
<1>3. r \in added'[b] /\ r \notin added[b]
  BY <1>1 DEF Node
<1>4. InsertNode(b) /\ r = <<"node", nodeSeq + 1, stmt[b].id, stmt[b].v>>
  BY <1>0, <1>2, <1>3, AddedIs
<1> QED BY <1>1, <1>4

\* How a label row comes about.
LEMMA LabelStep ==
    ASSUME Structure, NEW b \in Backends, Run(b), NEW c \in Backends, NEW n \in Nodes, NEW i \in Ids,
           <<"label", i, n>> \in added'[c], <<"label", i, n>> \notin added[c]
    PROVE  /\ c = b
           /\ \/ InsertNode(b) /\ stmt[b].api = "sql" /\ n = nodeSeq + 1 /\ i = stmt[b].id
              \/ Flush(b) /\ <<i, n>> \in stmt[b].rows
<1>0. Types /\ Statements
  BY DEF Structure
<1>1. c = b
  BY <1>0, Others
<1> DEFINE r == <<"label", i, n>>
<1>2. ~IndexFill(b) \/ r \notin Filled(b)
  BY <1>0, FillIs
<1>3. r \in added'[b] /\ r \notin added[b]
  BY <1>1
<1>4. \/ InsertNode(b) /\ stmt[b].api = "sql" /\ r = <<"label", stmt[b].id, nodeSeq + 1>>
      \/ Flush(b) /\ (\E x \in stmt[b].rows : r = <<"label", x[1], x[2]>>)
  BY <1>0, <1>2, <1>3, AddedIs
<1>5. CASE Flush(b) /\ (\E x \in stmt[b].rows : r = <<"label", x[1], x[2]>>)
  <2>1. PICK x \in stmt[b].rows : i = x[1] /\ n = x[2]
    BY <1>5
  <2>2. stmt[b].rows \subseteq Ids \X Nodes
    BY <1>0, <1>5, AtIs DEF Flush, Creating, Creates
  <2> QED BY <1>1, <1>5, <2>1, <2>2
<1> QED BY <1>1, <1>4, <1>5

\* How an index entry comes about.
LEMMA ValueStep ==
    ASSUME Structure, NEW b \in Backends, Run(b), NEW c \in Backends, NEW n \in Nodes, NEW i \in Ids,
           NEW v \in Values, <<"value", i, v, n>> \in added'[c], <<"value", i, v, n>> \notin added[c]
    PROVE  /\ c = b
           /\ \/ IndexNode(b) /\ i = stmt[b].id /\ v = stmt[b].v /\ n = stmt[b].n
              \/ IndexFill(b) /\ <<"value", i, v, n>> \in Filled(b)
<1>0. Types /\ Statements
  BY DEF Structure
<1>1. c = b
  BY <1>0, Others
<1> DEFINE r == <<"value", i, v, n>>
<1>2. r \in added'[b] /\ r \notin added[b]
  BY <1>1
<1>3. \/ IndexNode(b) /\ r = <<"value", stmt[b].id, stmt[b].v, stmt[b].n>>
      \/ IndexFill(b) /\ r \in Filled(b)
  BY <1>0, <1>2, AddedIs
<1> QED BY <1>1, <1>3

\* How the rows a CREATE has pending, the node it works on and a snapshot change.
LEMMA WorkStep ==
    ASSUME Types, Statements, NEW b \in Backends, Run(b)
    PROVE  /\ Creating(b)' /\ stmt'[b].pc \in {"index", "check"} => InsertNode(b) \/ IndexNode(b)
           /\ Indexing(b)' => \/ Indexing(b) /\ stmt'[b].snap = stmt[b].snap
                              \/ stmt'[b].snap = StoredIn(db) /\ db' = db
           /\ \A x : x \in Pending(b)' /\ x \notin Pending(b) =>
                 InsertNode(b) /\ stmt[b].api # "sql" /\ x = <<stmt[b].id, nodeSeq + 1>>
           /\ \A x : x \in Pending(b) => x \in Pending(b)' \/ Flush(b) \/ Ends(b)
<1>1. CASE EnsureCached(b) \/ Ensure(b)
  <2>1. PICK n \in Names, i \in Ids : Resolves(b, n, i)
    BY <1>1, EnsureIs
  <2> QED BY <2>1, ResolveIs, Kinds DEF Pending
<1>2. CASE InsertNode(b)
  <2>1. stmt[b].api # "sql" => stmt'[b].rows = stmt[b].rows \cup {<<stmt[b].id, nodeSeq + 1>>}
    BY <1>2, InsertIs
  <2>2. stmt[b].api = "sql" => stmt'[b].rows = stmt[b].rows
    BY <1>2, InsertIs
  <2> QED BY <1>2, <2>1, <2>2, InsertIs, Kinds DEF Pending, Creating, Indexing
<1>3. CASE IndexNode(b)
  BY <1>3, IndexNodeIs, Kinds DEF Pending, Creating, Indexing
<1>4. CASE CheckUnique(b)
  BY <1>4, CheckIs, Kinds DEF Pending, Creating, Indexing
<1>5. CASE IndexUpsert(b) \/ IndexClean(b)
  BY <1>5, IndexStepIs, Kinds DEF Pending, Creating, Indexing
<1>6. CASE \E l \in Labels, v \in Values \cup {NoVal} : NextRow(b, l, v)
  BY <1>6, NextRowIs, Kinds DEF Pending, Creating, Indexing
<1>7. CASE \E l \in Labels, api \in Apis, v \in Values \cup {NoVal} : StartCreate(b, api, l, v)
  BY <1>7, StartCreateIs, Kinds DEF Pending, Creating, Indexing
<1>8. CASE \E l \in Labels, api \in Apis : StartIndex(b, api, l)
  <2>1. db' = db
    BY <1>8 DEF StartIndex, tables
  <2> QED BY <1>8, <2>1, StartIndexIs, Kinds DEF Pending, Creating, Indexing
<1>9. CASE \E l \in Labels, api \in Apis : StartDrop(b, api, l)
  BY <1>9, DropIs, Kinds DEF Pending, Creating, Indexing
<1>10. CASE \/ Commit(b) \/ Abort(b) \/ CheckUniqueFails(b) \/ Flush(b) \/ IndexFill(b) \/ IndexPurge(b)
            \/ \E l \in Labels, api \in Apis : CreateConstraint(b, api, l) \/ DropConstraint(b, api, l)
  <2>1. ~Creating(b)' /\ ~Indexing(b)'
    BY <1>10, EndsIs
  <2>2. Creating(b) => Flush(b) \/ Ends(b)
    BY <1>10, AtIs, Kinds DEF Creating, Ends, IndexFill, IndexPurge, At, CreateConstraint, DropConstraint, Start
  <2> QED BY <2>1, <2>2 DEF Pending
<1> QED BY <1>1, <1>2, <1>3, <1>4, <1>5, <1>6, <1>7, <1>8, <1>9, <1>10 DEF Run

\* Nodes stay: nobody removes one, and only a commit adds one to the committed.
LEMMA NodeKept ==
    ASSUME Structure, NEW b \in Backends, Run(b), NEW n \in Nodes, NEW i \in Ids, NEW v \in Values \cup {NoVal}
    PROVE  /\ Node(db, n, i, v) => Node(db', n, i, v)
           /\ Node(db', n, i, v) => Node(db, n, i, v) \/ (Commit(b) /\ Node(added[b], n, i, v))
           /\ \A c \in Backends : /\ ~Node(removed[c], n, i, v)
                                  /\ c # b \/ ~Ends(b) => (Node(added[c], n, i, v) => Node(added'[c], n, i, v))
<1> DEFINE r == <<"node", n, i, v>>
<1>1. r \in Row /\ r[1] = "node"
  BY DEF Row
<1> HIDE DEF r
<1> QED BY <1>1, Lasting DEF Node, r

\* The same for label rows.
LEMMA LabelKept ==
    ASSUME Structure, NEW b \in Backends, Run(b), NEW n \in Nodes, NEW i \in Ids
    PROVE  /\ <<"label", i, n>> \in db => <<"label", i, n>> \in db'
           /\ <<"label", i, n>> \in db' => <<"label", i, n>> \in db \/ (Commit(b) /\ <<"label", i, n>> \in added[b])
           /\ \A c \in Backends : /\ <<"label", i, n>> \notin removed[c]
                                  /\ c # b \/ ~Ends(b) => (<<"label", i, n>> \in added[c] => <<"label", i, n>> \in added'[c])
<1> DEFINE r == <<"label", i, n>>
<1>1. r \in Row /\ r[1] = "label"
  BY DEF Row
<1> HIDE DEF r
<1> QED BY <1>1, Lasting DEF r

\* The sequence of nodes grows with inserts only.
LEMMA NodeSeqStep ==
    ASSUME Types, Statements, NEW b \in Backends, Run(b)
    PROVE  nodeSeq' = nodeSeq \/ (InsertNode(b) /\ nodeSeq' = nodeSeq + 1)
<1>1. CASE EnsureCached(b) \/ Ensure(b)
  <2>1. PICK n \in Names, i \in Ids : Resolves(b, n, i)
    BY <1>1, EnsureIs
  <2> QED BY <2>1 DEF Resolves
<1>2. CASE Ends(b)
  BY <1>2, EndLocks DEF ids
<1>3. CASE InsertNode(b)
  BY <1>3 DEF InsertNode
<1>4. CASE IndexNode(b) \/ CheckUnique(b) \/ Flush(b) \/ \E l \in Labels, v \in Values \cup {NoVal} : NextRow(b, l, v)
  <2>1. IndexNode(b) \/ CheckUnique(b) \/ Flush(b) => nodeSeq' = nodeSeq
    BY DEF IndexNode, CheckUnique, Flush, ids
  <2>2. ASSUME NEW l \in Labels, NEW v \in Values \cup {NoVal}, NextRow(b, l, v) PROVE nodeSeq' = nodeSeq
    BY <2>2 DEF NextRow, ids
  <2> QED BY <1>4, <2>1, <2>2
<1>5. CASE IndexUpsert(b) \/ IndexClean(b) \/ IndexFill(b) \/ IndexPurge(b)
  BY <1>5 DEF IndexUpsert, IndexClean, IndexFill, IndexPurge, ids
<1>6. CASE \E l \in Labels, api \in Apis :
              \/ \E v \in Values \union {NoVal} : StartCreate(b, api, l, v)
              \/ StartIndex(b, api, l) \/ StartDrop(b, api, l)
              \/ CreateConstraint(b, api, l) \/ DropConstraint(b, api, l)
  BY <1>6 DEF StartCreate, StartIndex, StartDrop, CreateConstraint, DropConstraint, ids
<1> QED BY <1>1, <1>2, <1>3, <1>4, <1>5, <1>6 DEF Run, Ends

\* A step keeps others' nodes, label rows and entries together.
LEMMA StoredOthers ==
    ASSUME Structure, NEW b \in Backends, Run(b), NEW c \in Backends, c # b, Stored(c)
    PROVE  Stored(c)'
<1>1. /\ stmt'[c] = stmt[c] /\ added'[c] = added[c]
      /\ (Creating(c)' <=> Creating(c)) /\ (Indexing(c)' <=> Indexing(c)) /\ Pending(c)' = Pending(c)
  BY Others DEF Structure, Creating, Indexing, Pending
<1>2. ASSUME NEW n \in Nodes, NEW i \in Ids, NEW v \in Values, <<"value", i, v, n>> \in added'[c]
      PROVE  Node(db' \cup added'[c], n, i, v)
  <2>1. Node(db \cup added[c], n, i, v)
    BY <1>1, <1>2 DEF Stored
  <2> QED BY <1>1, <2>1, NodeKept DEF Node
<1>3. ASSUME Indexing(c)' PROVE stmt'[c].snap \subseteq db'
  <2>1. stmt[c].snap \subseteq db /\ stmt[c].snap \subseteq StoredIn(Row)
    BY <1>1, <1>3 DEF Stored, Indexing, Indexes
  <2>2. ASSUME NEW r \in stmt[c].snap PROVE r \in db'
    <3>1. r \in db /\ r \in Row /\ r[1] = "node"
      BY <2>1 DEF StoredIn
    <3> QED BY <3>1, Lasting
  <2> QED BY <1>1, <2>2
<1>4. \A n \in Nodes, i \in Ids : <<"label", i, n>> \in added'[c] \/ <<i, n>> \in Pending(c)' =>
          \E v \in Values \cup {NoVal} : Node(added'[c], n, i, v)
  BY <1>1 DEF Stored
<1>5. \A n \in Nodes, i \in Ids, v \in Values \cup {NoVal} : Node(added'[c], n, i, v) =>
          <<"label", i, n>> \in added'[c] \/ <<i, n>> \in Pending(c)'
  BY <1>1 DEF Stored
<1>6. Creating(c)' /\ stmt'[c].pc \in {"index", "check"} => Node(added'[c], stmt'[c].n, stmt'[c].id, stmt'[c].v)
  BY <1>1 DEF Stored
<1> QED BY <1>2, <1>3, <1>4, <1>5, <1>6 DEF Stored, Node

\* A step keeps its own transaction's nodes, label rows and entries together.
LEMMA StoredOwn ==
    ASSUME Structure, NEW b \in Backends, Run(b), Stored(b), Numbered
    PROVE  Stored(b)'
<1>0. Types /\ Statements
  BY DEF Structure
<1>1. CASE Ends(b)
  <2>1. added'[b] = {} /\ ~Creating(b)' /\ ~Indexing(b)'
    BY <1>0, <1>1, EndLocks, EndsIs DEF Ends
  <2> QED BY <2>1 DEF Stored, Pending, Node
<1>2. CASE ~Ends(b)
  <2> DEFINE new == <<"node", nodeSeq + 1, stmt[b].id, stmt[b].v>>
  <2>0. ASSUME InsertNode(b)
        PROVE  /\ nodeSeq + 1 \in Nodes /\ stmt[b].id \in Ids /\ stmt[b].v \in Values \cup {NoVal}
               /\ Node(added'[b], nodeSeq + 1, stmt[b].id, stmt[b].v)
    <3>1. nodeSeq + 1 \in Nodes /\ stmt[b].id \in Ids /\ stmt[b].v \in Values \cup {NoVal}
      BY <1>0, <2>0, InsertIs DEF Creating, Creates
    <3>2. new \in added'[b]
      BY <1>0, <2>0 DEF InsertNode, Put, Types
    <3> QED BY <3>1, <3>2 DEF Node
  <2> HIDE DEF new
  <2>1. ASSUME NEW n \in Nodes, NEW i \in Ids, <<"label", i, n>> \in added'[b] \/ <<i, n>> \in Pending(b)'
        PROVE  \E v \in Values \cup {NoVal} : Node(added'[b], n, i, v)
    <3>1. CASE <<"label", i, n>> \in added[b] \/ <<i, n>> \in Pending(b)
      <4>1. PICK v \in Values \cup {NoVal} : Node(added[b], n, i, v)
        BY <3>1 DEF Stored
      <4> QED BY <1>2, <4>1, NodeKept
    <3>2. CASE InsertNode(b) /\ i = stmt[b].id /\ n = nodeSeq + 1
      BY <2>0, <3>2
    <3>3. Flush(b) /\ <<i, n>> \in stmt[b].rows => <<i, n>> \in Pending(b)
      BY <1>0, AtIs DEF Flush, Pending
    <3>4. <<"label", i, n>> \in added[b] \/ <<i, n>> \in Pending(b) \/ (InsertNode(b) /\ i = stmt[b].id /\ n = nodeSeq + 1)
      <4>1. CASE <<"label", i, n>> \in added'[b]
        BY <3>3, <4>1, LabelStep
      <4>2. CASE <<i, n>> \in Pending(b)'
        <5>1. <<i, n>> \in Pending(b) \/ (InsertNode(b) /\ <<i, n>> = <<stmt[b].id, nodeSeq + 1>>)
          BY <1>0, <4>2, WorkStep
        <5> QED BY <5>1
      <4> QED BY <2>1, <4>1, <4>2
    <3> QED BY <3>1, <3>2, <3>4
  <2>2. ASSUME NEW n \in Nodes, NEW i \in Ids, NEW v \in Values \cup {NoVal}, Node(added'[b], n, i, v)
        PROVE  <<"label", i, n>> \in added'[b] \/ <<i, n>> \in Pending(b)'
    <3>1. CASE Node(added[b], n, i, v)
      <4>1. CASE <<"label", i, n>> \in added[b]
        BY <1>2, <4>1, LabelKept
      <4>2. CASE <<i, n>> \in Pending(b)
        <5>1. CASE Flush(b)
          <6>1. <<i, n>> \in stmt[b].rows
            BY <4>2 DEF Pending
          <6>2. added' = [added EXCEPT ![b] = @ \cup {<<"label", r[1], r[2]>> : r \in stmt[b].rows}]
            BY <5>1 DEF Flush, Put
          <6> QED BY <1>0, <6>1, <6>2 DEF Types
        <5> QED BY <1>0, <1>2, <4>2, <5>1, WorkStep
      <4> QED BY <3>1, <4>1, <4>2 DEF Stored
    <3>2. CASE ~Node(added[b], n, i, v)
      <4>1. InsertNode(b) /\ n = nodeSeq + 1 /\ i = stmt[b].id
        BY <2>2, <3>2, NodeStep
      <4>2. CASE stmt[b].api = "sql"
        BY <1>0, <4>1, <4>2 DEF InsertNode, Put, Types
      <4>3. CASE stmt[b].api # "sql"
        BY <1>0, <4>1, <4>3, InsertIs DEF Pending
      <4> QED BY <4>2, <4>3
    <3> QED BY <3>1, <3>2
  <2>3. ASSUME NEW n \in Nodes, NEW i \in Ids, NEW v \in Values, <<"value", i, v, n>> \in added'[b]
        PROVE  Node(db' \cup added'[b], n, i, v)
    <3>1. Node(db \cup added[b], n, i, v)
      <4>1. CASE <<"value", i, v, n>> \in added[b]
        BY <4>1 DEF Stored
      <4>2. CASE IndexNode(b) /\ i = stmt[b].id /\ v = stmt[b].v /\ n = stmt[b].n
        BY <1>0, <4>2, IndexNodeIs DEF Stored, Node
      <4>3. CASE IndexFill(b) /\ <<"value", i, v, n>> \in Filled(b)
        <5> DEFINE r == <<"value", i, v, n>>
        <5>1. PICK j \in Ids, w \in Values, m \in Nodes :
                 /\ r = <<"value", stmt[b].id, w, m>> /\ <<"label", stmt[b].id, m>> \in View(b)
                 /\ Node(stmt[b].snap \cup added[b], m, j, w)
          BY <1>0, <4>3, FillIs
        <5>2. i = stmt[b].id /\ w = v /\ m = n
          BY <5>1
        <5>3. Node(db \cup added[b], n, j, v)
          BY <1>0, <4>3, <5>1, <5>2, FillIs DEF Stored, Node
        <5>4. \E u \in Values \cup {NoVal} : Node(db \cup added[b], n, i, u)
          BY <5>1, <5>2 DEF View, Stored, Numbered, Node
        <5>5. i = j
          BY <5>3, <5>4 DEF Numbered
        <5> QED BY <5>3, <5>5
      <4> QED BY <2>3, <4>1, <4>2, <4>3, ValueStep
    <3> QED BY <1>2, <3>1, NodeKept DEF Node
  <2>4. ASSUME Creating(b)', stmt'[b].pc \in {"index", "check"}
        PROVE  Node(added'[b], stmt'[b].n, stmt'[b].id, stmt'[b].v)
    <3>1. CASE InsertNode(b)
      BY <1>0, <2>0, <3>1, InsertIs DEF Same
    <3>2. CASE IndexNode(b)
      <4>1. /\ stmt'[b].n = stmt[b].n /\ stmt'[b].id = stmt[b].id /\ stmt'[b].v = stmt[b].v
            /\ stmt[b].n \in Nodes /\ stmt[b].id \in Ids /\ stmt[b].v \in Values \cup {NoVal}
            /\ Node(added[b], stmt[b].n, stmt[b].id, stmt[b].v)
        BY <1>0, <3>2, IndexNodeIs DEF Same, Creating, Creates, Stored
      <4> QED BY <1>2, <4>1, NodeKept
    <3> QED BY <1>0, <2>4, <3>1, <3>2, WorkStep
  <2>5. ASSUME Indexing(b)' PROVE stmt'[b].snap \subseteq db'
    <3>1. CASE Indexing(b) /\ stmt'[b].snap = stmt[b].snap
      <4>1. stmt[b].snap \subseteq db /\ stmt[b].snap \subseteq StoredIn(Row)
        BY <3>1 DEF Stored, Indexing, Indexes
      <4>2. ASSUME NEW r \in stmt[b].snap PROVE r \in db'
        <5>1. r \in db /\ r \in Row /\ r[1] = "node"
          BY <4>1 DEF StoredIn
        <5> QED BY <5>1, Lasting
      <4> QED BY <3>1, <4>2
    <3>2. CASE stmt'[b].snap = StoredIn(db) /\ db' = db
      BY <3>2 DEF StoredIn
    <3> QED BY <1>0, <2>5, <3>1, <3>2, WorkStep
  <2> QED BY <2>1, <2>2, <2>3, <2>4, <2>5 DEF Stored, Node
<1> QED BY <1>1, <1>2

\* No two nodes have one number, before and after a step.
LEMMA NumberedStep ==
    ASSUME Structure, NEW b \in Backends, Run(b), Stores
    PROVE  Numbered'
<1>0. Types /\ Statements /\ nodeSeq \in Nat
  BY DEF Structure, Types
<1>1. ASSUME NEW c \in Backends, NEW n \in Nodes, NEW i \in Ids, NEW v \in Values \cup {NoVal},
             Node(db' \cup added'[c], n, i, v)
      PROVE  \/ \E d \in Backends : Node(db \cup added[d], n, i, v)
             \/ n = nodeSeq + 1 /\ nodeSeq' = n /\ i = stmt[b].id /\ v = stmt[b].v
  <2>1. CASE Node(db', n, i, v)
    BY <2>1, NodeKept DEF Node
  <2>2. CASE Node(added'[c], n, i, v)
    <3>1. CASE Node(added[c], n, i, v)
      BY <3>1 DEF Node
    <3>2. CASE ~Node(added[c], n, i, v)
      <4>1. InsertNode(b) /\ n = nodeSeq + 1 /\ i = stmt[b].id /\ v = stmt[b].v
        BY <2>2, <3>2, NodeStep
      <4>2. nodeSeq' = nodeSeq + 1
        BY <4>1 DEF InsertNode
      <4> QED BY <4>1, <4>2
    <3> QED BY <3>1, <3>2
  <2> QED BY <1>1, <2>1, <2>2 DEF Node
<1>2. ASSUME NEW b1 \in Backends, NEW c1 \in Backends, NEW n \in Nodes, NEW i \in Ids, NEW j \in Ids,
             NEW v \in Values \cup {NoVal}, NEW w \in Values \cup {NoVal},
             Node(db' \cup added'[b1], n, i, v), Node(db' \cup added'[c1], n, j, w)
      PROVE  n <= nodeSeq' /\ i = j /\ v = w
  <2> DEFINE Old(k, u) == \E d \in Backends : Node(db \cup added[d], n, k, u)
             New(k, u) == n = nodeSeq + 1 /\ nodeSeq' = n /\ k = stmt[b].id /\ u = stmt[b].v
  <2>1. (Old(i, v) \/ New(i, v)) /\ (Old(j, w) \/ New(j, w))
    BY <1>1, <1>2
  <2>2. ASSUME Old(i, v), Old(j, w) PROVE n <= nodeSeq /\ i = j /\ v = w
    BY <2>2 DEF Stores, Numbered
  <2>3. \A k \in Ids, u \in Values \cup {NoVal} : Old(k, u) => n <= nodeSeq
    BY DEF Stores, Numbered
  <2>4. n \in Nat /\ nodeSeq <= nodeSeq' /\ nodeSeq' \in Nat
    BY <1>0, NodeSeqStep, Kinds
  <2> HIDE DEF Old
  <2>5. CASE Old(i, v) /\ Old(j, w)
    BY <1>0, <2>2, <2>4, <2>5
  <2>6. CASE New(i, v) /\ New(j, w)
    BY <2>4, <2>6
  <2>7. ~(Old(i, v) /\ New(j, w)) /\ ~(New(i, v) /\ Old(j, w))
    BY <1>0, <2>3, <2>4
  <2> HIDE DEF New
  <2> QED BY <2>1, <2>5, <2>6, <2>7
<1>3. ASSUME NEW b1 \in Backends, NEW c1 \in Backends, NEW n \in Nodes, NEW i \in Ids, NEW v \in Values \cup {NoVal},
             Node(added'[b1], n, i, v)
      PROVE  ~Node(db', n, i, v) /\ (Node(added'[c1], n, i, v) => b1 = c1)
  <2>1. ASSUME NEW d \in Backends, ~Node(added[d], n, i, v), Node(added'[d], n, i, v), NEW e \in Backends
        PROVE  d = b /\ ~Node(db \cup added[e], n, i, v)
    <3>1. d = b /\ n = nodeSeq + 1
      BY <2>1, NodeStep
    <3> QED BY <1>0, <3>1 DEF Stores, Numbered
  <2>2. CASE Node(added[b1], n, i, v)
    <3>1. ~Node(db, n, i, v)
      BY <2>2 DEF Stores, Numbered
    <3>2. Node(added[b], n, i, v) => b1 = b
      BY <2>2 DEF Stores, Numbered
    <3>3. Commit(b) => b1 # b
      BY <1>0, <1>3, EndLocks DEF Ends, Node
    <3>4. ~Node(db', n, i, v)
      BY <3>1, <3>2, <3>3, NodeKept
    <3>5. ASSUME Node(added'[c1], n, i, v) PROVE b1 = c1
      <4>1. Node(added[c1], n, i, v)
        BY <2>1, <2>2, <3>5 DEF Node
      <4> QED BY <2>2, <4>1 DEF Stores, Numbered
    <3> QED BY <3>4, <3>5
  <2>3. CASE ~Node(added[b1], n, i, v)
    <3>1. b1 = b /\ \A e \in Backends : ~Node(db \cup added[e], n, i, v)
      BY <1>3, <2>1, <2>3
    <3>2. ~Node(db', n, i, v)
      BY <3>1, NodeKept DEF Node
    <3>3. ASSUME Node(added'[c1], n, i, v) PROVE c1 = b
      BY <2>1, <3>1, <3>3 DEF Node
    <3> QED BY <3>1, <3>2, <3>3
  <2> QED BY <2>2, <2>3
<1>4. ASSUME NEW n \in Nodes, NEW i \in Ids, NEW v \in Values \cup {NoVal}, Node(db', n, i, v)
      PROVE  <<"label", i, n>> \in db'
  <2>1. CASE Node(db, n, i, v)
    BY <2>1, LabelKept DEF Stores, Numbered
  <2>2. CASE Commit(b) /\ Node(added[b], n, i, v)
    <3>1. Pending(b) = {} /\ db' = (db \ removed[b]) \cup added[b]
      BY <2>2, Kinds DEF Commit, Pending, Creating
    <3> QED BY <2>2, <3>1 DEF Stores, Stored
  <2> QED BY <1>4, <2>1, <2>2, NodeKept
<1>5. ASSUME NEW n \in Nodes, NEW i \in Ids, <<"label", i, n>> \in db'
      PROVE  \E v \in Values \cup {NoVal} : Node(db', n, i, v)
  <2>1. CASE <<"label", i, n>> \in db
    BY <2>1, NodeKept DEF Stores, Numbered
  <2>2. CASE Commit(b) /\ <<"label", i, n>> \in added[b]
    BY <2>2 DEF Stores, Stored, Commit, Node
  <2> QED BY <1>5, <2>1, <2>2, LabelKept
<1>6. ASSUME NEW n \in Nodes, NEW i \in Ids, NEW v \in Values, <<"value", i, v, n>> \in db'
      PROVE  Node(db', n, i, v)
  <2>1. CASE <<"value", i, v, n>> \in db
    BY <2>1, NodeKept DEF Stores, Numbered
  <2>2. CASE <<"value", i, v, n>> \notin db
    <3>1. Commit(b) /\ db' = (db \ removed[b]) \cup added[b]
      BY <1>0, <1>6, <2>2, DeletedIs DEF Commit
    <3>2. Node(db \cup added[b], n, i, v)
      BY <1>6, <2>2, <3>1 DEF Stores, Stored
    <3> QED BY <3>1, <3>2, NodeKept DEF Node
  <2> QED BY <2>1, <2>2
<1> QED BY <1>2, <1>3, <1>4, <1>5, <1>6 DEF Numbered, Node

\* The invariant of the stores holds at first.
LEMMA StoresInit == Init => Stores
<1> SUFFICES ASSUME Init PROVE Stores
  OBVIOUS
<1>1. \A b \in Backends : ~Creating(b) /\ ~Indexing(b) /\ Pending(b) = {}
  BY Kinds DEF Init, Creating, Indexing, Pending
<1> QED BY <1>1 DEF Init, Stores, Stored, Numbered, Node

\* Every step keeps the invariant of the stores.
LEMMA StoresStep == Structure /\ Stores /\ [Next]_vars => Stores'
<1> SUFFICES ASSUME Structure, Stores, [Next]_vars PROVE Stores'
  OBVIOUS
<1>1. ASSUME NEW b \in Backends, Run(b) PROVE Stores'
  <2>1. \A c \in Backends : Stored(c)'
    BY <1>1, StoredOthers, StoredOwn DEF Stores
  <2> QED BY <1>1, <2>1, NumberedStep DEF Stores
<1>2. CASE UNCHANGED vars
  <2>1. UNCHANGED <<db, added, stmt, nodeSeq>>
    BY <1>2 DEF vars, tables, ids
  <2>2. \A b \in Backends : (Creating(b)' <=> Creating(b)) /\ (Indexing(b)' <=> Indexing(b)) /\ Pending(b)' = Pending(b)
    BY <2>1 DEF Creating, Indexing, Pending
  <2>3. \A b \in Backends : Stored(b)'
    <3>1. ASSUME NEW b \in Backends PROVE Stored(b)'
      <4>1. Stored(b) /\ UNCHANGED <<db, added[b], stmt[b]>>
        BY <2>1 DEF Stores
      <4>2. (Creating(b)' <=> Creating(b)) /\ (Indexing(b)' <=> Indexing(b)) /\ Pending(b)' = Pending(b)
        BY <2>2
      <4> HIDE DEF Creating, Indexing, Pending
      <4> QED BY <4>1, <4>2 DEF Stored, Node
    <3> QED BY <3>1
  <2>4. Numbered'
    BY <2>1 DEF Stores, Numbered, Node
  <2> QED BY <2>3, <2>4 DEF Stores
<1> QED BY <1>1, <1>2 DEF Next

\* Every node has its label row and every index entry its node, whether committed
\* or not, and no two nodes one number.
THEOREM StoresHold == Spec => []Stores
BY StoresInit, StoresStep, StructureHolds, PTL DEF Spec

-----------------------------------------------------------------------------
(* The rows of indexes.                                                    *)

\* How an index row comes into view.
LEMMA IndexRowStep ==
    ASSUME Structure, NEW b \in Backends, Run(b), NEW l \in Labels
    PROVE  /\ <<"index", l>> \in added'[b] => <<"index", l>> \in added[b] \/ (IndexUpsert(b) /\ l = stmt[b].l)
           /\ ~Ends(b) /\ <<"index", l>> \in View(b)' =>
                 <<"index", l>> \in View(b) \/ (IndexUpsert(b) /\ l = stmt[b].l)
           /\ \A c \in Backends : c # b /\ <<"index", l>> \in View(c)' =>
                 <<"index", l>> \in View(c) \/ (Commit(b) /\ <<"index", l>> \in added[b])
<1> DEFINE r == <<"index", l>>
<1>0. Types /\ Statements
  BY DEF Structure
<1>1. ~IndexFill(b) \/ r \notin Filled(b)
  BY <1>0, FillIs
<1>2. r \in added'[b] => r \in added[b] \/ (IndexUpsert(b) /\ r = <<"index", stmt[b].l>>)
  BY <1>0, <1>1, AddedIs
<1>3. r \in added'[b] => r \in added[b] \/ (IndexUpsert(b) /\ l = stmt[b].l)
  BY <1>2
<1> HIDE DEF r
<1>4. ASSUME ~Ends(b), r \in View(b)' PROVE r \in View(b) \/ (IndexUpsert(b) /\ l = stmt[b].l)
  <2>1. db' = db /\ (r \in removed[b] => r \in removed'[b])
    BY <1>0, <1>4, DeletedIs DEF Ends
  <2> QED BY <1>3, <1>4, <2>1 DEF View
<1>5. ASSUME NEW c \in Backends, c # b, r \in View(c)' PROVE r \in View(c) \/ (Commit(b) /\ r \in added[b])
  <2>1. added'[c] = added[c] /\ removed'[c] = removed[c]
    BY <1>0, <1>5, Others
  <2>2. db' = db \/ (Commit(b) /\ db' = (db \ removed[b]) \cup added[b])
    BY <1>0, DeletedIs DEF Commit
  <2> QED BY <1>5, <2>1, <2>2 DEF View
<1> QED BY <1>3, <1>4, <1>5 DEF r

\* How a CREATE INDEX, a DROP INDEX and the cache of indexed properties change.
LEMMA BuildingStep ==
    ASSUME Types, Statements, NEW b \in Backends, Run(b), NEW l \in Labels
    PROVE  /\ Building(b, l) /\ ~Building(b, l)' => IndexFill(b) \/ Ends(b)
           /\ Building(b, l)' => Building(b, l) \/ stmt[b] = Idle
           /\ Dropping(b)' => \E k \in Labels, api \in Apis : StartDrop(b, api, k) /\ k = stmt'[b].l
           /\ Creating(b)' /\ stmt'[b].pc = "check" => IndexNode(b)
           /\ Building(b, l)' /\ stmt'[b].pc = "fill" =>
                 IndexClean(b)
<1>1. CASE EnsureCached(b) \/ Ensure(b)
  <2>1. PICK n \in Names, i \in Ids : Resolves(b, n, i)
    BY <1>1, EnsureIs
  <2> QED BY <2>1, ResolveIs, Kinds DEF Building
<1>2. CASE InsertNode(b)
  BY <1>2, InsertIs, Kinds DEF Building, Creating, Indexing, Dropping
<1>3. CASE IndexNode(b)
  BY <1>3, IndexNodeIs, Kinds DEF Building, Creating, Indexing, Dropping
<1>4. CASE CheckUnique(b)
  BY <1>4, CheckIs, Kinds DEF Building, Creating, Indexing, Dropping
<1>5. CASE IndexUpsert(b) \/ IndexClean(b)
  BY <1>5, IndexStepIs, Kinds DEF Building, Creating, Indexing, Dropping, Same
<1>6. CASE \E k \in Labels, v \in Values \cup {NoVal} : NextRow(b, k, v)
  BY <1>6, NextRowIs, Kinds DEF Building, Creating, Indexing, Dropping
<1>7. CASE \E k \in Labels, api \in Apis, v \in Values \cup {NoVal} : StartCreate(b, api, k, v)
  BY <1>7, StartCreateIs, Kinds DEF Building, Creating, Indexing, Dropping
<1>8. CASE \E k \in Labels, api \in Apis : StartIndex(b, api, k)
  BY <1>8, StartIndexIs, Kinds DEF Building, Creating, Indexing, Dropping
<1>9. CASE \E k \in Labels, api \in Apis : StartDrop(b, api, k)
  BY <1>9, DropIs, Kinds DEF Building, Creating, Indexing, Dropping
<1>10. CASE \/ Commit(b) \/ Abort(b) \/ CheckUniqueFails(b) \/ Flush(b) \/ IndexFill(b) \/ IndexPurge(b)
            \/ \E k \in Labels, api \in Apis : CreateConstraint(b, api, k) \/ DropConstraint(b, api, k)
  <2>1. ~Creating(b)' /\ ~Indexing(b)' /\ ~Dropping(b)'
    BY <1>10, EndsIs
  <2>2. Indexing(b) => IndexFill(b) \/ Ends(b)
    BY <1>10, AtIs, Kinds DEF Indexing, Ends, Flush, IndexPurge, At, CreateConstraint, DropConstraint, Start
  <2> QED BY <2>1, <2>2 DEF Building
<1> QED BY <1>1, <1>2, <1>3, <1>4, <1>5, <1>6, <1>7, <1>8, <1>9, <1>10 DEF Run

\* The cache of indexed properties is cleared, kept, or filled by index_node_insert.
LEMMA IxCacheStep ==
    ASSUME Types, Statements, NEW b \in Backends, Run(b), NEW l \in Labels
    PROVE  ixCache'[b][l] \in {ixCache[b][l], "none"} \/ (IndexNode(b) /\ l = stmt[b].l)
<1>0. ixCache \in [Backends -> [Labels -> {"none", "yes", "no"}]]
  BY DEF Types
<1>1. ASSUME NEW api, ClearCaches(b, api) PROVE ixCache'[b][l] \in {ixCache[b][l], "none"}
  <2>1. ixCache' = ixCache \/ ixCache' = [ixCache EXCEPT ![b] = [k \in Labels |-> "none"]]
    BY <1>1 DEF ClearCaches, caches
  <2> QED BY <1>0, <2>1
<1>2. CASE EnsureCached(b) \/ Ensure(b)
  <2>1. PICK n \in Names, i \in Ids : Resolves(b, n, i)
    BY <1>2, EnsureIs
  <2> QED BY <2>1 DEF Resolves
<1>3. CASE Ends(b)
  BY <1>3, EndLocks DEF caches
<1>4. CASE InsertNode(b) \/ CheckUnique(b) \/ Flush(b)
  BY <1>4 DEF InsertNode, CheckUnique, Flush, caches
<1>5. CASE IndexNode(b)
  <2>1. \E x : ixCache' = [ixCache EXCEPT ![b][stmt[b].l] = x]
    BY <1>5 DEF IndexNode
  <2> QED BY <1>0, <1>5, <2>1
<1>6. CASE IndexUpsert(b) \/ IndexClean(b) \/ IndexFill(b) \/ IndexPurge(b)
  BY <1>6 DEF IndexUpsert, IndexClean, IndexFill, IndexPurge, caches
<1>7. CASE \E k \in Labels, v \in Values \cup {NoVal} : NextRow(b, k, v)
  BY <1>7 DEF NextRow, caches
<1>8. CASE \E k \in Labels, api \in Apis :
              \/ \E v \in Values \union {NoVal} : StartCreate(b, api, k, v)
              \/ StartIndex(b, api, k) \/ StartDrop(b, api, k)
              \/ CreateConstraint(b, api, k) \/ DropConstraint(b, api, k)
  <2>1. PICK api \in Apis : ClearCaches(b, api)
    BY <1>8 DEF StartCreate, StartIndex, StartDrop, CreateConstraint, DropConstraint
  <2> QED BY <1>1, <2>1
<1> QED BY <1>2, <1>3, <1>4, <1>5, <1>6, <1>7, <1>8 DEF Run, Ends

\* The two histories.
LEMMA HistoryStep ==
    ASSUME Types, Statements, NEW b \in Backends, Run(b)
    PROVE  /\ late \subseteq late'
           /\ \/ guarded' = guarded
              \/ guarded' = {} /\ IndexClean(b)
              \/ CheckUnique(b) /\ guarded' = guarded \cup {stmt[b].n}
                 /\ <<"unique", stmt[b].l>> \in View(b) /\ <<"index", stmt[b].l>> \in View(b)
           /\ IndexClean(b) => guarded' = {}
<1>1. CASE EnsureCached(b) \/ Ensure(b)
  <2>1. PICK n \in Names, i \in Ids : Resolves(b, n, i)
    BY <1>1, EnsureIs
  <2>2. ~IndexClean(b)
    BY <2>1, ResolveIs, IndexStepIs
  <2> QED BY <2>1, <2>2 DEF Resolves
<1>2. CASE Ends(b)
  <2>1. late \subseteq late' /\ guarded' = guarded
    BY <1>2 DEF Ends, Commit, Abort, CheckUniqueFails, history
  <2>2. ~IndexClean(b)
    BY <1>2, EndsIs, IndexStepIs DEF Ends
  <2> QED BY <2>1, <2>2
<1>3. CASE CheckUnique(b)
  <2>1. ~IndexClean(b)
    BY <1>3, CheckIs, IndexStepIs, Kinds DEF Creating, Indexing
  <2> QED BY <1>3, <2>1 DEF CheckUnique
<1>4. CASE IndexClean(b)
  BY <1>4 DEF IndexClean
<1>5. CASE UNCHANGED history /\ ~IndexClean(b)
  BY <1>5 DEF history
<1>6. InsertNode(b) \/ IndexNode(b) \/ Flush(b) \/ IndexUpsert(b) \/ IndexFill(b) \/ IndexPurge(b) => UNCHANGED history
  BY DEF InsertNode, IndexNode, Flush, IndexUpsert, IndexFill, IndexPurge
<1>7. ASSUME NEW k \in Labels, NEW v \in Values \cup {NoVal}, NextRow(b, k, v) PROVE UNCHANGED history
  BY <1>7 DEF NextRow
<1>8. ASSUME NEW k \in Labels, NEW api \in Apis,
             \/ \E v \in Values \union {NoVal} : StartCreate(b, api, k, v)
             \/ StartIndex(b, api, k) \/ StartDrop(b, api, k)
             \/ CreateConstraint(b, api, k) \/ DropConstraint(b, api, k)
      PROVE  UNCHANGED history
  BY <1>8 DEF StartCreate, StartIndex, StartDrop, CreateConstraint, DropConstraint
<1> QED BY <1>1, <1>2, <1>3, <1>4, <1>5, <1>6, <1>7, <1>8 DEF Run, Ends

\* A step keeps what others know of the rows of indexes.
LEMMA IndexRowsOthers ==
    ASSUME Structure, NEW b \in Backends, Run(b), NEW c \in Backends, c # b, IndexRows(b), IndexRows(c)
    PROVE  IndexRows(c)'
<1>0. Types /\ Statements /\ Locking
  BY DEF Structure
<1>1. /\ stmt'[c] = stmt[c] /\ added'[c] = added[c] /\ ixCache'[c] = ixCache[c]
      /\ (Creating(c)' <=> Creating(c)) /\ (Indexing(c)' <=> Indexing(c)) /\ (Dropping(c)' <=> Dropping(c))
      /\ \A l : Building(c, l)' <=> Building(c, l)
      /\ \A k : Has(c, k)' <=> Has(c, k)
  BY <1>0, Others DEF Creating, Indexing, Dropping, Building
<1>2. ASSUME NEW l \in Labels, Has(c, l) \/ Has(c, <<"index", l>>), <<"index", l>> \in View(c)'
      PROVE  <<"index", l>> \in View(c)
  <2>1. SUFFICES ASSUME Commit(b), <<"index", l>> \in added[b] PROVE FALSE
    BY <1>2, IndexRowStep
  <2>2. ~Building(b, l)
    BY <2>1, Kinds DEF Commit, Building, Indexing
  <2>3. Has(b, <<"index", l>>) /\ Has(b, l)
    BY <2>1, <2>2 DEF IndexRows
  <2> QED BY <1>0, <1>2, <2>3 DEF Locking, Has
<1>3. \A l \in Labels : <<"index", l>> \in added'[c] => Has(c, <<"index", l>>)' /\ (Has(c, l)' \/ Building(c, l)')
  BY <1>1 DEF IndexRows
<1>4. ASSUME NEW l \in Labels, stmt'[c] # Idle, ixCache'[c][l] # "none"
      PROVE  Has(c, l)' /\ (ixCache'[c][l] = "no" => <<"index", l>> \notin View(c)')
  BY <1>1, <1>2, <1>4 DEF IndexRows
<1>5. ASSUME Dropping(c)' PROVE <<"index", stmt'[c].l>> \notin View(c)'
  <2>1. stmt[c].l \in Labels /\ Has(c, <<"index", stmt[c].l>>) /\ <<"index", stmt[c].l>> \notin View(c)
    BY <1>0, <1>1, <1>5 DEF IndexRows, Locking, Dropping, Drops
  <2> QED BY <1>1, <1>2, <2>1
<1>6. ASSUME Creating(c)', stmt'[c].pc = "check"
      PROVE  /\ ixCache'[c][stmt'[c].l] # "none"
             /\ ixCache'[c][stmt'[c].l] = "yes" /\ stmt'[c].v # NoVal =>
                   <<"value", stmt'[c].id, stmt'[c].v, stmt'[c].n>> \in added'[c]
  BY <1>1, <1>6 DEF IndexRows
<1>7. ASSUME Indexing(c)' PROVE \A l \in Labels : ixCache'[c][l] = "none"
  BY <1>1, <1>7 DEF IndexRows
<1>8. ASSUME Indexing(c)', NEW n \in Nodes, NEW i \in Ids, NEW v \in Values \cup {NoVal}, Node(db', n, i, v), n \notin late'
      PROVE  Node(stmt'[c].snap, n, i, v)
  <2>1. CASE Node(db, n, i, v)
    BY <1>0, <1>1, <1>8, <2>1, HistoryStep DEF IndexRows
  <2>2. CASE Commit(b) /\ Node(added[b], n, i, v)
    <3> DEFINE r == <<"node", n, i, v>>
    <3>1. r \in StoredIn(added[b]) /\ r[2] = n
      BY <2>2 DEF StoredIn, Node
    <3>2. stmt[c] # Idle /\ stmt[c].kind = "index"
      BY <1>1, <1>8, Kinds DEF Indexing
    <3> HIDE DEF r
    <3>3. n \in late'
      BY <1>8, <2>2, <3>1, <3>2 DEF Commit
    <3> QED BY <1>8, <3>3
  <2> QED BY <1>8, <2>1, <2>2, NodeKept
<1> QED BY <1>3, <1>4, <1>5, <1>6, <1>7, <1>8 DEF IndexRows, Node

\* A step keeps what its own statement knows of the rows of indexes.
LEMMA IndexRowsOwn ==
    ASSUME Structure, CypherOnly, NEW b \in Backends, Run(b), Registry(b), IndexRows(b)
    PROVE  IndexRows(b)'
<1>0. Types /\ Statements /\ Locking
  BY DEF Structure
<1>1. CASE Ends(b)
  <2>1. added'[b] = {} /\ stmt'[b] = Idle /\ ~Creating(b)' /\ ~Indexing(b)' /\ ~Dropping(b)'
    BY <1>0, <1>1, EndLocks, EndsIs DEF Ends
  <2> QED BY <2>1 DEF IndexRows
<1>2. CASE ~Ends(b)
  <2>0. \A k : Has(b, k) => Has(b, k)'
    BY <1>0, <1>2, LocksKept
  <2>1. ASSUME NEW l \in Labels, <<"index", l>> \in added'[b]
        PROVE  Has(b, <<"index", l>>)' /\ (Has(b, l)' \/ Building(b, l)')
    <3>1. CASE <<"index", l>> \in added[b]
      <4>1. Has(b, <<"index", l>>)' /\ (Has(b, l)' \/ Building(b, l))
        BY <2>0, <3>1 DEF IndexRows
      <4>2. CASE Building(b, l) /\ ~Building(b, l)'
        <5>1. IndexFill(b) /\ stmt[b].l = l
          BY <1>0, <1>2, <4>2, BuildingStep DEF Building
        <5>2. Has(b, l)
          BY <1>0, <5>1, FillIs DEF Registry
        <5> QED BY <2>0, <4>1, <5>2
      <4> QED BY <4>1, <4>2
    <3>2. CASE IndexUpsert(b) /\ l = stmt[b].l
      <4>1. Has(b, <<"index", l>>)'
        BY <3>2 DEF IndexUpsert, Lock, Has
      <4>2. Building(b, l)'
        BY <1>0, <3>2, IndexStepIs DEF Building, Same
      <4> QED BY <4>1, <4>2
    <3> QED BY <2>1, <3>1, <3>2, IndexRowStep
  <2>2. ASSUME NEW l \in Labels, stmt'[b] # Idle, ixCache'[b][l] # "none"
        PROVE  Has(b, l)' /\ (ixCache'[b][l] = "no" => <<"index", l>> \notin View(b)')
    <3>1. stmt[b] # Idle
      BY <2>2, StartClears
    <3>2. CASE IndexNode(b) /\ l = stmt[b].l
      <4>1. Has(b, l) /\ ~Indexing(b)
        BY <1>0, <3>2, IndexNodeIs, Kinds DEF Registry, Creating, Indexing
      <4>2. ASSUME ixCache'[b][l] = "no" PROVE <<"index", l>> \notin View(b)
        <5>1. ~Indexed(b, l)
          BY <1>0, <3>2, <4>2 DEF IndexNode, Types
        <5>2. ixCache[b][l] \in {"none", "no"} /\ (ixCache[b][l] = "none" => <<"index", l>> \notin View(b))
          BY <1>0, <5>1 DEF Indexed, Types
        <5> QED BY <3>1, <5>2 DEF IndexRows
      <4>3. ~IndexUpsert(b)
        BY <1>0, <4>1, IndexStepIs
      <4> QED BY <1>2, <2>0, <4>1, <4>2, <4>3, IndexRowStep
    <3>3. CASE ixCache'[b][l] = ixCache[b][l]
      <4>1. Has(b, l) /\ (ixCache[b][l] = "no" => <<"index", l>> \notin View(b))
        BY <2>2, <3>1, <3>3 DEF IndexRows
      <4>2. ~IndexUpsert(b)
        BY <1>0, <2>2, <3>3, IndexStepIs DEF IndexRows
      <4> QED BY <1>2, <2>0, <3>3, <4>1, <4>2, IndexRowStep
    <3> QED BY <1>0, <2>2, <3>2, <3>3, IxCacheStep
  <2>3. ASSUME Dropping(b)' PROVE <<"index", stmt[b].l>>' \notin View(b)'
    <3>1. PICK l \in Labels, api \in Apis : StartDrop(b, api, l) /\ l = stmt'[b].l
      <4>1. stmt'[b].l \in Labels
        BY <2>3 DEF Dropping, Drops
      <4> QED BY <1>0, <2>3, <4>1, BuildingStep
    <3>2. Delete(b, {<<"index", l>>}) /\ db' = db
      BY <3>1 DEF StartDrop
    <3>3. <<"index", l>> \notin (db' \ removed'[b]) \cup added'[b]
      BY <1>0, <3>2 DEF Delete, Types
    <3> QED BY <3>1, <3>3 DEF View
  <2>4. ASSUME Creating(b)', stmt'[b].pc = "check"
        PROVE  /\ ixCache'[b][stmt'[b].l] # "none"
               /\ ixCache'[b][stmt'[b].l] = "yes" /\ stmt'[b].v # NoVal =>
                     <<"value", stmt'[b].id, stmt'[b].v, stmt'[b].n>> \in added'[b]
    <3>1. IndexNode(b)
      <4>1. stmt'[b].l \in Labels
        BY <2>4 DEF Creating, Creates
      <4> QED BY <1>0, <2>4, <4>1, BuildingStep
    <3>2. /\ stmt'[b].l = stmt[b].l /\ stmt'[b].id = stmt[b].id /\ stmt'[b].v = stmt[b].v /\ stmt'[b].n = stmt[b].n
          /\ stmt[b].l \in Labels
      BY <1>0, <3>1, IndexNodeIs DEF Same, Creating, Creates
    <3>3. ixCache'[b][stmt[b].l] = IF Indexed(b, stmt[b].l) THEN "yes" ELSE "no"
      BY <1>0, <3>1, <3>2 DEF IndexNode, Types
    <3>4. Indexed(b, stmt[b].l) /\ stmt[b].v # NoVal => <<"value", stmt[b].id, stmt[b].v, stmt[b].n>> \in added'[b]
      BY <1>0, <3>1 DEF IndexNode, Put, Types
    <3> QED BY <3>2, <3>3, <3>4
  <2>5. ASSUME Indexing(b)', NEW l \in Labels PROVE ixCache'[b][l] = "none"
    <3>1. stmt'[b] # Idle /\ stmt'[b].l \in Labels
      BY <2>5, Kinds DEF Indexing, Indexes
    <3>2. PICK k \in Labels : Building(b, k)'
      BY <2>5, <3>1 DEF Building
    <3>3. CASE stmt[b] = Idle
      BY <3>1, <3>3, StartClears
    <3>4. CASE Indexing(b)
      <4>1. ~IndexNode(b)
        BY <1>0, <3>4, IndexNodeIs, Kinds DEF Creating, Indexing
      <4> QED BY <1>0, <3>4, <4>1, IxCacheStep DEF IndexRows
    <3>5. Indexing(b) \/ stmt[b] = Idle
      BY <1>0, <3>2, BuildingStep DEF Building
    <3> QED BY <3>3, <3>4, <3>5
  <2>6. ASSUME Indexing(b)', NEW n \in Nodes, NEW i \in Ids, NEW v \in Values \cup {NoVal}, Node(db', n, i, v), n \notin late'
        PROVE  Node(stmt'[b].snap, n, i, v)
    <3>1. Node(db, n, i, v) /\ n \notin late
      BY <1>0, <1>2, <2>6, NodeKept, HistoryStep DEF Ends
    <3>2. CASE Indexing(b) /\ stmt'[b].snap = stmt[b].snap
      BY <3>1, <3>2 DEF IndexRows
    <3>3. CASE stmt'[b].snap = StoredIn(db)
      <4> DEFINE r == <<"node", n, i, v>>
      <4>1. r \in StoredIn(db)
        BY <3>1 DEF StoredIn, Node
      <4> QED BY <3>3, <4>1 DEF Node
    <3> QED BY <1>0, <2>6, <3>2, <3>3, WorkStep
  <2> QED BY <2>1, <2>2, <2>3, <2>4, <2>5, <2>6 DEF IndexRows, Node
<1> QED BY <1>1, <1>2

-----------------------------------------------------------------------------
(* The entries of an index: how each stays when others commit and when its *)
(* own transaction goes on.                                                *)

Seen == Structure /\ Registered /\ Stores /\ \A b \in Backends : IndexRows(b)

\* Whose name an id is, and whose index a removed row.
LEMMA OwnerIs ==
    ASSUME Seen, NEW b \in Backends, NEW l \in Labels, NEW i \in Ids, Bound(l, i)
    PROVE  /\ \A n \in Nodes, v \in Values \cup {NoVal} : Node(added[b], n, i, v) => Has(b, l) /\ Known(b, l, i)
           /\ \A n \in Nodes, v \in Values \cup {NoVal} : Node(db, n, i, v) => <<"name", l, i>> \in db
           /\ \A n \in Nodes, v \in Values : <<"value", i, v, n>> \in removed[b] => Has(b, <<"index", l>>)
           /\ <<"index", l>> \in removed[b] => Has(b, <<"index", l>>)
           /\ Known(b, l, i) => <<"name", l, i>> \in View(b)
<1>0. Structure /\ Registered /\ Registry(b) /\ l \in Names
  BY Kinds DEF Seen, Registered
<1>1. \A m \in Names : Bound(m, i) => m = l
  BY <1>0 DEF Structure, Naming
<1>2. ASSUME NEW n \in Nodes, NEW v \in Values \cup {NoVal}, Node(added[b], n, i, v)
      PROVE  Has(b, l) /\ Known(b, l, i)
  <2>1. PICK k \in Labels : Known(b, k, i) /\ Has(b, k)
    BY <1>0, <1>2 DEF Registry, Node
  <2>2. Bound(k, i) /\ k \in Names
    BY <2>1, Kinds DEF Bound, Known
  <2> QED BY <1>1, <2>1, <2>2
<1>3. ASSUME NEW n \in Nodes, NEW v \in Values \cup {NoVal}, Node(db, n, i, v)
      PROVE  <<"name", l, i>> \in db
  <2>1. PICK k \in Labels : <<"name", k, i>> \in db
    BY <1>0, <1>3 DEF Registered, Node
  <2>2. Bound(k, i) /\ k \in Names
    BY <2>1, Kinds DEF Bound
  <2> QED BY <1>1, <2>1, <2>2
<1>4. ASSUME NEW n \in Nodes, NEW v \in Values, <<"value", i, v, n>> \in removed[b]
      PROVE  Has(b, <<"index", l>>)
  <2> DEFINE r == <<"value", i, v, n>>
  <2>1. Claim(b, r)
    BY <1>0, <1>4 DEF Structure, Removals, Removing
  <2>2. PICK j \in Ids, w \in Values, m \in Nodes, k \in Labels :
          r = <<"value", j, w, m>> /\ Has(b, <<"index", k>>) /\ \A x \in Names : Bound(x, j) => x = k
    BY <2>1 DEF Claim
  <2>3. i = j
    BY <2>2
  <2> QED BY <1>0, <2>2, <2>3
<1>5. ASSUME <<"index", l>> \in removed[b] PROVE Has(b, <<"index", l>>)
  <2> DEFINE r == <<"index", l>>
  <2>1. Claim(b, r)
    BY <1>0, <1>5 DEF Structure, Removals, Removing
  <2>2. PICK k \in Labels : r = <<"index", k>> /\ Has(b, <<"index", k>>)
    BY <2>1 DEF Claim
  <2> QED BY <2>2
<1>6. Known(b, l, i) => <<"name", l, i>> \in View(b)
  BY <1>0, KnownIs DEF Known, View
<1> QED BY <1>2, <1>3, <1>4, <1>5, <1>6

\* What others commit leaves no node without its entry: neither the index nor the node
\* can be new to a transaction without the lock of the label.
LEMMA EntryOthers ==
    ASSUME Seen, NEW b \in Backends, Run(b), NEW c \in Backends, c # b,
           NEW l \in Labels, NEW i \in Ids, NEW n \in Nodes, NEW v \in Values, ~Building(c, l),
           Entry(View(c), l, i, n, v), Commit(b) => Entry(View(b), l, i, n, v)
    PROVE  Entry(View(c)', l, i, n, v)
<1>0. Structure /\ Types /\ Statements /\ Locking /\ Registered /\ Stores /\ IndexRows(b) /\ IndexRows(c) /\ l \in Names
  BY Kinds DEF Seen, Structure
<1>1. added'[c] = added[c] /\ removed'[c] = removed[c]
  BY <1>0, Others
<1>2. CASE db' = db
  BY <1>1, <1>2 DEF View
<1>3. CASE Commit(b)
  <2> DEFINE idx == <<"index", l>>
             val == <<"value", i, v, n>>
             name == <<"name", l, i>>
  <2> SUFFICES ASSUME idx \in View(c)', name \in View(c)', Node(View(c)', n, i, v)
               PROVE  val \in View(c)'
    BY DEF Entry
  <2>1. db' = View(b) /\ View(c)' = (View(b) \ removed[c]) \cup added[c]
    BY <1>1, <1>3 DEF Commit, View
  <2>2. Bound(l, i)
    <3>1. name \in db \/ name \in added[b] \/ name \in added[c]
      BY <2>1 DEF View
    <3> QED BY <1>0, <3>1 DEF Bound
  <2>3. ~Building(b, l) /\ Entry(View(b), l, i, n, v)
    BY <1>3, Kinds DEF Commit, Building, Indexing
  <2>4. /\ idx \in added[b] => Has(b, idx) /\ Has(b, l)
        /\ idx \in added[c] => Has(c, idx) /\ Has(c, l)
    BY <1>0, <2>3 DEF IndexRows
  <2>5. ~(Has(b, idx) /\ Has(c, idx)) /\ ~(Has(b, l) /\ Has(c, l))
    BY <1>0 DEF Locking, Has
  <2>6. ASSUME NEW d \in Backends
        PROVE  /\ Node(added[d], n, i, v) => Has(d, l) /\ name \in View(d) /\ val \notin db
               /\ val \in removed[d] => Has(d, idx)
               /\ idx \in removed[d] => Has(d, idx)
               /\ removed[d] \subseteq db
               /\ name \in db => name \in View(d)
    <3>1. /\ Node(added[d], n, i, v) => Has(d, l) /\ name \in View(d)
          /\ val \in removed[d] => Has(d, idx)
          /\ idx \in removed[d] => Has(d, idx)
          /\ name \in db => name \in View(d)
      BY <2>2, OwnerIs DEF Known
    <3>2. Node(added[d], n, i, v) => val \notin db
      BY <1>0 DEF Stores, Numbered
    <3>3. removed[d] \subseteq db
      BY <1>0 DEF Structure, Removals, Removing
    <3> QED BY <3>1, <3>2, <3>3
  <2>7. Node(db, n, i, v) => name \in db
    BY <2>2, OwnerIs
  <2>8. /\ Node(View(c)', n, i, v) => Node(db, n, i, v) \/ Node(added[b], n, i, v) \/ Node(added[c], n, i, v)
        /\ Node(db, n, i, v) => Node(View(b), n, i, v) /\ Node(View(c), n, i, v)
        /\ Node(added[b], n, i, v) => Node(View(b), n, i, v)
        /\ Node(added[c], n, i, v) => Node(View(c), n, i, v)
    <3>1. ~Node(removed[b], n, i, v) /\ ~Node(removed[c], n, i, v)
      BY <1>0, NodeKept
    <3> QED BY <2>1, <3>1 DEF Node, View
  <2> HIDE DEF idx, val, name
  <2>9. /\ \A x : x \in View(b) <=> (x \in db /\ x \notin removed[b]) \/ x \in added[b]
        /\ \A x : x \in View(c) <=> (x \in db /\ x \notin removed[c]) \/ x \in added[c]
        /\ \A x : x \in View(c)' <=> (x \in View(b) /\ x \notin removed[c]) \/ x \in added[c]
    BY <2>1 DEF View
  <2>10. /\ idx \in View(b) /\ name \in View(b) /\ Node(View(b), n, i, v) => val \in View(b)
         /\ idx \in View(c) /\ name \in View(c) /\ Node(View(c), n, i, v) => val \in View(c)
    BY <2>3 DEF Entry, idx, name, val
  <2>11. CASE Has(c, idx)
    <3>1. idx \notin added[b] /\ idx \notin removed[b] /\ val \notin removed[b] /\ idx \in View(c)
      BY <2>4, <2>5, <2>6, <2>9, <2>11
    <3>2. CASE Node(added[b], n, i, v)
      BY <2>4, <2>5, <2>6, <2>8, <2>9, <2>10, <3>1, <3>2
    <3>3. CASE Node(db, n, i, v)
      BY <2>6, <2>7, <2>8, <2>9, <2>10, <3>1, <3>3
    <3>4. CASE Node(added[c], n, i, v)
      BY <2>6, <2>8, <2>9, <2>10, <3>1, <3>4
    <3> QED BY <2>8, <3>2, <3>3, <3>4
  <2>12. CASE ~Has(c, idx)
    <3>1. idx \in View(b) /\ idx \notin removed[c] /\ val \notin removed[c] /\ idx \notin added[c]
      BY <2>4, <2>6, <2>9, <2>12
    <3>2. CASE Node(added[b], n, i, v)
      BY <2>6, <2>8, <2>9, <2>10, <3>1, <3>2
    <3>3. CASE Node(db, n, i, v)
      BY <2>6, <2>7, <2>8, <2>9, <2>10, <3>1, <3>3
    <3>4. CASE Node(added[c], n, i, v)
      BY <2>4, <2>5, <2>6, <2>8, <2>9, <2>10, <3>1, <3>4
    <3> QED BY <2>8, <3>2, <3>3, <3>4
  <2> QED BY <2>11, <2>12
<1> QED BY <1>0, <1>2, <1>3, DeletedIs

\* What a transaction sees, step by step: names and nodes.
LEMMA SeenStep ==
    ASSUME Seen, NEW b \in Backends, Run(b), ~Ends(b), NEW l \in Labels, NEW i \in Ids, NEW n \in Nodes, NEW v \in Values,
           Node(View(b)', n, i, v), <<"name", l, i>> \in View(b)', ~InsertNode(b) \/ n # nodeSeq + 1
    PROVE  Node(View(b), n, i, v) /\ Known(b, l, i) /\ <<"name", l, i>> \in View(b) /\ Bound(l, i)
<1>0. Structure /\ Types /\ Statements /\ Registered /\ l \in Names
  BY Kinds DEF Seen, Structure
<1>1. db' = db
  BY <1>0, DeletedIs DEF Ends
<1>2. Node(View(b), n, i, v)
  <2>1. Node(db, n, i, v) \/ Node(added'[b], n, i, v)
    BY <1>1 DEF View, Node
  <2>2. Node(db, n, i, v) \/ Node(added[b], n, i, v)
    BY <1>0, <2>1, NodeStep
  <2>3. ~Node(removed[b], n, i, v)
    BY <1>0, NodeKept
  <2> QED BY <2>2, <2>3 DEF View, Node
<1>3. Known(b, l, i)'
  BY DEF View, Known
<1>4. Known(b, l, i)
  <2>1. SUFFICES ASSUME Upserts(b, l, i), ~Known(b, l, i) PROVE FALSE
    BY <1>0, <1>3, KnownStep
  <2>2. i = nameSeq + 1
    BY <1>0, <2>1, KnownIs DEF Upserts
  <2>3. PICK k \in Labels : Known(b, k, i)
    BY <1>0, <1>2 DEF Registered, Registry, Known, Node, View
  <2>4. Bound(k, i) /\ k \in Names
    BY <2>3, Kinds DEF Bound, Known
  <2>5. i <= nameSeq /\ nameSeq \in Nat
    BY <1>0, <2>4 DEF Structure, Naming, Types
  <2> QED BY <2>2, <2>5
<1>5. Bound(l, i)
  BY <1>4 DEF Bound, Known
<1> QED BY <1>2, <1>4, <1>5, OwnerIs

\* No step takes the entry of a node away from its own transaction while it has the
\* index, except one that builds the index anew.
LEMMA EntryOwn ==
    ASSUME Seen, NEW b \in Backends, Run(b), ~Ends(b), NEW l \in Labels, NEW i \in Ids, NEW n \in Nodes, NEW v \in Values,
           ~Building(b, l), Entry(View(b), l, i, n, v), ~InsertNode(b) \/ n # nodeSeq + 1
    PROVE  Entry(View(b)', l, i, n, v)
<1>0. Structure /\ Types /\ Statements /\ Registered /\ IndexRows(b) /\ l \in Names
  BY Kinds DEF Seen, Structure
<1> DEFINE val == <<"value", i, v, n>>
<1> SUFFICES ASSUME <<"index", l>> \in View(b)', <<"name", l, i>> \in View(b)', Node(View(b)', n, i, v)
             PROVE  val \in View(b)'
  BY DEF Entry
<1>1. Node(View(b), n, i, v) /\ Known(b, l, i) /\ <<"name", l, i>> \in View(b) /\ Bound(l, i)
  BY SeenStep
<1>2. <<"index", l>> \in View(b)
  BY <1>0, IndexRowStep, IndexStepIs DEF Building
<1>3. val \in View(b)
  BY <1>1, <1>2 DEF Entry
<1>4. ASSUME IndexClean(b), val \in ValuesOf(b, stmt[b].id) PROVE FALSE
  <2>1. Indexing(b) /\ LabelKnown(b) /\ stmt[b].id \in Ids /\ stmt[b].l \in Labels
    BY <1>0, <1>4, IndexStepIs DEF Indexing, Indexes
  <2>2. i = stmt[b].id
    <3>1. PICK w \in Values, m \in Nodes : val = <<"value", stmt[b].id, w, m>>
      BY <1>0, <1>4, <2>1, ViewIs
    <3> QED BY <3>1
  <2>3. Bound(stmt[b].l, i) /\ stmt[b].l \in Names
    BY <2>1, <2>2, Kinds DEF Bound
  <2>4. l = stmt[b].l
    BY <1>0, <1>1, <2>3 DEF Structure, Naming
  <2> QED BY <2>1, <2>4 DEF Building
<1>5. ASSUME IndexPurge(b), NEW j \in IdsOf(b, stmt[b].l), val \in ValuesOf(b, j) PROVE FALSE
  <2>1. Dropping(b) /\ stmt[b].l \in Labels /\ stmt[b].l \in Names
    BY <1>0, <1>5, AtIs, Kinds DEF IndexPurge, Dropping, Drops
  <2>2. j \in Ids /\ Known(b, stmt[b].l, j)
    BY <1>0, <2>1, ViewIs, KnownIs
  <2>3. i = j
    <3>1. PICK w \in Values, m \in Nodes : val = <<"value", j, w, m>>
      BY <1>0, <1>5, <2>2, ViewIs
    <3> QED BY <3>1
  <2>4. Bound(stmt[b].l, i)
    BY <2>2, <2>3 DEF Bound, Known
  <2>5. l = stmt[b].l
    BY <1>0, <1>1, <2>1, <2>4 DEF Structure, Naming
  <2> QED BY <1>0, <1>2, <2>1, <2>5 DEF IndexRows
<1>6. \A k \in Labels : val # <<"index", k>> /\ val # <<"unique", k>>
  OBVIOUS
<1> HIDE DEF val
<1>7. /\ ~(val \in removed'[b] /\ val \notin removed[b])
      /\ ~(val \in added[b] /\ val \notin added'[b])
      /\ db' = db
  BY <1>0, <1>4, <1>5, <1>6, DeletedIs DEF Ends
<1> QED BY <1>3, <1>7 DEF View

\* The entry of the node a CREATE works on: it is made when the index is there.
LEMMA EntryWorked ==
    ASSUME Seen, NEW b \in Backends, Run(b), IndexNode(b), NEW l \in Labels, NEW i \in Ids, NEW v \in Values
    PROVE  stmt[b].n \in Nodes /\ Entry(View(b)', l, i, stmt[b].n, v)
<1> DEFINE n == stmt[b].n
<1>0. Structure /\ Types /\ Statements /\ Registered /\ Numbered /\ Stored(b) /\ IndexRows(b) /\ l \in Names
  BY Kinds DEF Seen, Structure, Stores
<1>1. /\ Creating(b) /\ stmt[b].pc = "index" /\ LabelKnown(b) /\ stmt[b].id \in Ids /\ n \in Nodes
      /\ stmt[b].l \in Labels /\ stmt[b].v \in Values \cup {NoVal} /\ stmt[b] # Idle
  BY <1>0, IndexNodeIs, Kinds DEF Creating, Creates
<1>2. ~Ends(b) /\ ~InsertNode(b) /\ ~IndexUpsert(b)
  BY <1>0, <1>1, EndsIs, IndexNodeIs, InsertIs, IndexStepIs, Kinds DEF Ends, Creating, Indexing
<1> HIDE DEF n
<1> SUFFICES ASSUME <<"index", l>> \in View(b)', <<"name", l, i>> \in View(b)', Node(View(b)', n, i, v)
             PROVE  <<"value", i, v, n>> \in View(b)'
  BY <1>1 DEF Entry, n
<1>3. Node(View(b), n, i, v) /\ Bound(l, i)
  BY <1>1, <1>2, SeenStep
<1>4. Node(added[b], n, stmt[b].id, stmt[b].v)
  BY <1>0, <1>1 DEF Stored, n
<1>5. i = stmt[b].id /\ v = stmt[b].v
  <2>1. Node(db \cup added[b], n, i, v) /\ Node(db \cup added[b], n, stmt[b].id, stmt[b].v)
    BY <1>3, <1>4 DEF Node, View
  <2> QED BY <1>0, <1>1, <2>1 DEF Numbered
<1>6. l = stmt[b].l
  <2>1. Bound(stmt[b].l, i) /\ stmt[b].l \in Names
    BY <1>1, <1>5, Kinds DEF Bound
  <2> QED BY <1>0, <1>3, <2>1 DEF Structure, Naming
<1>7. <<"index", l>> \in View(b)
  BY <1>0, <1>2, IndexRowStep
<1>8. Indexed(b, l)
  <2>1. ixCache[b][l] \in {"none", "yes", "no"} /\ ixCache[b][l] # "no"
    BY <1>0, <1>1, <1>7 DEF Types, IndexRows
  <2> QED BY <1>7, <2>1 DEF Indexed
<1>9. <<"value", i, v, n>> \in added'[b]
  BY <1>0, <1>5, <1>6, <1>8 DEF IndexNode, Put, Types, n
<1> QED BY <1>9 DEF View

\* A registered name has one id in what a transaction sees.
LEMMA OneId ==
    ASSUME Structure, Registered, NEW b \in Backends, NEW n \in Names, NEW i \in Ids, NEW j \in Ids,
           Known(b, n, i), Known(b, n, j)
    PROVE  i = j
<1>1. Registry(b)
  BY DEF Registered
<1>2. CASE <<"name", n, i>> \in added[b]
  BY <1>1, <1>2 DEF Registry
<1>3. CASE <<"name", n, j>> \in added[b]
  BY <1>1, <1>3 DEF Registry
<1>4. CASE <<"name", n, i>> \in db /\ <<"name", n, j>> \in db
  BY <1>4 DEF Registered
<1> QED BY <1>2, <1>3, <1>4 DEF Known

\* The entries a CREATE INDEX makes: those of all nodes but the late ones.
LEMMA EntryFilled ==
    ASSUME Seen, NEW b \in Backends, Run(b), IndexFill(b), NEW i \in Ids, NEW n \in Nodes \ late, NEW v \in Values
    PROVE  Entry(View(b)', stmt[b].l, i, n, v)
<1> DEFINE l == stmt[b].l
<1>0. Structure /\ Types /\ Statements /\ Registered /\ Registry(b) /\ Numbered /\ Stored(b) /\ IndexRows(b)
  BY DEF Seen, Structure, Stores, Registered
<1>1. /\ Indexing(b) /\ stmt[b].pc = "fill" /\ LabelKnown(b) /\ stmt[b].id \in Ids
      /\ l \in Labels /\ l \in Names /\ n \in Nodes /\ v \in Values \cup {NoVal}
  BY <1>0, FillIs, Kinds DEF Indexing, Indexes
<1>2. ~Ends(b) /\ ~InsertNode(b) /\ ~Creating(b)
  <2>1. ~Creating(b) /\ stmt[b] # Idle
    BY <1>1, Kinds DEF Creating, Indexing
  <2>2. ~Commit(b) /\ ~InsertNode(b) /\ ~CheckUniqueFails(b)
    BY <1>0, <2>1, InsertIs, AtIs DEF Commit, CheckUniqueFails
  <2>3. ~Abort(b)
    BY <1>0, <1>1 DEF Abort, IndexFill, EndTxn, Put, Types
  <2> QED BY <2>1, <2>2, <2>3 DEF Ends
<1> HIDE DEF l
<1> SUFFICES ASSUME <<"name", l, i>> \in View(b)', Node(View(b)', n, i, v)
             PROVE  <<"value", i, v, n>> \in View(b)'
  BY DEF Entry, l
<1>3. Node(View(b), n, i, v) /\ Known(b, l, i)
  BY <1>1, <1>2, SeenStep
<1>4. i = stmt[b].id
  BY <1>0, <1>1, <1>3, OneId DEF Registry, l
<1>5. <<"label", i, n>> \in View(b)
  <2>1. Node(db, n, i, v) => <<"label", i, n>> \in db
    BY <1>0, <1>1 DEF Numbered
  <2>2. Node(added[b], n, i, v) => <<"label", i, n>> \in added[b]
    BY <1>0, <1>1, <1>2 DEF Stored, Pending
  <2>3. <<"label", i, n>> \notin removed[b]
    BY <1>0, <1>1, LabelKept
  <2> QED BY <1>3, <2>1, <2>2, <2>3 DEF View, Node
<1>6. Node(stmt[b].snap \cup added[b], n, i, v)
  <2>1. Node(db, n, i, v) => Node(stmt[b].snap, n, i, v)
    BY <1>0, <1>1 DEF IndexRows
  <2> QED BY <1>3, <2>1 DEF View, Node
<1>7. <<"value", i, v, n>> \in Filled(b)
  BY <1>0, <1>1, <1>4, <1>5, <1>6, FillIs
<1>8. <<"value", i, v, n>> \in added'[b]
  <2>1. added' = [added EXCEPT ![b] = @ \cup Filled(b)] /\ b \in DOMAIN added
    BY <1>0, FillIs DEF Types
  <2> QED BY <1>7, <2>1
<1> QED BY <1>8 DEF View

\* What a transaction sees after its end.
LEMMA ViewEnds ==
    ASSUME Types, NEW b \in Backends, Ends(b)
    PROVE  /\ View(b)' = db' /\ Working(b)' = {} /\ \A l : ~Building(b, l)'
           /\ \/ Commit(b) /\ db' = View(b) /\ Working(b) = {} /\ \A l : ~Building(b, l)
              \/ db' = db
<1>1. View(b)' = db' /\ Working(b)' = {} /\ \A l : ~Building(b, l)'
  BY EndLocks, EndsIs DEF View, Working, Building, Ends
<1>2. Commit(b) => db' = View(b) /\ Working(b) = {} /\ \A l : ~Building(b, l)
  BY Kinds DEF Commit, View, Working, Building, Creating, Indexing
<1>3. db' = db \/ Commit(b)
  BY DEF Ends, Abort, CheckUniqueFails
<1> QED BY <1>1, <1>2, <1>3

\* The node a CREATE works on is the one it has inserted, until it is indexed.
LEMMA WorkingStep ==
    ASSUME Types, Statements, NEW b \in Backends, Run(b), ~Ends(b)
    PROVE  /\ Working(b)' = IF InsertNode(b) THEN {nodeSeq + 1} ELSE {}
           /\ \A n : n \in Working(b) => IndexNode(b) /\ n = stmt[b].n
<1>1. InsertNode(b) => Working(b)' = {nodeSeq + 1}
  BY InsertIs DEF Working
<1>2. ~InsertNode(b) => Working(b)' = {}
  <2>1. IndexNode(b) => stmt'[b].pc # "index"
    BY IndexNodeIs
  <2> QED BY <2>1, WorkStep DEF Working
<1>3. ASSUME Creating(b), stmt[b].pc = "index" PROVE IndexNode(b)
  <2>1. stmt[b] # Idle /\ ~Indexing(b) /\ ~Dropping(b)
    BY <1>3, Kinds DEF Creating, Indexing, Dropping
  <2>2. ~EnsureCached(b) /\ ~Ensure(b) /\ ~InsertNode(b) /\ ~CheckUnique(b) /\ ~Flush(b)
    BY <1>3 DEF EnsureCached, Ensure, InsertNode, CheckUnique, Flush, At
  <2>3. ~IndexUpsert(b) /\ ~IndexClean(b) /\ ~IndexFill(b) /\ ~IndexPurge(b)
    BY <2>1, AtIs DEF IndexUpsert, IndexClean, IndexFill, IndexPurge
  <2>4. \A l, v : ~NextRow(b, l, v)
    BY <1>3 DEF NextRow, At
  <2>5. \A l, api, v : /\ ~StartCreate(b, api, l, v) /\ ~StartIndex(b, api, l) /\ ~StartDrop(b, api, l)
                       /\ ~CreateConstraint(b, api, l) /\ ~DropConstraint(b, api, l)
    BY <2>1 DEF StartCreate, StartIndex, StartDrop, CreateConstraint, DropConstraint, Start
  <2> QED BY <2>2, <2>3, <2>4, <2>5 DEF Run, Ends
<1> QED BY <1>1, <1>2, <1>3 DEF Working

\* The committed index entries.
LEMMA CommittedStep ==
    ASSUME Seen, NEW b \in Backends, Run(b), Entered(b), NEW l \in Labels, NEW i \in Ids
    PROVE  Complete(db', l, i, late')
<1>0. Structure /\ Types /\ Statements
  BY DEF Seen, Structure
<1>1. late \subseteq late'
  BY <1>0, HistoryStep
<1>2. CASE db' = db
  BY <1>1, <1>2 DEF Entered, Complete
<1>3. CASE Commit(b)
  <2>1. db' = View(b) /\ Working(b) = {} /\ ~Building(b, l)
    <3>1. Ends(b)
      BY <1>3 DEF Ends
    <3> QED BY <1>0, <1>3, <3>1, ViewEnds, Kinds DEF Commit, View, Working, Building, Creating, Indexing
  <2>2. Complete(View(b), l, i, late)
    BY <2>1 DEF Entered
  <2> QED BY <1>1, <2>1, <2>2 DEF Complete
<1> QED BY <1>0, <1>2, <1>3, DeletedIs

\* A step keeps the entries complete to the others.
LEMMA EnteredOthers ==
    ASSUME Seen, NEW b \in Backends, Run(b), NEW c \in Backends, c # b, Entered(b), Entered(c)
    PROVE  Entered(c)'
<1>0. Structure /\ Types /\ Statements
  BY DEF Seen, Structure
<1>1. stmt'[c] = stmt[c] /\ late \subseteq late' /\ Working(c)' = Working(c) /\ \A l : Building(c, l)' <=> Building(c, l)
  BY <1>0, Others, HistoryStep DEF Working, Building, Creating, Indexing
<1>2. ASSUME NEW l \in Labels, NEW i \in Ids, ~Building(c, l),
             NEW n \in Nodes, n \notin late, n \notin Working(c), NEW v \in Values
      PROVE  Entry(View(c)', l, i, n, v)
  <2>1. Entry(View(c), l, i, n, v)
    BY <1>2 DEF Entered, Complete
  <2>2. Commit(b) => Entry(View(b), l, i, n, v)
    <3>1. ASSUME Commit(b) PROVE Working(b) = {} /\ ~Building(b, l)
      BY <3>1, Kinds DEF Commit, Working, Building, Creating, Indexing
    <3> QED BY <1>2, <3>1 DEF Entered, Complete
  <2> QED BY <1>2, <2>1, <2>2, EntryOthers
<1>3. ASSUME NEW l \in Labels, NEW i \in Ids, ~Building(c, l)' PROVE Complete(View(c)', l, i, late' \cup Working(c)')
  BY <1>1, <1>2, <1>3 DEF Complete
<1> QED BY <1>3, CommittedStep DEF Entered, Complete, Entry, Node

\* A step keeps the entries complete to its own transaction.
LEMMA EnteredOwn ==
    ASSUME Seen, NEW b \in Backends, Run(b), Entered(b)
    PROVE  Entered(b)'
<1>0. Structure /\ Types /\ Statements
  BY DEF Seen, Structure
<1>1. late \subseteq late'
  BY <1>0, HistoryStep
<1>2. ASSUME NEW l \in Labels, NEW i \in Ids, ~Building(b, l)',
             NEW n \in Nodes, n \notin late', n \notin Working(b)', NEW v \in Values
      PROVE  Entry(View(b)', l, i, n, v)
  <2>1. CASE Ends(b)
    BY <1>0, <1>2, <2>1, ViewEnds, CommittedStep DEF Complete
  <2>2. CASE ~Ends(b) /\ Building(b, l)
    <3>1. IndexFill(b) /\ l = stmt[b].l
      BY <1>0, <1>2, <2>2, BuildingStep DEF Building
    <3> QED BY <1>1, <1>2, <3>1, EntryFilled
  <2>3. CASE ~Ends(b) /\ n \in Working(b)
    <3>1. IndexNode(b) /\ n = stmt[b].n
      BY <1>0, <2>3, WorkingStep
    <3> QED BY <3>1, EntryWorked
  <2>4. CASE ~Ends(b) /\ ~Building(b, l) /\ n \notin Working(b)
    <3>1. Entry(View(b), l, i, n, v)
      BY <1>1, <1>2, <2>4 DEF Entered, Complete
    <3>2. ~InsertNode(b) \/ n # nodeSeq + 1
      BY <1>0, <1>2, <2>4, WorkingStep
    <3> QED BY <2>4, <3>1, <3>2, EntryOwn
  <2> QED BY <2>1, <2>2, <2>3, <2>4
<1>3. ASSUME NEW l \in Labels, NEW i \in Ids, ~Building(b, l)' PROVE Complete(View(b)', l, i, late' \cup Working(b)')
  BY <1>2, <1>3 DEF Complete
<1> QED BY <1>3, CommittedStep DEF Entered, Complete, Entry, Node

\* The inductive invariant of the index: it holds at first and every step keeps it.
Maintained ==
    /\ Seen
    /\ \A b \in Backends : Entered(b)
    /\ \A l \in Labels, i \in Ids : Complete(db, l, i, late)

\* It holds at first.
LEMMA IndexInit == Init => Maintained
<1> SUFFICES ASSUME Init PROVE Maintained
  OBVIOUS
<1>1. Structure /\ Stores
  BY StructureInit, StoresInit
<1>2. /\ db = {} /\ late = {}
      /\ \A b \in Backends : /\ added[b] = {} /\ View(b) = {} /\ ~LabelKnown(b)
                             /\ ~Creating(b) /\ ~Indexing(b) /\ ~Dropping(b) /\ stmt[b] = Idle
  BY Kinds DEF Init, LabelKnown, Creating, Indexing, Dropping, View
<1>3. Registered
  BY <1>2 DEF Registered, Registry
<1>4. \A b \in Backends : IndexRows(b)
  BY <1>2 DEF IndexRows
<1>5. \A b \in Backends : Entered(b)
  BY <1>2 DEF Entered, Complete, Entry
<1>6. \A l \in Labels, i \in Ids : Complete(db, l, i, late)
  BY <1>2 DEF Complete, Entry
<1> QED BY <1>1, <1>3, <1>4, <1>5, <1>6 DEF Maintained, Seen

\* Every step keeps it, if all statements clear the caches.
LEMMA IndexStep ==
    ASSUME CypherOnly, Maintained, [Next]_vars
    PROVE  Maintained'
<1>0. Structure /\ Registered /\ Stores
  BY DEF Maintained, Seen
<1>1. Structure' /\ Registered' /\ Stores'
  BY <1>0, StructureStep, RegisteredStep, StoresStep
<1>2. ASSUME NEW b \in Backends, Run(b), NEW c \in Backends PROVE IndexRows(c)' /\ Entered(c)'
  <2>1. IndexRows(b) /\ IndexRows(c) /\ Entered(b) /\ Entered(c) /\ Seen /\ Registry(b)
    BY <1>0 DEF Maintained, Seen, Registered
  <2> QED BY <1>0, <1>2, <2>1, IndexRowsOthers, IndexRowsOwn, EnteredOthers, EnteredOwn
<1>3. ASSUME UNCHANGED vars, NEW c \in Backends PROVE IndexRows(c)' /\ Entered(c)'
  <2>1. UNCHANGED <<db, added, removed, locks, stmt, ixCache, late>>
    BY <1>3 DEF vars, tables, caches, history
  <2>2. /\ Creating(c)' <=> Creating(c)
        /\ Indexing(c)' <=> Indexing(c)
        /\ Dropping(c)' <=> Dropping(c)
        /\ \A l : Building(c, l)' <=> Building(c, l)
        /\ \A k : Has(c, k)' <=> Has(c, k)
        /\ View(c)' = View(c) /\ Working(c)' = Working(c)
    BY <2>1 DEF Creating, Indexing, Dropping, Building, Has, View, Working
  <2>3. IndexRows(c) /\ Entered(c)
    BY DEF Maintained, Seen
  <2>4. IndexRows(c)'
    BY <2>1, <2>2, <2>3 DEF IndexRows, Node
  <2>5. Entered(c)'
    BY <2>1, <2>2, <2>3 DEF Entered, Complete, Entry, Node
  <2> QED BY <2>4, <2>5
<1>4. \A c \in Backends : IndexRows(c)' /\ Entered(c)'
  BY <1>2, <1>3 DEF Next
<1>5. ASSUME NEW l \in Labels, NEW i \in Ids PROVE Complete(db', l, i, late')
  <2>1. ASSUME NEW b \in Backends, Run(b) PROVE Complete(db', l, i, late')
    BY <2>1, CommittedStep DEF Maintained
  <2>2. ASSUME UNCHANGED vars PROVE Complete(db', l, i, late')
    <3>1. db' = db /\ late' = late
      BY <2>2 DEF vars, tables, history
    <3> QED BY <3>1 DEF Maintained
  <2> QED BY <2>1, <2>2 DEF Next
<1>6. \A l \in Labels, i \in Ids : Complete(db, l, i, late)'
  BY <1>5 DEF Complete, Entry, Node
<1> QED BY <1>1, <1>4, <1>6 DEF Maintained, Seen

\* Where every statement clears the caches first, a registered index has entries only
\* for committed nodes of its label, and one for each that was not committed while a
\* CREATE INDEX was running.
THEOREM IndexIsExact == ASSUME CypherOnly PROVE Spec => []IndexExact
<1>1. ASSUME Maintained PROVE IndexExact
  <2>0. Structure /\ Registered /\ Numbered /\ db \subseteq Row
    BY <1>1 DEF Maintained, Seen, Stores, Structure, Types
  <2>1. SUFFICES ASSUME NEW l \in Labels, <<"index", l>> \in db, NEW i \in LabelIds(l)
                 PROVE  /\ Entries(i) \subseteq Due(i)
                        /\ \A r \in Due(i) \ Entries(i) : r[4] \in late
    BY DEF IndexExact
  <2>2. i \in Ids /\ <<"name", l, i>> \in db
    BY <2>0, RowIs DEF LabelIds
  <2>3. ASSUME NEW r \in Entries(i) PROVE r \in Due(i)
    <3>1. r \in db /\ r[2] = i /\ r[3] \in Values /\ r[4] \in Nodes /\ r = <<"value", i, r[3], r[4]>>
      BY <2>0, RowIs DEF Entries
    <3>2. Node(db, r[4], i, r[3])
      BY <2>0, <2>2, <3>1 DEF Numbered
    <3> DEFINE q == <<"node", r[4], i, r[3]>>
    <3>3. q \in StoredIn(db) /\ q[2] = r[4] /\ q[3] = i /\ q[4] = r[3] /\ q[4] # NoVal
      BY <3>1, <3>2 DEF StoredIn, Node
    <3>4. r = <<"value", i, q[4], q[2]>>
      BY <3>1, <3>3
    <3> QED BY <3>3, <3>4 DEF Due
  <2>4. ASSUME NEW r \in Due(i), r \notin Entries(i) PROVE r[4] \in late
    <3>1. PICK q \in StoredIn(db) : q[3] = i /\ q[4] # NoVal /\ r = <<"value", i, q[4], q[2]>>
      BY DEF Due
    <3>2. q[2] \in Nodes /\ q[4] \in Values /\ Node(db, q[2], i, q[4])
      <4>1. q \in Row /\ q \in db /\ q[1] = "node"
        BY <2>0 DEF StoredIn
      <4>2. q[2] \in Nodes /\ q[4] \in Values \cup {NoVal} /\ q = <<"node", q[2], q[3], q[4]>>
        BY <4>1, RowIs
      <4> QED BY <3>1, <4>1, <4>2 DEF Node
    <3>3. r \notin db
      BY <2>4, <3>1 DEF Entries
    <3>4. Complete(db, l, i, late)
      BY <1>1, <2>2 DEF Maintained
    <3>5. q[2] \in late
      BY <2>1, <2>2, <3>1, <3>2, <3>3, <3>4 DEF Complete, Entry
    <3> QED BY <3>1, <3>5
  <2> QED BY <2>3, <2>4
<1> QED BY <1>1, IndexInit, IndexStep, PTL DEF Spec

-----------------------------------------------------------------------------
(* The nodes whose UNIQUE check found constraint and index.                *)

\* The node that a UNIQUE check adds to them is the transaction's own.
Checked(b, n) ==
    /\ CheckUnique(b) /\ n = stmt[b].n /\ n \in Nodes /\ n <= nodeSeq
    /\ Creating(b) /\ stmt[b].pc = "check" /\ LabelKnown(b)
    /\ stmt[b].l \in Labels /\ stmt[b].id \in Ids /\ stmt[b].v \in Values \cup {NoVal}
    /\ <<"unique", stmt[b].l>> \in View(b) /\ <<"index", stmt[b].l>> \in View(b)
    /\ db' = db /\ added' = added /\ removed' = removed
    /\ \A i \in Ids, v \in Values \cup {NoVal} :
          /\ ~Node(db, n, i, v)
          /\ \A c \in Backends \ {b} : ~Node(added[c], n, i, v)
          /\ Node(added[b], n, i, v) => i = stmt[b].id /\ v = stmt[b].v

\* A node is guarded before the step, or a UNIQUE check adds it.
LEMMA GuardedStep ==
    ASSUME Seen, NEW b \in Backends, Run(b), NEW n \in guarded'
    PROVE  n \in guarded \/ Checked(b, n)
<1>0. Structure /\ Types /\ Statements /\ Numbered /\ Stored(b)
  BY DEF Seen, Structure, Stores
<1> SUFFICES ASSUME n \notin guarded PROVE Checked(b, n)
  OBVIOUS
<1>1. /\ CheckUnique(b) /\ n = stmt[b].n
      /\ <<"unique", stmt[b].l>> \in View(b) /\ <<"index", stmt[b].l>> \in View(b)
  BY <1>0, HistoryStep
<1>2. /\ Creating(b) /\ stmt[b].pc = "check" /\ LabelKnown(b) /\ n \in Nodes
      /\ stmt[b].l \in Labels /\ stmt[b].id \in Ids /\ stmt[b].v \in Values \cup {NoVal}
  BY <1>0, <1>1, CheckIs DEF Creating, Creates
<1>3. db' = db /\ added' = added /\ removed' = removed
  BY <1>1 DEF CheckUnique, tables
<1>4. Node(added[b], n, stmt[b].id, stmt[b].v)
  BY <1>0, <1>1, <1>2 DEF Stored
<1>5. ~Node(db, n, stmt[b].id, stmt[b].v) /\ \A c \in Backends : Node(added[c], n, stmt[b].id, stmt[b].v) => c = b
  BY <1>0, <1>2, <1>4 DEF Numbered
<1>6. ASSUME NEW c \in Backends, NEW i \in Ids, NEW v \in Values \cup {NoVal}, Node(db \cup added[c], n, i, v)
      PROVE  n <= nodeSeq /\ i = stmt[b].id /\ v = stmt[b].v
  <2>1. Node(db \cup added[b], n, stmt[b].id, stmt[b].v)
    BY <1>4 DEF Node
  <2> QED BY <1>0, <1>2, <1>6, <2>1 DEF Numbered
<1>7. n <= nodeSeq
  <2>1. Node(db \cup added[b], n, stmt[b].id, stmt[b].v)
    BY <1>4 DEF Node
  <2> QED BY <1>2, <1>6, <2>1
<1>8. ASSUME NEW i \in Ids, NEW v \in Values \cup {NoVal}
      PROVE  /\ ~Node(db, n, i, v)
             /\ \A c \in Backends \ {b} : ~Node(added[c], n, i, v)
             /\ Node(added[b], n, i, v) => i = stmt[b].id /\ v = stmt[b].v
  <2>1. ASSUME NEW c \in Backends, Node(db, n, i, v) \/ Node(added[c], n, i, v) PROVE i = stmt[b].id /\ v = stmt[b].v
    BY <1>6, <2>1 DEF Node
  <2> QED BY <1>5, <2>1
<1> QED BY <1>1, <1>2, <1>3, <1>7, <1>8 DEF Checked

\* Guarded nodes are there, and done with.
LEMMA GuardedThere ==
    ASSUME Seen, NEW b \in Backends, Run(b), NEW c \in Backends, Guards(c), Guards(b), NEW n \in guarded'
    PROVE  n \in Nodes /\ n <= nodeSeq' /\ n \notin Working(c)'
<1>0. Structure /\ Types /\ Statements /\ nodeSeq \in Nat
  BY DEF Seen, Structure, Types
<1>1. nodeSeq' = nodeSeq \/ nodeSeq' = nodeSeq + 1
  BY <1>0, NodeSeqStep
<1>2. n \in Nodes /\ n \in Nat /\ n <= nodeSeq
  BY GuardedStep, Kinds DEF Guards, Checked
<1>3. CASE c = b
  <2>1. Working(b)' = {} \/ Working(b)' = {nodeSeq + 1}
    BY <1>0, ViewEnds, WorkingStep
  <2> QED BY <1>0, <1>1, <1>2, <1>3, <2>1
<1>4. CASE c # b
  <2>1. Working(c)' = Working(c)
    BY <1>0, <1>4, Others DEF Working, Creating
  <2>2. ASSUME Checked(b, n), n \in Working(c) PROVE FALSE
    <3>1. Creating(c) /\ stmt[c].pc = "index" /\ n = stmt[c].n
      BY <2>2 DEF Working
    <3>2. LabelKnown(c)
      BY <3>1 DEF LabelKnown
    <3>3. stmt[c].id \in Ids /\ stmt[c].v \in Values \cup {NoVal}
      BY <1>0, <3>1, <3>2 DEF Statements, Resolving, Creating, Creates
    <3>4. Node(added[c], n, stmt[c].id, stmt[c].v)
      BY <3>1 DEF Seen, Stores, Stored
    <3> QED BY <1>4, <2>2, <3>3, <3>4 DEF Checked
  <2> QED BY <1>0, <1>1, <1>2, <2>1, <2>2, GuardedStep DEF Guards
<1> QED BY <1>3, <1>4

\* Their entries in the committed rows.
LEMMA GuardedCommitted ==
    ASSUME Seen, NEW b \in Backends, Run(b), Guards(b), NEW n \in guarded', NEW l \in Labels, NEW i \in Ids, NEW v \in Values
    PROVE  Entry(db', l, i, n, v)
<1>0. Structure /\ Types /\ Statements
  BY DEF Seen, Structure
<1>1. CASE Checked(b, n)
  BY <1>1 DEF Checked, Entry
<1>2. CASE n \in guarded /\ db' = db
  BY <1>2 DEF Guards, Complete
<1>3. CASE n \in guarded /\ Commit(b)
  <2>1. db' = View(b) /\ ~Building(b, l)
    BY <1>3, Kinds DEF Commit, View, Building, Indexing
  <2>2. n \in Nodes /\ Complete(View(b), l, i, Nodes \ guarded)
    BY <1>3, <2>1 DEF Guards
  <2> QED BY <1>3, <2>1, <2>2 DEF Complete
<1> QED BY <1>0, <1>1, <1>2, <1>3, GuardedStep, DeletedIs

\* Their entries in what each transaction sees.
LEMMA GuardedSeenOwn ==
    ASSUME Seen, NEW b \in Backends, Run(b), Guards(b), NEW l \in Labels, ~Building(b, l)',
           NEW n \in guarded', NEW i \in Ids, NEW v \in Values
    PROVE  Entry(View(b)', l, i, n, v)
<1>a. Structure /\ Types /\ Statements /\ IndexRows(b) /\ l \in Names
  BY Kinds DEF Seen, Structure
<1>b. nodeSeq \in Nat
  BY <1>a DEF Types
<1>c. n \in Nodes
  BY GuardedStep DEF Guards, Checked
<1>0. Structure /\ Types /\ Statements /\ IndexRows(b) /\ n \in Nodes /\ nodeSeq \in Nat /\ l \in Names
  BY <1>a, <1>b, <1>c
<1>1. CASE Ends(b)
  BY <1>0, <1>1, ViewEnds, GuardedCommitted
<1>2. CASE ~Ends(b) /\ Checked(b, n)
  <2>1. View(b)' = View(b)
    BY <1>2 DEF Checked, View
  <2> SUFFICES ASSUME <<"index", l>> \in View(b), <<"name", l, i>> \in View(b), Node(View(b), n, i, v)
               PROVE  <<"value", i, v, n>> \in View(b)
    BY <2>1 DEF Entry
  <2>2. i = stmt[b].id /\ v = stmt[b].v /\ n = stmt[b].n /\ Bound(l, i)
    BY <1>2 DEF Checked, View, Node, Bound
  <2>3. Bound(stmt[b].l, i) /\ stmt[b].l \in Names
    BY <1>2, <2>2, Kinds DEF Checked, Bound
  <2>4. l = stmt[b].l
    BY <1>0, <2>2, <2>3 DEF Structure, Naming
  <2>5. stmt[b] # Idle /\ ixCache[b][l] \in {"none", "yes", "no"}
    BY <1>0, <1>2, Kinds DEF Checked, Creating, Types
  <2>6. ixCache[b][l] = "yes"
    BY <1>0, <1>2, <2>4, <2>5 DEF Checked, IndexRows
  <2>7. <<"value", i, v, n>> \in added[b]
    BY <1>0, <1>2, <2>2, <2>4, <2>6 DEF Checked, IndexRows
  <2> QED BY <2>7 DEF View
<1>3. CASE ~Ends(b) /\ n \in guarded /\ Building(b, l)
  <2>1. IndexFill(b) /\ l = stmt[b].l
    BY <1>0, <1>3, BuildingStep DEF Building
  <2>2. stmt[b].pc = "fill" /\ ~Creating(b)
    BY <1>0, <2>1, FillIs, Kinds DEF Creating, Indexing
  <2>3. ~InsertNode(b)
    BY <1>0, <2>2, InsertIs
  <2> SUFFICES ASSUME <<"name", l, i>> \in View(b)', Node(View(b)', n, i, v) PROVE FALSE
    BY DEF Entry
  <2>4. Node(View(b), n, i, v) /\ Known(b, l, i)
    BY <1>0, <1>3, <2>3, SeenStep
  <2> QED BY <1>3, <2>2, <2>4 DEF Guards
<1>4. CASE ~Ends(b) /\ n \in guarded /\ ~Building(b, l)
  <2>1. Entry(View(b), l, i, n, v) /\ n <= nodeSeq
    BY <1>0, <1>4 DEF Guards, Complete
  <2>2. n # nodeSeq + 1
    BY <1>0, <2>1, Kinds
  <2> QED BY <1>0, <1>4, <2>1, <2>2, EntryOwn
<1> QED BY <1>1, <1>2, <1>3, <1>4, GuardedStep

\* The same for the others.
LEMMA GuardedSeenOthers ==
    ASSUME Seen, NEW b \in Backends, Run(b), Guards(b), NEW c \in Backends, c # b, Guards(c),
           NEW l \in Labels, ~Building(c, l)', NEW n \in guarded', NEW i \in Ids, NEW v \in Values
    PROVE  Entry(View(c)', l, i, n, v)
<1>0. Structure /\ Types /\ Statements /\ n \in Nodes
  BY GuardedStep DEF Seen, Structure, Guards, Checked
<1>1. ~Building(c, l)
  BY <1>0, Others DEF Building, Indexing
<1>2. CASE Checked(b, n)
  <2>1. View(c)' = View(c)
    BY <1>2 DEF Checked, View
  <2>2. ~Node(View(c), n, i, v)
    BY <1>2 DEF Checked, View, Node
  <2> QED BY <2>1, <2>2 DEF Entry
<1>3. CASE n \in guarded
  <2>1. Entry(View(c), l, i, n, v)
    BY <1>0, <1>1, <1>3 DEF Guards, Complete
  <2>2. Commit(b) => Entry(View(b), l, i, n, v)
    <3>1. Commit(b) => ~Building(b, l)
      BY Kinds DEF Commit, Building, Indexing
    <3> QED BY <1>0, <1>3, <3>1 DEF Guards, Complete
  <2> QED BY <1>0, <1>1, <2>1, <2>2, EntryOthers
<1> QED BY <1>2, <1>3, GuardedStep

\* A CREATE INDEX that has cleaned the index sees no guarded node of its label.
LEMMA GuardedFill ==
    ASSUME Seen, NEW b \in Backends, Run(b), NEW c \in Backends, Guards(c),
           NEW l \in Labels, NEW i \in Ids, Building(c, l)', stmt'[c].pc = "fill", Known(c, l, i)',
           NEW n \in guarded', n \in Nodes, NEW v \in Values
    PROVE  ~Node(View(c)', n, i, v)
<1>0. Structure /\ Types /\ Statements /\ Locking /\ Registry(b) /\ Registry(c) /\ l \in Names
  BY Kinds DEF Seen, Structure, Registered
<1>1. CASE c = b
  <2>1. guarded' = {}
    BY <1>0, <1>1, BuildingStep, HistoryStep
  <2> QED BY <2>1
<1>2. CASE c # b
  <2>1. stmt'[c] = stmt[c] /\ added'[c] = added[c]
    BY <1>0, <1>2, Others
  <2>2. Building(c, l) /\ stmt[c].pc = "fill" /\ LabelKnown(c) /\ stmt[c].l = l
    BY <2>1 DEF Building, Indexing, LabelKnown
  <2>3. Has(c, l) /\ ~Has(b, l)
    <3>1. Has(c, l)
      BY <1>0, <2>2 DEF Registry
    <3> QED BY <1>0, <1>2, <3>1 DEF Locking, Has
  <2>4. Known(c, l, i)
    <3>1. <<"name", l, i>> \notin added[b]
      BY <1>0, <2>3 DEF Registry
    <3> QED BY <1>0, <1>2, <3>1, KnownStep
  <2>5. Bound(l, i)
    BY <2>4 DEF Known, Bound
  <2> SUFFICES ASSUME Node(View(c)', n, i, v) PROVE FALSE
    OBVIOUS
  <2>6. ~Node(added[b], n, i, v)
    BY <2>3, <2>5, OwnerIs
  <2>7. Node(db', n, i, v) \/ Node(added[c], n, i, v)
    BY <2>1 DEF Node, View
  <2>8. Node(db, n, i, v) \/ Node(added[c], n, i, v)
    BY <1>0, <2>6, <2>7, NodeKept
  <2>9. Node(View(c), n, i, v)
    <3>1. ~Node(removed[c], n, i, v)
      BY <1>0, NodeKept
    <3> QED BY <2>8, <3>1 DEF Node, View
  <2>10. CASE n \in guarded
    BY <2>2, <2>4, <2>9, <2>10 DEF Guards
  <2>11. CASE Checked(b, n)
    BY <1>2, <2>8, <2>11 DEF Checked
  <2> QED BY <2>10, <2>11, GuardedStep
<1> QED BY <1>1, <1>2

\* No two guarded nodes share label and value.
LEMMA GuardedWhere ==
    ASSUME Seen, NEW b \in Backends, Run(b), NEW c \in Backends, NEW n \in Nodes, n <= nodeSeq,
           NEW i \in Ids, NEW v \in Values, Node(db' \cup added'[c], n, i, v)
    PROVE  \E d \in Backends : Node(db \cup added[d], n, i, v)
<1>0. Structure /\ nodeSeq \in Nat
  BY DEF Seen, Structure, Types
<1>1. n # nodeSeq + 1
  BY <1>0, Kinds
<1>2. CASE Node(db', n, i, v)
  <2>1. Node(db \cup added[b], n, i, v)
    BY <1>0, <1>2, NodeKept DEF Node
  <2> QED BY <2>1
<1>3. CASE Node(added'[c], n, i, v)
  <2>1. Node(added[c], n, i, v)
    BY <1>0, <1>1, <1>3, NodeStep
  <2> QED BY <2>1 DEF Node
<1> QED BY <1>2, <1>3 DEF Node

\* The node that a UNIQUE check adds differs from all others: whoever had its label and
\* value would be committed, or be its own, since the label is locked, and the check
\* would have found it.
LEMMA NewGuarded ==
    ASSUME Seen, NEW b \in Backends, Run(b), Guards(b), NEW n, Checked(b, n), NEW m \in guarded,
           NEW i \in Ids, NEW v \in Values, NEW c \in Backends, NEW d \in Backends,
           Node(db \cup added[c], n, i, v), Node(db \cup added[d], m, i, v)
    PROVE  m = n
<1> SUFFICES ASSUME m # n PROVE FALSE
  OBVIOUS
<1> DEFINE s == stmt[b]
           l == stmt[b].l
<1>0. Structure /\ Locking /\ Registry(b) /\ m \in Nodes
  BY DEF Seen, Structure, Registered, Guards
<1>1. i = s.id /\ v = s.v /\ n = s.n /\ l \in Labels /\ l \in Names
  <2>1. Node(db, n, i, v) \/ Node(added[c], n, i, v)
    BY DEF Node
  <2> QED BY <2>1, Kinds DEF Checked
<1>2. Bound(l, i) /\ Known(b, l, i) /\ Has(b, l)
  BY <1>0, <1>1 DEF Checked, Registry, Known, Bound
<1>3. Node(View(b), m, i, v)
  <2>1. ~Node(removed[b], m, i, v)
    BY <1>0, NodeKept
  <2>2. Node(added[d], m, i, v) => d = b
    <3>1. Node(added[d], m, i, v) => Has(d, l)
      BY <1>0, <1>1, <1>2, OwnerIs
    <3> QED BY <1>0, <1>2, <3>1 DEF Locking, Has
  <2> QED BY <2>1, <2>2 DEF Node, View
<1>4. <<"index", l>> \in View(b) /\ <<"name", l, i>> \in View(b) /\ ~Building(b, l)
  BY <1>1, <1>2, OwnerIs, Kinds DEF Checked, Building, Creating, Indexing
<1>5. <<"value", i, v, m>> \in View(b)
  BY <1>0, <1>1, <1>3, <1>4 DEF Guards, Complete, Entry
<1>6. Taken(b, s)
  <2> DEFINE r == <<"value", i, v, m>>
  <2>1. r \in View(b) /\ r[1] = "value" /\ r[2] = i /\ r[3] = v /\ r[4] = m
    BY <1>5
  <2> HIDE DEF r
  <2> QED BY <1>1, <2>1 DEF Taken
<1> QED BY <1>1, <1>6 DEF Checked, CheckUnique

\* No two guarded nodes share label and value after a step.
LEMMA GuardedDiffer ==
    ASSUME Seen, NEW b \in Backends, Run(b), Guards(b), NEW c \in Backends, Guards(c), NEW d \in Backends,
           NEW n \in guarded', NEW m \in guarded', NEW i \in Ids, NEW v \in Values,
           Node(db' \cup added'[c], n, i, v), Node(db' \cup added'[d], m, i, v),
           \A e \in Backends : Guards(e)
    PROVE  n = m
<1>1. n \in Nodes /\ n <= nodeSeq /\ m \in Nodes /\ m <= nodeSeq
  BY GuardedStep DEF Guards, Checked
<1>2. PICK e \in Backends : Node(db \cup added[e], n, i, v)
  BY <1>1, GuardedWhere
<1>3. PICK f \in Backends : Node(db \cup added[f], m, i, v)
  BY <1>1, GuardedWhere
<1>4. CASE n \in guarded /\ m \in guarded
  BY <1>2, <1>3, <1>4 DEF Guards
<1>5. CASE Checked(b, n) /\ m \in guarded
  BY <1>2, <1>3, <1>5, NewGuarded
<1>6. CASE Checked(b, m) /\ n \in guarded
  BY <1>2, <1>3, <1>6, NewGuarded
<1>7. CASE Checked(b, n) /\ Checked(b, m)
  BY <1>7 DEF Checked
<1> QED BY <1>4, <1>5, <1>6, <1>7, GuardedStep

\* Every step keeps what is known of guarded nodes.
LEMMA GuardsStep ==
    ASSUME Seen, NEW b \in Backends, Run(b), \A e \in Backends : Guards(e), NEW c \in Backends
    PROVE  Guards(c)'
<1>1. \A n \in guarded' : n \in Nodes /\ n <= nodeSeq' /\ n \notin Working(c)'
  BY GuardedThere
<1>2. ASSUME NEW l \in Labels, NEW i \in Ids
      PROVE  /\ Complete(db', l, i, Nodes \ guarded')
             /\ ~Building(c, l)' => Complete(View(c)', l, i, Nodes \ guarded')
             /\ Building(c, l)' /\ stmt'[c].pc = "fill" /\ Known(c, l, i)' =>
                   \A n \in guarded', v \in Values : ~Node(View(c)', n, i, v)
  <2>1. Complete(db', l, i, Nodes \ guarded')
    BY GuardedCommitted DEF Complete
  <2>2. ASSUME ~Building(c, l)' PROVE Complete(View(c)', l, i, Nodes \ guarded')
    BY <2>2, GuardedSeenOwn, GuardedSeenOthers DEF Complete
  <2>3. ASSUME Building(c, l)', stmt'[c].pc = "fill", Known(c, l, i)', NEW n \in guarded', NEW v \in Values
        PROVE  ~Node(View(c)', n, i, v)
    BY <1>1, <2>3, GuardedFill
  <2> QED BY <2>1, <2>2, <2>3
<1>3. \A d \in Backends, n, m \in guarded', i \in Ids, v \in Values :
          Node(db' \cup added'[c], n, i, v) /\ Node(db' \cup added'[d], m, i, v) => n = m
  BY GuardedDiffer
<1> QED BY <1>1, <1>2, <1>3 DEF Guards, Complete, Entry, Node

\* Of the committed ones, what UniqueHolds says.
Distinct ==
    \A n, m \in guarded, i \in Ids, v \in Values :
        n \in Nodes /\ m \in Nodes /\ Node(db, n, i, v) /\ Node(db, m, i, v) => n = m
Guarding == (\A b \in Backends : Guards(b)) /\ Distinct

\* It holds at first.
LEMMA GuardingInit == Init => Guarding
<1> SUFFICES ASSUME Init PROVE Guarding
  OBVIOUS
<1>1. /\ db = {} /\ guarded = {}
      /\ \A b \in Backends : added[b] = {} /\ View(b) = {}
  BY DEF Init, View
<1> QED BY <1>1 DEF Guarding, Guards, Distinct, Complete, Entry

\* Every step keeps it.
LEMMA GuardingStep ==
    ASSUME Seen, Guarding, [Next]_vars
    PROVE  Guarding'
<1>1. ASSUME NEW b \in Backends, Run(b) PROVE Guarding'
  <2>1. \A c \in Backends : Guards(c)'
    BY <1>1, GuardsStep DEF Guarding
  <2>2. ASSUME NEW n \in guarded', NEW m \in guarded', NEW i \in Ids, NEW v \in Values, Node(db', n, i, v), Node(db', m, i, v)
        PROVE  n = m
    <3>1. Node(db' \cup added'[b], n, i, v) /\ Node(db' \cup added'[b], m, i, v)
      BY <2>2 DEF Node
    <3> QED BY <1>1, <3>1, GuardedDiffer DEF Guarding
  <2>3. Distinct'
    BY <2>2 DEF Distinct, Node
  <2> QED BY <2>1, <2>3 DEF Guarding
<1>2. CASE UNCHANGED vars
  <2>1. UNCHANGED <<db, added, removed, stmt, nodeSeq, guarded>>
    BY <1>2 DEF vars, tables, ids, history
  <2>2. ASSUME NEW c \in Backends PROVE Guards(c)'
    <3>1. /\ \A l : Building(c, l)' <=> Building(c, l)
          /\ \A l, i : Known(c, l, i)' <=> Known(c, l, i)
          /\ View(c)' = View(c) /\ Working(c)' = Working(c) /\ stmt'[c] = stmt[c]
      BY <2>1 DEF Creating, Indexing, Building, View, Working, Known
    <3>2. Guards(c)
      BY DEF Guarding
    <3> QED BY <2>1, <3>1, <3>2 DEF Guards, Complete, Entry, Node
  <2>3. Distinct'
    BY <2>1 DEF Guarding, Distinct, Node
  <2> QED BY <2>2, <2>3 DEF Guarding
<1> QED BY <1>1, <1>2 DEF Next

\* Where every statement clears the caches first, no two committed nodes that were
\* created under a UNIQUE constraint and one and the same index share label and value.
THEOREM UniqueIsHeld == ASSUME CypherOnly PROVE Spec => []UniqueHolds
<1>1. ASSUME Maintained, Guarding PROVE UniqueHolds
  <2>1. SUFFICES ASSUME NEW q \in StoredIn(db), NEW r \in StoredIn(db), q[2] \in guarded, r[2] \in guarded,
                        q[4] # NoVal, r[4] # NoVal, q[3] = r[3], q[4] = r[4]
                 PROVE  q = r
    BY DEF UniqueHolds
  <2>2. db \subseteq Row
    BY <1>1 DEF Maintained, Seen, Structure, Types
  <2>3. ASSUME NEW x \in StoredIn(db)
        PROVE  /\ x[2] \in Nodes /\ x[3] \in Ids /\ x[4] \in Values \cup {NoVal}
               /\ Node(db, x[2], x[3], x[4]) /\ x = <<"node", x[2], x[3], x[4]>>
    <3>1. x \in Row /\ x \in db /\ x[1] = "node"
      BY <2>2 DEF StoredIn
    <3> QED BY <3>1, RowIs DEF Node
  <2>4. q[2] = r[2]
    <3>1. q[4] \in Values /\ Node(db, q[2], q[3], q[4]) /\ Node(db, r[2], q[3], q[4])
      BY <2>1, <2>3
    <3> QED BY <1>1, <2>1, <2>3, <3>1 DEF Guarding, Distinct
  <2> QED BY <2>1, <2>3, <2>4
<1>2. Maintained => Seen
  BY DEF Maintained
<1> QED BY <1>1, <1>2, IndexInit, IndexStep, GuardingInit, GuardingStep, PTL DEF Spec
=============================================================================
