----------------------------- MODULE CypherExec -----------------------------
(***************************************************************************)
(* The executor (executor.rs): what a plan does with a graph.              *)
(*                                                                         *)
(* A row is a function from variables to values, the parameters too: the   *)
(* code passes the bindings of an outer row to an inner plan as further    *)
(* parameters.  The result of a plan is a record [g, rows, err]: the graph *)
(* it leaves, its rows in order, and the error that ended it, or "".       *)
(*                                                                         *)
(* The graph is the storage the executor sees through the other modules:   *)
(*   nodes, edges   the visible nodes and edges, by id;                    *)
(*   known          the labels of label_registry;                          *)
(*   labelIx        the rows of label_index, <<label, node>>;              *)
(*   indexes        the rows of prop_index_catalog, <<label, key>>;        *)
(*   propIx         those of prop_value_index, <<label, key, value, node>>;*)
(*   nextNode, nextEdge  the sequences the ids come from.                  *)
(* A statement runs alone here: the interleavings are in the other modules.*)
(* Scans return nodes and edges in the order of their ids.  Left out:      *)
(* procedures, shortestPath, UNIQUE constraints (module Catalog), and the  *)
(* functions on strings, numbers, temporal values and types.               *)
(***************************************************************************)
EXTENDS CypherPlan

EmptyGraph == [nodes |-> <<>>, edges |-> <<>>, known |-> {}, labelIx |-> {},
               indexes |-> {}, propIx |-> {}, nextNode |-> 1, nextEdge |-> 1]

Node(g, id) == NodeV(id, g.nodes[id].labels, g.nodes[id].props)
Edge(g, id) == LET e == g.edges[id] IN EdgeV(id, e.type, e.src, e.dst, e.props)

\* A set of ids in ascending order.
Ascending(ids) ==
    [i \in 1..Cardinality(ids) |->
        CHOOSE x \in ids : Cardinality({y \in ids : y < x}) = i - 1]

\* What the planner asks of the catalog: count_label_nodes,
\* estimate_total_nodes (the last value of the sequence), has_property_index
\* and count_index_entries.
CatalogOf(g) ==
    [labels  |-> [l \in g.known |-> Cardinality({r \in g.labelIx : r[1] = l})],
     total   |-> g.nextNode - 1,
     indexes |-> g.indexes,
     entries |-> [ix \in g.indexes |->
                     Cardinality({r \in g.propIx : <<r[1], r[2]>> = ix})]]

\* prop_store::decode_selected: the properties the rest of the plan needs.
Decoded(v, need) ==
    IF need = <<>> THEN v
    ELSE [v EXCEPT !.m = [k \in (DOMAIN v.m) \cap need[1] |-> v.m[k]]]

-----------------------------------------------------------------------------
(* Rows and results.                                                       *)

Done(g, rows) == [g |-> g, rows |-> rows, err |-> ""]
Broken(g, what) == [g |-> g, rows |-> <<>>, err |-> what]
ErrorOf(v) == CHOOSE what \in v.s : TRUE

\* The rows of a result go through Step one by one, until one fails.
Over(in, Step(_, _)) ==
    FoldLeft(LAMBDA acc, row: IF acc.err # "" THEN acc ELSE Step(acc, row),
             [in EXCEPT !.rows = <<>>], in.rows)

Emit(acc, rows) == [acc EXCEPT !.rows = @ \o rows]
Passed(acc, done) == [Emit(acc, <<done.row>>) EXCEPT !.g = done.g, !.err = done.err]
Break(acc, v) == [acc EXCEPT !.err = ErrorOf(v)]

Put(row, v, val) == IF v = NoVar THEN row ELSE (v :> val) @@ row

\* The bindings of a row among the parameters of an inner plan.
Inject(row, params) == [v \in DOMAIN row |-> ToJson(row[v])] @@ params

Lookup(row, params, v) ==
    CASE v \in DOMAIN row -> row[v]
      [] v \in DOMAIN params -> params[v]
      [] OTHER -> Err("unbound")

\* What an expand must arrive at: an anonymous node of an outer pattern is no
\* binding.
Expected(row, params, v) ==
    CASE v \in DOMAIN row -> row[v]
      [] v \in DOMAIN params \cap UserVars -> params[v]
      [] OTHER -> Null

\* The first error among values, or else v.
Strict(vals, v) ==
    LET failed == {i \in 1..Len(vals) : Failed(vals[i])}
    IN  IF failed = {} THEN v ELSE vals[Min(failed)]

\* Plans evaluate expressions, and expressions plan and run subqueries: all of
\* them are cases of one recursive operator.
RECURSIVE Interpret(_, _, _, _, _)
Eval(g, e, row, params) == Interpret("expr", g, e, row, params)
Execute(g, plan, params) == Interpret("plan", g, plan, <<>>, params)

\* cypher(): plan, execute; a statement that fails is rolled back whole.
RunQuery(g, query, params) == Interpret("query", g, query, {}, params)

\* The subquery of an EXISTS (plan_with_outer) and the pattern of a MERGE
\* (plan_without_opt4), planned.
PlanSubquery(g, query, outer) == Interpret("exists", g, query, outer, <<>>)
PlanMergeMatch(g, query) == Interpret("merge", g, query, {}, <<>>)

\* A plan, if there is one, run to its end; an error leaves the graph alone.
Finished(g, out) == IF out.err # "" THEN Broken(g, out.err) ELSE out
RunPlan(g, pl, params) ==
    IF pl.err # "" THEN Broken(g, pl.err) ELSE Finished(g, Execute(g, pl.plan, params))

-----------------------------------------------------------------------------
(* eval_expr.                                                              *)

PropertyOf(v, key) ==
    CASE Failed(v) -> v
      [] v.t \in {"node", "edge", "map", "null"} -> GetProperty(v, key)
      [] OTHER -> Err("type")

LabelsHold(v, labels) ==
    CASE v.t \in {"null", "err"} -> v
      [] v.t \in {"node", "edge"} -> BoolV(Range(labels) \subseteq v.s)
      [] OTHER -> False

\* The functions of eval_function on entities; the end of a relationship is
\* read from the store.
EntityFunctions == {"id", "properties", "startnode", "endnode"}

EvalEntityFunction(g, name, v) ==
    LET stored(id) == IF id \in DOMAIN g.nodes THEN Node(g, id) ELSE Null
    IN  CASE name = "id" -> IF v.t \in {"node", "edge"} THEN IntV(v.n) ELSE Null
          [] v = Null -> Null
          [] name = "properties" ->
                 IF v.t \in {"node", "edge", "map"} THEN MapV(v.m) ELSE Err("type")
          [] v.t # "edge" -> Err("type")
          [] name = "startnode" -> stored(Ends(v)[1])
          [] name = "endnode" -> stored(Ends(v)[2])

\* Its functions on lists and paths; any other value gives null.
EvalListFunction(name, v) ==
    LET Every2nd(first) == ListV([i \in 1..(Len(v.l) + 2 - first) \div 2 |-> v.l[2 * i + first - 2]])
    IN  CASE v.t = "path" /\ name = "length" -> IntV(Len(v.l) \div 2)
          [] v.t = "path" /\ name = "nodes" -> Every2nd(1)
          [] v.t = "path" /\ name = "relationships" -> Every2nd(2)
          [] v.t # "list" -> Null
          [] name \in {"size", "length"} -> IntV(Len(v.l))
          [] name = "head" -> IF v.l = <<>> THEN Null ELSE v.l[1]
          [] name = "last" -> IF v.l = <<>> THEN Null ELSE v.l[Len(v.l)]
          [] name = "tail" -> ListV(SubSeq(v.l, 2, Len(v.l)))
          [] name = "reverse" -> ListV(Reverse(v.l))
          [] OTHER -> Null

ListFunctions == {"size", "length", "nodes", "relationships", "head", "tail", "last", "reverse"}

\* range(from, to) and range(from, to, step), both ends included.
EvalRange(from, to, step) ==
    LET count == (Sign(step.n) * (to.n - from.n)) \div Abs(step.n) + 1
    IN  CASE {from.t, to.t, step.t} # {"int"} ->
               IF Null \in {from, to, step} THEN Null ELSE Err("type")
          [] step.n = 0 -> Err("step")
          [] OTHER -> ListV([i \in 1..Max({0, count}) |-> IntV(from.n + (i - 1) * step.n)])

EvalFunction(g, name, vals) ==
    LET given == SelectSeq(vals, LAMBDA v: v # Null)
    IN  CASE name = "coalesce" -> IF given = <<>> THEN Null ELSE given[1]
          [] Failed(Strict(vals, Null)) -> Strict(vals, Null)
          [] name \in EntityFunctions -> EvalEntityFunction(g, name, vals[1])
          [] name \in ListFunctions -> EvalListFunction(name, vals[1])
          [] name = "range" ->
                 EvalRange(vals[1], vals[2], IF Len(vals) = 3 THEN vals[3] ELSE IntV(1))
          [] OTHER -> Err("unknown function")

\* CASE: the value of the first condition that holds, or of the default.
EvalCase(e, V(_)) ==
    LET skip  == IF e.op = "caseof" THEN 1 ELSE 0
        count == (Len(e.es) - skip) \div 2
        cond(k) == V(skip + 2 * k - 1)
        holds(k) == IF e.op = "caseof" THEN ValuesEqual(V(1), cond(k))
                    ELSE Truthy3(cond(k)) = True
        stop  == {k \in 1..count : Failed(cond(k)) \/ holds(k)}
        k0    == Min(stop)
    IN  CASE e.op = "caseof" /\ Failed(V(1)) -> V(1)
          [] stop # {} -> IF Failed(cond(k0)) THEN cond(k0) ELSE V(skip + 2 * k0)
          [] (Len(e.es) - skip) % 2 = 1 -> V(Len(e.es))
          [] OTHER -> Null

\* The items an expression keeps and maps: those whose test is true, in order;
\* the first error ends it.
Comprehend(items, Test(_), Map(_)) ==
    FoldLeft(LAMBDA acc, x:
                 LET test == Test(x)
                     item == Map(x)
                 IN  CASE Failed(acc) -> acc
                       [] Failed(test) -> test
                       [] Truthy3(test) # True -> acc
                       [] Failed(item) -> item
                       [] OTHER -> ListV(Append(acc.l, ToJson(item))),
             ListV(<<>>), items)

EvalListComp(g, e, list, row, params) ==
    LET Inner(i, x) == Eval(g, e.es[i], (e.x.v :> x) @@ row, params)
        Test(x) == IF e.x.pred = 1 THEN Inner(2, x) ELSE True
        Map(x)  == IF e.x.proj = 1 THEN Inner(2 + e.x.pred, x) ELSE x
    IN  CASE Failed(list) -> list
          [] list.t # "list" -> ListV(<<>>)
          [] OTHER -> Comprehend(list.l, Test, Map)

EvalQuantifier(g, e, list, row, params) ==
    LET verdicts == [i \in 1..Len(list.l) |->
                        Eval(g, e.es[2], (e.x.v :> list.l[i]) @@ row, params)]
    IN  CASE list.t \in {"err", "null"} -> list
          [] list.t # "list" -> False
          [] OTHER -> Strict(verdicts, Quantified(e.x.kind, verdicts))

\* A pattern comprehension, through exec_pattern_inline: the pattern is planned
\* on its own with the variables of the row bound, and reads their values among
\* the parameters.
EvalPatComp(g, e, row, params) ==
    LET Test(r) == IF e.x.pred = 1 THEN Eval(g, e.es[1], r @@ row, params) ELSE True
        Map(r)  == Eval(g, e.es[1 + e.x.pred], r @@ row, params)
        Of(in)  == IF in.err # "" THEN Err(in.err) ELSE Comprehend(in.rows, Test, Map)
    IN  Of(RunPlan(g, PlanPatternOnto(Planner(SingleRow, DOMAIN row, <<>>), CatalogOf(g),
                                      e.x.pat, FALSE),
                   Inject(row, params)))

\* EXISTS: some row of the subquery agrees with the outer row on the variables
\* they share.
EvalExists(g, e, row, params) ==
    LET Agrees(r) == \A v \in DOMAIN row \cap DOMAIN r : ValuesEqual(row[v], r[v])
        Of(in) == IF in.err # "" THEN Err(in.err)
                  ELSE BoolV(\E i \in 1..Len(in.rows) : Agrees(in.rows[i]))
    IN  Of(RunPlan(g, PlanSubquery(g, e.x, DOMAIN row \cup DOMAIN params), Inject(row, params)))

\* eval_expr.
EvalExpr(g, e, row, params) ==
    LET V(i) == Eval(g, e.es[i], row, params)
        vals == [i \in 1..Len(e.es) |-> V(i)]
        all  == [i \in 1..Len(e.es) |-> ToJson(vals[i])]
        from == IF e.x.from = 1 THEN V(2) ELSE IntV(0)
        to   == IF e.x.to = 1 THEN V(2 + e.x.from) ELSE IntV(Len(V(1).l))
        entry(k) == all[Max({i \in 1..Len(all) : e.x[i] = k})]
    IN  CASE e.op = "var" -> Lookup(row, params, e.x)
          [] e.op = "lit" -> e.x
          [] e.op = "prop" -> PropertyOf(V(1), e.x)
          [] e.op = "param" -> IF e.x \in DOMAIN params THEN params[e.x] ELSE Err("parameter")
          [] e.op = "cmp" -> Strict(vals, CompareValues(V(1), e.x, V(2)))
          [] e.op \in {"and", "or", "xor"} -> Strict(vals, Connective(e.op, V(1), V(2)))
          [] e.op = "not" -> Negation(V(1))
          [] e.op = "isnull" -> Strict(vals, BoolV(V(1) = Null))
          [] e.op = "isnotnull" -> Strict(vals, BoolV(V(1) # Null))
          [] e.op = "haslabel" -> LabelsHold(V(1), e.x)
          [] e.op = "arith" -> EvalArith(V(1), e.x, V(2))
          [] e.op = "neg" -> EvalNeg(V(1))
          [] e.op = "in" -> InList(V(1), V(2))
          [] e.op = "fn" -> EvalFunction(g, e.x, vals)
          [] e.op = "star" -> MapV([v \in DOMAIN row |-> ToJson(row[v])])
          [] e.op = "list" -> Strict(vals, ListV(all))
          [] e.op = "mapexpr" -> Strict(vals, MapV([k \in Range(e.x) |-> entry(k)]))
          [] e.op \in Cases -> EvalCase(e, V)
          [] e.op = "listcomp" -> EvalListComp(g, e, V(1), row, params)
          [] e.op = "quantifier" -> EvalQuantifier(g, e, V(1), row, params)
          [] e.op = "subscript" -> EvalSubscript(V(1), V(2), e.x)
          [] e.op = "slice" -> EvalSlice(V(1), from, to)
          [] e.op = "patcomp" -> EvalPatComp(g, e, row, params)
          [] e.op = "exists" -> EvalExists(g, e, row, params)

\* An inline property map {key: expr, ...}: True, False or the first error.
PropsMatch(g, v, props, row, params) ==
    LET Verdict(i) == LET want == Eval(g, props[i][2], row, params)
                      IN  IF Failed(want) THEN want
                          ELSE BoolV(ValuesEqual(GetProperty(v, props[i][1]), want))
        stop == {i \in 1..Len(props) : Verdict(i) # True}
    IN  IF stop = {} THEN True ELSE Verdict(Min(stop))

-----------------------------------------------------------------------------
(* Scans.                                                                  *)

\* The nodes of a scan with their inline properties checked; an optional scan
\* that finds none returns a null.
ScanRows(g, plan, ids, need, props, params) ==
    LET Found(acc, v, ok) == CASE Failed(ok) -> Break(acc, ok)
                               [] ok = True -> Emit(acc, <<(plan.v :> v)>>)
                               [] OTHER -> acc
        Whole(out) == IF plan.optional /\ out.err = "" /\ out.rows = <<>>
                      THEN Done(g, <<(plan.v :> Null)>>) ELSE out
    IN  Whole(Over(Done(g, Ascending(ids \cap DOMAIN g.nodes)),
                   LAMBDA acc, id: LET v == Decoded(Node(g, id), need)
                                   IN  Found(acc, v, PropsMatch(g, v, props, params, params))))

\* exec_label_scan: the rows of label_index, or every node.
ExecLabelScan(g, plan, params) ==
    LET ids == IF plan.label = <<>> THEN DOMAIN g.nodes
               ELSE {r[2] : r \in {q \in g.labelIx : q[1] = plan.label[1]}}
    IN  ScanRows(g, plan, ids, plan.need, plan.props, params)

\* exec_property_index_scan: lookup_nodes_by_property on the text of the value,
\* which tells 1 from 1.0; a null has no text of its own.
ExecPropertyIndexScan(g, plan, params) ==
    LET value == Eval(g, plan.e, <<>>, params)
        found == {q \in g.propIx : /\ <<q[1], q[2]>> = <<plan.label, plan.prop>>
                                   /\ q[3] = value}
        ids   == {id \in {r[4] : r \in found} \cap DOMAIN g.nodes :
                     plan.label \in g.nodes[id].labels}
    IN  IF Failed(value) THEN Broken(g, ErrorOf(value))
        ELSE ScanRows(g, plan, ids, <<>>, plan.rest, params)

-----------------------------------------------------------------------------
(* Expansion along relationships.                                          *)

\* adjacency_follow with the filter on types: a self-loop is met once.
Adjacent(g, id, plan) ==
    Ascending({e \in DOMAIN g.edges :
        /\ \/ plan.dir \in {"out", "both"} /\ g.edges[e].src = id
           \/ plan.dir \in {"in", "both"} /\ g.edges[e].dst = id
        /\ plan.types = <<>> \/ g.edges[e].type \in Range(plan.types)})

Other(g, e, id) == IF g.edges[e].src = id THEN g.edges[e].dst ELSE g.edges[e].src

\* The node at the other end of an edge passes the labels and properties of
\* the pattern.  The verdict is cached for the whole expand, the row it was
\* reached from included.
Arrives(acc, row, v, plan, params) ==
    CASE v.n \in DOMAIN acc.cache -> acc.cache[v.n]
      [] ~(Range(plan.labels) \subseteq v.s) -> False
      [] OTHER -> PropsMatch(acc.g, v, plan.props, row, params)

Expanded(acc, row, src, e, plan, params, node, edge, ok, relOk) ==
    LET id   == node.n
        seen == [acc EXCEPT !.cache = (id :> ok) @@ @]
        rel  == IF plan.rel \in DOMAIN row THEN row[plan.rel] ELSE Null
        dst  == Expected(row, params, plan.dst)
        next == Put(Put(row @@ (plan.src :> src), plan.dst, node), plan.rel, edge)
    IN  CASE Failed(ok) -> Break(acc, ok)
          [] ok # True -> seen
          [] Failed(relOk) -> Break(acc, relOk)
          [] relOk # True -> seen
          [] rel # Null /\ (rel.t # "edge" \/ rel.n # e) -> seen
          [] dst # Null /\ (dst.t # "node" \/ dst.n # id) -> seen
          [] OTHER -> Emit(seen, <<next>>)

ExpandEdge(acc, row, src, e, plan, params) ==
    LET id   == Other(acc.g, e, src.n)
        node == Decoded(Node(acc.g, id), plan.need)
        edge == Edge(acc.g, e)
    IN  IF id \notin DOMAIN acc.g.nodes THEN acc
        ELSE Expanded(acc, row, src, e, plan, params, node, edge,
                      Arrives(acc, row, node, plan, params),
                      PropsMatch(acc.g, edge, plan.relProps, row, params))

\* An optional row gets a null for what it does not bind.
NullRow(row, vars) == [v \in vars \ (DOMAIN row \cup {NoVar}) |-> Null] @@ row

\* exec_expand.
ExecExpand(in, plan, params) ==
    LET new     == {plan.rel, plan.dst}
        unknown == ~(Range(plan.labels) \subseteq in.g.known)
        Step(acc, row) ==
            LET src == Lookup(row, params, plan.src)
                Optional(out) == IF plan.optional /\ out.err = "" /\ out.rows = acc.rows
                                 THEN Emit(out, <<NullRow(row, new)>>) ELSE out
            IN  CASE unknown -> IF plan.optional
                                THEN Emit(acc, <<Put(Put(row, plan.rel, Null), plan.dst, Null)>>)
                                ELSE acc
                  [] Failed(src) -> Break(acc, src)
                  [] src = Null -> IF plan.optional
                                   THEN Emit(acc, <<Put(Put(row, plan.dst, Null), plan.rel, Null)>>)
                                   ELSE acc
                  [] src.t # "node" -> acc
                  [] OTHER ->
                         Optional(FoldLeft(LAMBDA a, e: IF a.err # "" THEN a
                                               ELSE ExpandEdge(a, row, src, e, plan, params),
                                           acc, Adjacent(acc.g, src.n, plan)))
        Whole(done) == IF plan.optional /\ ~unknown /\ done.err = "" /\ done.rows = <<>>
                       THEN Done(in.g, <<NullRow(<<>>, {plan.src} \cup new)>>)
                       ELSE [g |-> done.g, rows |-> done.rows, err |-> done.err]
    IN  Whole(Over([g |-> in.g, rows |-> in.rows, err |-> "", cache |-> <<>>], Step))

\* The breadth-first queue of exec_var_length_expand, level by level: the
\* walks that repeat no edge and use none of the excluded ones.
RECURSIVE Walks(_, _, _, _)
Walks(g, level, plan, excluded) ==
    LET Grow(w) ==
            LET last == w.nodes[Len(w.nodes)]
                steps == SelectSeq(Adjacent(g, last, plan),
                            LAMBDA e: e \notin Range(w.edges) \cup excluded)
            IN  [i \in 1..Len(steps) |->
                    [nodes |-> Append(w.nodes, Other(g, steps[i], last)),
                     edges |-> Append(w.edges, steps[i])]]
    IN  IF level = <<>> \/ Len(level[1].edges) >= plan.max THEN level
        ELSE level \o Walks(g, FlattenSeq([i \in 1..Len(level) |-> Grow(level[i])]),
                            plan, excluded)

\* build_path_from_ids: an undirected hop is shown in the direction it was
\* walked.
PathOf(g, w, dir) ==
    LET hop(i) == IF dir = "in" THEN <<w.nodes[i + 1], w.nodes[i]>>
                  ELSE <<w.nodes[i], w.nodes[i + 1]>>
        edge(i) == LET e == g.edges[w.edges[i]]
                   IN  EdgeV(w.edges[i], e.type, hop(i)[1], hop(i)[2], e.props)
    IN  PathV([k \in 1..2 * Len(w.edges) + 1 |->
                  IF k % 2 = 0 THEN edge(k \div 2)
                  ELSE IF w.nodes[(k + 1) \div 2] \in DOMAIN g.nodes
                       THEN Node(g, w.nodes[(k + 1) \div 2]) ELSE Null])

\* exec_var_length_expand.
ExecVarLengthExpand(in, plan, params) ==
    LET Step(acc, row) ==
            LET g     == acc.g
                src   == Lookup(row, params, plan.src)
                none  == Emit(acc, IF ~plan.optional THEN <<>>
                                   ELSE <<Put(Put(row, plan.dst, Null), plan.rel, Null)>>)
                given == {Lookup(row, params, plan.excluded[i]) : i \in 1..Len(plan.excluded)}
                walks == Walks(g, <<[nodes |-> <<src.n>>, edges |-> <<>>]>>, plan,
                               {v.n : v \in {u \in given : u.t = "edge"}})
                want  == Expected(row, params, plan.dst)
                End(w) == w.nodes[Len(w.nodes)]
                found == SelectSeq(walks, LAMBDA w: /\ Len(w.edges) >= plan.min
                                                    /\ End(w) \in DOMAIN g.nodes
                                                    /\ want.t = "node" => End(w) = want.n)
                Rels(w) == ListV([i \in 1..Len(w.edges) |-> Edge(g, w.edges[i])])
                Row(w) == Put(Put(Put(row @@ (plan.src :> src), plan.dst, Node(g, End(w))),
                                  plan.rel, Rels(w)), plan.carry, PathOf(g, w, plan.dir))
                lost  == IF want.t = "node" THEN row ELSE Put(row, plan.dst, Null)
            IN  CASE src.t \in {"err", "null"} -> none
                  [] src.t # "node" -> acc
                  [] found # <<>> -> Emit(acc, [i \in 1..Len(found) |-> Row(found[i])])
                  [] plan.optional ->
                         Emit(acc, <<Put(Put(lost, plan.rel, Null), plan.carry, Null)>>)
                  [] OTHER -> acc
    IN  Over(in, Step)

\* exec_bound_rel_list_expand: the end of a walk along a list of relationships,
\* 0 if it is not one.
Walked(start, list, dir) ==
    FoldLeft(LAMBDA at, edge:
                 CASE edge.t # "edge" -> 0
                   [] dir # "in" /\ Ends(edge)[1] = at -> Ends(edge)[2]
                   [] dir # "out" /\ Ends(edge)[2] = at -> Ends(edge)[1]
                   [] OTHER -> 0,
             start, list)

ExecBoundRelListExpand(in, plan, params) ==
    LET Step(acc, row) ==
            LET src  == Lookup(row, params, plan.src)
                list == Lookup(row, params, plan.list)
                end  == Walked(src.n, list.l, plan.dir)
                want == Expected(row, params, plan.dst)
            IN  IF /\ src.t = "node" /\ list.t = "list"
                   /\ end \in DOMAIN acc.g.nodes
                   /\ want.t = "node" => end = want.n
                THEN Emit(acc, <<Put(row, plan.dst, Node(acc.g, end))>>)
                ELSE acc
    IN  Over(in, Step)

\* exec_named_path: the elements in turn, the carried path of a variable-length
\* hop spliced in; no relationship comes twice.
ExecNamedPath(in, plan) ==
    LET Step(acc, row) ==
            LET At(i) == IF plan.vars[i] \in DOMAIN row THEN row[plan.vars[i]] ELSE Null
                broken == \E i \in 1..Len(plan.vars) : i % 2 = 0 /\ At(i) = Null
                carried(i) == i > 1 /\ At(i - 1).t = "path"
                Part(i) == CASE At(i).t = "path" -> Tail(At(i).l)
                             [] carried(i) -> <<>>
                             [] OTHER -> <<At(i)>>
                l    == FlattenSeq([i \in 1..Len(plan.vars) |-> Part(i)])
                twice == \E i, j \in 1..Len(l) :
                            i < j /\ l[i].t = "edge" /\ l[j].t = "edge" /\ l[i].n = l[j].n
            IN  CASE broken -> Emit(acc, <<Put(row, plan.v, Null)>>)
                  [] twice -> acc
                  [] OTHER -> Emit(acc, <<Put(row, plan.v, PathV(l))>>)
    IN  Over(in, Step)

-----------------------------------------------------------------------------
(* UNWIND, WHERE and the joins.                                            *)

ExecUnwind(in, plan, params) ==
    LET Step(acc, row) ==
            LET v     == Eval(acc.g, plan.e, row, params)
                items == CASE v.t = "list" -> v.l
                           [] v = Null -> <<>>
                           [] OTHER -> <<ToJson(v)>>
            IN  IF Failed(v) THEN Break(acc, v)
                ELSE Emit(acc, [i \in 1..Len(items) |-> Put(row, plan.v, items[i])])
    IN  Over(in, Step)

ExecFilter(in, plan, params) ==
    LET Step(acc, row) ==
            LET v == Eval(acc.g, plan.pred, row, params)
            IN  CASE Failed(v) -> Break(acc, v)
                  [] IsTruthy(v) -> Emit(acc, <<row>>)
                  [] OTHER -> acc
    IN  Over(in, Step)

\* exec_cross_product, exec_apply and exec_left_join: the inner plan runs once
\* for each outer row, with its bindings among the parameters, and its rows
\* overlay the outer one; a left join without rows keeps it, with nulls.
ExecNested(in, inner, nulls, params) ==
    LET Step(acc, row) ==
            LET out  == Execute(acc.g, inner, Inject(row, params))
                with == [acc EXCEPT !.g = out.g]
            IN  CASE out.err # "" -> [with EXCEPT !.err = out.err]
                  [] out.rows = <<>> /\ nulls # <<>> ->
                         Emit(with, <<[v \in nulls[1] |-> Null] @@ row>>)
                  [] OTHER -> Emit(with, [i \in 1..Len(out.rows) |-> out.rows[i] @@ row])
    IN  Over(in, Step)

\* Union: the distinct rows unless it is UNION ALL.
RowFingerprint(row) == [v \in DOMAIN row |-> ToJson(row[v])]

ExecUnion(left, plan, params) ==
    LET right == Execute(left.g, plan.right, params)
        rows  == left.rows \o right.rows
    IN  IF right.err # "" THEN right
        ELSE Done(right.g, IF plan.all THEN rows ELSE Dedup(rows, RowFingerprint))

-----------------------------------------------------------------------------
(* Projection: WITH and RETURN.                                            *)

\* The column of item i: its alias, or the name expr_default_name spells.
ItemName(items, i) ==
    IF Column(items[i]) # NoVar THEN Column(items[i]) ELSE "_col" \o ToString(i - 1)

\* eval_const_usize: SKIP and LIMIT count rows.
EvalConstUsize(g, e, params) ==
    LET v == Eval(g, e, <<>>, params)
    IN  CASE Failed(v) -> v
          [] v.t = "int" -> IF v.n < 0 THEN Err("syntax") ELSE v
          [] v.t \in {"float", "nan"} -> Err("syntax")
          [] OTHER -> IntV(0)

\* The order of two lists of sort keys.
KeysLeq(a, b, order) ==
    LET sign(i) == LET s == ValueOrdering(a[i], b[i]) IN IF order[i].asc THEN s ELSE -s
        differ  == {i \in 1..Len(order) : sign(i) # 0}
    IN  differ = {} \/ sign(Min(differ)) < 0

\* ORDER BY, DISTINCT, SKIP and LIMIT, in this order, over pairs of a projected
\* row and the row it comes from.  Key(pair, e) is a sort key; one that cannot
\* be evaluated counts as null, unless it names an unbound variable.
Arrange(g, pairs, proj, params, Key(_, _)) ==
    LET keyed == [i \in 1..Len(pairs) |->
                     [out |-> pairs[i].out,
                      keys |-> [k \in 1..Len(proj.order) |->
                                   LET v == Key(pairs[i], proj.order[k].e)
                                   IN  IF Failed(v) THEN Null ELSE v]]]
        Leq(a, b) == KeysLeq(a.keys, b.keys, proj.order)
        sorted == IF proj.order = <<>> THEN keyed ELSE SortBy(keyed, Leq)
        Rows(pairs1) == [i \in 1..Len(pairs1) |-> pairs1[i].out]
        Kept(rows) == IF proj.distinct THEN Dedup(rows, RowFingerprint) ELSE rows
        Bound(opt, default) == IF opt = <<>> THEN IntV(default)
                               ELSE EvalConstUsize(g, opt[1], params)
        Cut(kept, skip, limit) ==
            CASE Failed(skip) -> Broken(g, ErrorOf(skip))
              [] Failed(limit) -> Broken(g, ErrorOf(limit))
              [] OTHER -> Done(g, SubSeq(kept, skip.n + 1, Min({skip.n + limit.n, Len(kept)})))
        unbound == /\ pairs # <<>>
                   /\ \E k \in 1..Len(proj.order) :
                          Key(pairs[1], proj.order[k].e) = Err("unbound")
    IN  IF unbound THEN Broken(g, "unbound")
        ELSE Cut(Kept(Rows(sorted)), Bound(proj.skip, 0), Bound(proj.limit, Len(pairs)))

\* The projection of one row, or the first error.
ProjectRow(g, items, row, params) ==
    FoldLeft(LAMBDA acc, i:
                 LET v == Eval(g, items[i].e, row, params)
                 IN  CASE acc.err # "" -> acc
                       [] items[i].e.op = "star" -> [acc EXCEPT !.out = @ @@ row]
                       [] Failed(v) -> [acc EXCEPT !.err = ErrorOf(v)]
                       [] OTHER -> [acc EXCEPT !.out = (ItemName(items, i) :> v) @@ @],
             [out |-> <<>>, in |-> row, err |-> ""], [i \in 1..Len(items) |-> i])

\* exec_project without aggregates: a sort key may use the columns, and
\* otherwise the row they come from.
ExecProjectRows(in, proj, params) ==
    LET Key(pair, e) == LET v == Eval(in.g, e, pair.out, params)
                        IN  IF Failed(v) THEN Eval(in.g, e, pair.in, params) ELSE v
        Present(pairs) ==
            LET failed == {i \in 1..Len(pairs) : pairs[i].err # ""}
            IN  IF failed # {} THEN Broken(in.g, pairs[Min(failed)].err)
                ELSE Arrange(in.g, pairs, proj, params, Key)
    IN  Present([i \in 1..Len(in.rows) |-> ProjectRow(in.g, proj.items, in.rows[i], params)])

RECURSIVE ExprHasAggregate(_), CollectFreeVarRefs(_), EvalWithAgg(_, _, _, _, _)

\* expr_has_aggregate, which knows the DISTINCT forms as well.
ExprHasAggregate(e) ==
    \/ e.op = "fn" /\ e.x \in Aggregates
    \/ e.op # "patcomp" /\ \E i \in 1..Len(e.es) : ExprHasAggregate(e.es[i])

\* collect_free_var_refs: the variables and properties outside aggregates.
CollectFreeVarRefs(e) ==
    CASE e.op = "var" \/ VarProp(e) -> <<e>>
      [] \/ e.op = "fn" /\ e.x \in Aggregates
         \/ e.op \in {"listcomp", "quantifier", "slice", "patcomp"} -> <<>>
      [] OTHER -> FlattenSeq([i \in 1..Len(e.es) |-> CollectFreeVarRefs(e.es[i])])

\* Every free reference of an aggregating expression is a grouping key.
Ambiguous(proj) ==
    LET Agg(es) == SelectSeq(es, LAMBDA it: ExprHasAggregate(it.e))
        keys    == SelectSeq(proj.items, LAMBDA it: ~ExprHasAggregate(it.e))
        IsKey(r) == \E i \in 1..Len(keys) :
                       \/ ExprStructuralEq(keys[i].e, r)
                       \/ keys[i].as # NoVar /\ ExprStructuralEq(Var(keys[i].as), r)
        Bad(es) == \E i \in 1..Len(es) : LET refs == CollectFreeVarRefs(es[i].e)
                                         IN  \E j \in 1..Len(refs) : ~IsKey(refs[j])
    IN  Bad(Agg(proj.items)) \/ Bad(Agg(proj.order))

\* eval_with_agg: aggregates over the rows of the group, the rest on its first
\* row.  The connectives stop at a decisive left operand here.
EvalWithAgg(g, e, rows, fallback, params) ==
    LET row  == IF rows = <<>> THEN fallback ELSE rows[1]
        A(i) == EvalWithAgg(g, e.es[i], rows, fallback, params)
        done == [e EXCEPT !.es = [i \in 1..Len(e.es) |-> Lit(A(i))]]
        list == [e EXCEPT !.es = <<Lit(A(1))>> \o Tail(@)]
    IN  CASE ~ExprHasAggregate(e) -> Eval(g, e, row, params)
          [] e.op = "fn" /\ e.x \in Aggregates ->
                 EvalAggregate(e.x, [i \in 1..Len(rows) |-> Eval(g, e.es[1], rows[i], params)])
          [] e.op = "and" /\ A(1) = False -> False
          [] e.op = "or" /\ A(1) = True -> True
          [] e.op \in {"fn", "arith", "cmp", "and", "or", "xor", "not", "isnull", "isnotnull",
                       "neg", "case", "mapexpr", "list"} -> Eval(g, done, row, params)
          [] e.op \in {"listcomp", "quantifier"} -> Eval(g, list, row, params)
          [] OTHER -> Eval(g, e, row, params)

\* The groups, in the order of their first rows.  A key that fails is null;
\* without keys there is one group, of all rows or of none.
Groups(g, rows, items, params) ==
    LET keys == SelectSeq([i \in 1..Len(items) |-> i],
                          LAMBDA i: ~ExprHasAggregate(items[i].e))
        KeyRow(row) == [c \in {ItemName(items, keys[k]) : k \in 1..Len(keys)} |->
                           LET i == CHOOSE j \in Range(keys) : ItemName(items, j) = c
                               v == Eval(g, items[i].e, row, params)
                           IN  IF Failed(v) THEN Null ELSE v]
        Add(groups, row) ==
            LET key == RowFingerprint(KeyRow(row))
                at  == {i \in 1..Len(groups) : groups[i].print = key}
            IN  IF at = {} THEN Append(groups, [print |-> key, key |-> KeyRow(row), rows |-> <<row>>])
                ELSE [groups EXCEPT ![Min(at)].rows = Append(@, row)]
        found == FoldLeft(Add, <<>>, rows)
    IN  IF found = <<>> /\ keys = <<>> THEN <<[print |-> <<>>, key |-> <<>>, rows |-> <<>>]>>
        ELSE found

\* exec_project_aggregate.  A sort key that fails on the projected row is
\* looked up among the columns by its spelling.
ExecProjectAggregate(in, proj, params) ==
    LET items  == proj.items
        First(gr) == IF gr.rows = <<>> THEN <<>> ELSE gr.rows[1]
        Cell(gr, i) == EvalWithAgg(in.g, items[i].e, gr.rows, gr.key, params)
        names  == {ItemName(items, i) : i \in 1..Len(items)}
        Out(gr) == [c \in names |->
                       Cell(gr, CHOOSE i \in 1..Len(items) : ItemName(items, i) = c)]
        Pairs(groups) == [k \in 1..Len(groups) |->
                      [out |-> Out(groups[k]), in |-> First(groups[k]) @@ groups[k].key]]
        Key(pair, e) ==
            LET v    == Eval(in.g, e, pair.out, params)
                same == {i \in 1..Len(items) : items[i].as = NoVar /\ ExprStructuralEq(items[i].e, e)}
            IN  CASE ~Failed(v) -> v
                  [] same # {} -> pair.out[ItemName(items, Min(same))]
                  [] OTHER -> Eval(in.g, e, pair.in, params)
        Present(pairs) ==
            LET failed == {c \in {pairs[k].out[n] : k \in 1..Len(pairs), n \in names} : Failed(c)}
            IN  IF failed # {} THEN Broken(in.g, ErrorOf(CHOOSE c \in failed : TRUE))
                ELSE Arrange(in.g, pairs, proj, params, Key)
    IN  IF Ambiguous(proj) THEN Broken(in.g, "AmbiguousAggregationExpression")
        ELSE Present(Pairs(Groups(in.g, in.rows, items, params)))

\* exec_project.
ExecProject(in, proj, params) ==
    IF \E i \in 1..Len(proj.items) : ExprHasAggregate(proj.items[i].e)
    THEN ExecProjectAggregate(in, proj, params)
    ELSE ExecProjectRows(in, proj, params)

-----------------------------------------------------------------------------
(* Writes to the graph.                                                    *)

\* index_node_insert: the rows of prop_value_index of a node.
IndexRows(g, id) ==
    LET props == g.nodes[id].props
    IN  {<<ix[1], ix[2], props[ix[2]], id>> :
            ix \in {q \in g.indexes : /\ q[1] \in g.nodes[id].labels
                                      /\ q[2] \in DOMAIN props
                                      /\ props[q[2]] # Null}}

\* Mutant: the old rows are not deleted first.
ReindexInsertOnly(g, id) == [g EXCEPT !.propIx = @ \cup IndexRows(g, id)]

\* index_node_update: delete, and insert what holds now.
Reindex(g, id) ==
    [g EXCEPT !.propIx = {r \in @ : r[4] # id} \cup IndexRows(g, id)]

\* Mutant: no rows for label_index.
AddNodeUnlabelled(g, labels, props) ==
    [g EXCEPT !.nodes = (g.nextNode :> [labels |-> labels, props |-> props]) @@ @,
              !.known = @ \cup labels,
              !.nextNode = @ + 1]

\* A new node: the store, label_index and the label registry.
AddNode(g, labels, props) ==
    [g EXCEPT !.nodes = (g.nextNode :> [labels |-> labels, props |-> props]) @@ @,
              !.known = @ \cup labels,
              !.labelIx = @ \cup {<<l, g.nextNode>> : l \in labels},
              !.nextNode = @ + 1]

AddEdge(g, type, src, dst, props) ==
    [g EXCEPT !.edges = (g.nextEdge :> [type |-> type, src |-> src, dst |-> dst,
                                        props |-> props]) @@ @,
              !.nextEdge = @ + 1]

\* Mutant: SET uses a label without ensure_label.
SetNodeUnregistered(g, id, labels, props) ==
    [g EXCEPT !.nodes[id] = [labels |-> labels, props |-> props]]

SetNode(g, id, labels, props) ==
    [g EXCEPT !.nodes[id] = [labels |-> labels, props |-> props],
              !.known = @ \cup labels]

Without(f, keys) == [x \in DOMAIN f \ keys |-> f[x]]

DropEdges(g, ids) == [g EXCEPT !.edges = Without(@, ids)]

\* Mutant: the rows of label_index stay.
DropNodeOnly(g, id) == [g EXCEPT !.nodes = Without(@, {id})]

DropNode(g, id) ==
    [g EXCEPT !.nodes = Without(@, {id}), !.labelIx = {r \in @ : r[2] # id}]

-----------------------------------------------------------------------------
(* CREATE.                                                                 *)

\* The property map of an element: a record of its values, or an error.
EvalProps(g, ps, row, params) ==
    LET vals == [i \in 1..Len(ps) |-> Eval(g, ps[i][2], row, params)]
        keys == {ps[i][1] : i \in 1..Len(ps)}
        last(k) == Max({i \in 1..Len(ps) : ps[i][1] = k})
    IN  Strict(vals, MapV([k \in keys |-> ToJson(vals[last(k)])]))

\* A node of the pattern: one that is bound is used, one that the relationship
\* before it made is skipped.
CreateNode(acc, el, alone, params) ==
    LET bound == el.v \in DOMAIN acc.row /\ acc.row[el.v].t = "node"
        props == EvalProps(acc.g, el.ps, acc.row, params)
        id    == acc.g.nextNode
        g     == Reindex(AddNode(acc.g, Range(el.ls), props.m), id)
    IN  CASE acc.pre -> [acc EXCEPT !.pre = FALSE]
          [] bound /\ alone -> [acc EXCEPT !.err = "syntax"]
          [] bound -> [acc EXCEPT !.last = acc.row[el.v].n]
          [] Failed(props) -> Break(acc, props)
          [] OTHER -> [acc EXCEPT !.g = g, !.last = id, !.row = Put(@, el.v, Node(g, id))]

\* A relationship: the node behind it is made first, if it is not bound --
\* without its rows of prop_value_index.
CreateRel(acc, rel, node, params) ==
    LET bound == node.v \in DOMAIN acc.row
        props == EvalProps(acc.g, node.ps, acc.row, params)
        id    == IF bound THEN acc.row[node.v].n ELSE acc.g.nextNode
        g     == IF bound THEN acc.g ELSE AddNode(acc.g, Range(node.ls), props.m)
        row   == IF bound THEN acc.row ELSE Put(acc.row, node.v, Node(g, id))
        relProps == EvalProps(g, rel.ps, row, params)
        ends  == IF rel.dir = "in" THEN <<id, acc.last>> ELSE <<acc.last, id>>
        done  == AddEdge(g, rel.ts[1], ends[1], ends[2], relProps.m)
    IN  CASE bound /\ acc.row[node.v].t # "node" -> [acc EXCEPT !.err = "not a node"]
          [] ~bound /\ Failed(props) -> Break(acc, props)
          [] Failed(relProps) -> Break(acc, relProps)
          [] rel.dir = "both" -> [acc EXCEPT !.err = "syntax"]
          [] OTHER -> [acc EXCEPT !.g = done, !.pre = ~bound,
                                  !.last = IF bound THEN @ ELSE id,
                                  !.row = Put(row, rel.v, Edge(done, g.nextEdge))]

\* build_path_from_elem_vars: an element without a variable is null.
BuildPath(els, row) ==
    PathV([i \in 1..Len(els) |->
              IF els[i].v \in DOMAIN row THEN row[els[i].v] ELSE Null])

WithPath(done, pat, els) ==
    IF pat.v = NoVar \/ done.err # "" THEN done ELSE [done EXCEPT !.row = Put(@, pat.v, BuildPath(els, @))]

\* create_pattern_in_row.
CreatePatternInRow(acc, pat, params) ==
    WithPath(FoldLeft(LAMBDA a, i:
                          LET el == pat.els[i]
                          IN  CASE a.err # "" -> a
                                [] el.el = "node" -> CreateNode(a, el, Len(pat.els) = 1, params)
                                [] OTHER -> CreateRel(a, el, pat.els[i + 1], params),
                      [acc EXCEPT !.pre = FALSE, !.last = 0],
                      [i \in 1..Len(pat.els) |-> i]),
             pat, pat.els)

Creating(g, row) == [g |-> g, row |-> row, err |-> "", pre |-> FALSE, last |-> 0]

\* exec_create_pattern: consecutive CREATE clauses run together, row by row.
RECURSIVE CreateChain(_)
CreateChain(plan) ==
    IF plan.input.op # "create" THEN [input |-> plan.input, pats |-> plan.pats]
    ELSE LET below == CreateChain(plan.input)
         IN  [below EXCEPT !.pats = @ \o plan.pats]

ExecCreatePattern(in, pats, params) ==
    Over(in, LAMBDA acc, row:
                 Passed(acc, FoldLeft(LAMBDA a, pat: IF a.err # "" THEN a
                                                     ELSE CreatePatternInRow(a, pat, params),
                                      Creating(acc.g, row), pats)))

-----------------------------------------------------------------------------
(* SET and REMOVE.                                                         *)

\* A null value takes a property away, as a REMOVE does.
Overlay(props, extra) ==
    LET gone == {k \in DOMAIN extra : extra[k] = Null}
    IN  Without(extra @@ props, gone)

\* The properties that the value of a SET item makes of props.
Changed(item, val, props) ==
    CASE item.s = "prop"  -> Overlay(props, (item.key :> ToJson(val)))
      [] item.s = "merge" -> Overlay(props, val.m)
      [] item.s = "var"   -> val.m

Settable(item, val) ==
    IF item.s = "prop"
    THEN val.t # "map" /\ ~(val.t = "list" /\ \E i \in 1..Len(val.l) : val.l[i].t = "map")
    ELSE val.t \in {"node", "edge", "map", "null"}

\* SET x.key = value, x = map, x += map.  A node is read again from the store,
\* an edge changes from the copy in the row; the row's own copy changes alike.
SetProperties(acc, item, reindex, params) ==
    LET v     == item.on.x
        old   == IF v \in DOMAIN acc.row THEN acc.row[v] ELSE Err("not in scope")
        val   == Eval(acc.g, item.e, acc.row, params)
        id    == old.n
        row   == [acc.row EXCEPT ![v].m = Changed(item, val, @)]
        node  == acc.g.nodes[id]
        saved == SetNode(acc.g, id, node.labels, Changed(item, val, node.props))
        edges == [e \in DOMAIN acc.g.edges |->
                     IF e = id THEN [acc.g.edges[e] EXCEPT !.props = row[v].m]
                     ELSE acc.g.edges[e]]
    IN  CASE item.on.op # "var" -> [acc EXCEPT !.err = "not a variable"]
          [] item.s # "prop" /\ old = Null -> acc
          [] Failed(val) -> Break(acc, val)
          [] ~Settable(item, val) -> [acc EXCEPT !.err = "type"]
          [] old = Null \/ (item.s # "prop" /\ val = Null) -> acc
          [] old.t = "edge" -> [acc EXCEPT !.g.edges = edges, !.row = row]
          [] Failed(old) -> Break(acc, old)
          [] old.t \notin {"node", "int"} -> [acc EXCEPT !.err = "not a node"]
          [] id \notin DOMAIN acc.g.nodes -> [acc EXCEPT !.err = "not found"]
          [] OTHER -> [acc EXCEPT !.g = IF reindex THEN Reindex(saved, id) ELSE saved,
                                  !.row = IF old.t = "node" THEN row ELSE @]

\* SET x:Label and REMOVE x:Label: the node and label_index, but never
\* prop_value_index.
SetLabels(acc, item, add) ==
    LET v      == item.on.x
        old    == IF v \in DOMAIN acc.row THEN acc.row[v] ELSE Err("not in scope")
        ls     == IF add THEN Range(item.ls) ELSE Range(item.ls) \cap acc.g.known
        node   == acc.g.nodes[old.n]
        labels == IF add THEN node.labels \cup ls ELSE node.labels \ ls
        rows   == {<<l, old.n>> : l \in ls}
        saved  == SetNode(acc.g, old.n, labels, node.props)
    IN  CASE old = Null -> acc
          [] Failed(old) -> Break(acc, old)
          [] old.t \notin {"node", "int"} -> [acc EXCEPT !.err = "not a node"]
          [] old.n \notin DOMAIN acc.g.nodes -> [acc EXCEPT !.err = "not found"]
          [] OTHER -> [acc EXCEPT
                          !.g = [saved EXCEPT !.labelIx = IF add THEN @ \cup rows ELSE @ \ rows],
                          !.row = IF old.t # "node" THEN @
                                  ELSE [@ EXCEPT ![v].s = IF add THEN @ \cup Range(item.ls)
                                                          ELSE @ \ Range(item.ls)]]

\* exec_set_prop and exec_remove_prop: the items in turn, row by row.  The
\* parameters become part of the row; REMOVE leaves prop_value_index as it is.
ExecSetProp(in, items, set, params) ==
    Over(in, LAMBDA acc, row:
                 Passed(acc, FoldLeft(LAMBDA a, item:
                                          CASE a.err # "" -> a
                                            [] item.s = "label" -> SetLabels(a, item, set)
                                            [] OTHER -> SetProperties(a, item, set, params),
                                      [g |-> acc.g, row |-> row @@ params, err |-> ""], items)))

-----------------------------------------------------------------------------
(* DELETE, FOREACH, MERGE and index DDL.                                   *)

\* Mutant: DETACH DELETE takes the outgoing edges only.
DeleteValueOutOnly(g, v, detach) ==
    LET outgoing == {e \in DOMAIN g.edges : g.edges[e].src = v.n}
    IN  CASE v.t = "node" -> DropNode(IF detach THEN DropEdges(g, outgoing) ELSE g, v.n)
          [] v.t = "edge" -> DropEdges(g, {v.n})
          [] OTHER -> g

\* DELETE of a node, with its edges if it is DETACH DELETE, of an edge or of
\* a path.  What is gone already is skipped.  prop_value_index is not touched.
DeleteValue(g, v, detach) ==
    LET incident == {e \in DOMAIN g.edges : v.n \in {g.edges[e].src, g.edges[e].dst}}
        els(t)   == {v.l[i].n : i \in {j \in 1..Len(v.l) : v.l[j].t = t}}
    IN  CASE v.t = "node" -> DropNode(IF detach THEN DropEdges(g, incident) ELSE g, v.n)
          [] v.t = "edge" -> DropEdges(g, {v.n})
          [] v.t = "path" -> FoldLeft(DropNode, DropEdges(g, els("edge")), Ascending(els("node")))
          [] OTHER -> g

\* exec_delete_nodes: the rows pass through, with values that are gone.
ExecDelete(in, plan, params) ==
    LET Delete1(acc, row, e) ==
            LET v == Eval(acc.g, e, row, params)
            IN  CASE acc.err # "" -> acc
                  [] Failed(v) -> Break(acc, v)
                  [] v.t \notin {"node", "edge", "path", "null"} -> [acc EXCEPT !.err = "type"]
                  [] OTHER -> [acc EXCEPT !.g = DeleteValue(@, v, plan.detach)]
        Step(acc, row) ==
            Emit(FoldLeft(LAMBDA a, e: Delete1(a, row, e), acc, plan.es), <<row>>)
    IN  Over(in, Step)

\* exec_foreach: the body runs for each item, with the item its only binding;
\* an error in it is dropped.
ExecForeach(in, plan, params) ==
    LET Step(acc, row) ==
            LET list  == Eval(acc.g, plan.list, row, params)
                items == CASE list.t = "list" -> list.l
                           [] list = Null -> <<>>
                           [] OTHER -> <<list>>
                g     == FoldLeft(LAMBDA gr, x:
                                      Execute(gr, plan.body, (plan.v :> ToJson(x)) @@ params).g,
                                  acc.g, items)
            IN  IF Failed(list) THEN Break(acc, list)
                ELSE [Emit(acc, <<row>>) EXCEPT !.g = g]
    IN  Over(in, Step)

\* The SET of a MERGE: on a single row, whose variables are parameters.
MergeSet(acc, row, items, params) ==
    LET After(out) == [acc EXCEPT !.g = out.g, !.err = out.err, !.row = out.rows[1] @@ row]
    IN  IF items = <<>> THEN [acc EXCEPT !.row = row]
        ELSE After(ExecSetProp(Done(acc.g, <<<<>>>>), items, TRUE, Inject(row, params)))

\* A MERGE without a match creates its pattern: an undirected relationship
\* leads out, and every element of a named path has a variable.
MergePattern(pat) ==
    LET Named(i) == IF pat.v # NoVar /\ pat.els[i].v = NoVar
                    THEN "_anon_merge_" \o ToString(i) ELSE pat.els[i].v
        Element(i) == IF pat.els[i].el = "node" THEN [pat.els[i] EXCEPT !.v = Named(i)]
                      ELSE [pat.els[i] EXCEPT !.v = Named(i),
                                              !.dir = IF @ = "both" THEN "out" ELSE @]
    IN  [pat EXCEPT !.els = [i \in 1..Len(pat.els) |-> Element(i)]]

\* The pattern is made, or found (made), and the items of ON CREATE or of
\* ON MATCH are set.
MergeOne(acc, made, items, els, plan, inner) ==
    Passed(acc, WithPath(IF made.err # "" THEN made ELSE MergeSet(made, made.row, items, inner),
                         plan.pat, els))

\* One row, with what its match returned.
MergeRow(acc, row, plan, inner, null, found) ==
    LET pat == MergePattern(plan.pat)
    IN  CASE Failed(null) -> Break(acc, null)
          [] found.err # "" -> [acc EXCEPT !.err = found.err]
          [] found.rows = <<>> ->
                 MergeOne(acc, CreatePatternInRow(Creating(acc.g, row), pat, inner), plan.create,
                          pat.els, plan, inner)
          [] OTHER ->
                 FoldLeft(LAMBDA a, r:
                              IF a.err # "" THEN a
                              ELSE MergeOne(a, Creating(a.g, r @@ row), plan.match, plan.pat.els,
                                            plan, inner),
                          acc, found.rows)

\* A MERGE does not match a null property.
NullProps(g, pat, row, inner) ==
    LET ps == FlattenSeq([i \in 1..Len(pat.els) |-> pat.els[i].ps])
        vals == [i \in 1..Len(ps) |-> Eval(g, ps[i][2], row, inner)]
    IN  Strict(vals, IF Null \in Range(vals) THEN Err("MergeReadOwnWrites") ELSE True)

MergeRows(in, pl, plan, params) ==
    IF pl.err # "" THEN Broken(in.g, pl.err)
    ELSE Over(in, LAMBDA acc, row:
                      LET inner == Inject(row, params)
                      IN  MergeRow(acc, row, plan, inner, NullProps(acc.g, plan.pat, row, inner),
                                   Execute(acc.g, pl.plan, inner)))

\* exec_merge_pattern.  The match is planned once and without regard to the
\* bindings it runs with.
ExecMergePattern(in, plan, params) ==
    MergeRows(in, PlanMergeMatch(in.g, Query(<<MatchC(FALSE, <<plan.pat>>, <<>>)>>)), plan, params)

\* create_property_index and drop_property_index, as module Catalog has them
\* in steps: an index is filled from the nodes that are there.
ExecIndex(g, plan) ==
    LET ix    == <<plan.label, plan.prop>>
        clean == {r \in g.propIx : <<r[1], r[2]>> # ix}
        on    == [g EXCEPT !.indexes = @ \cup {ix}]
        rows  == UNION {IndexRows(on, id) : id \in DOMAIN g.nodes}
    IN  IF plan.on
        THEN [on EXCEPT !.propIx = clean \cup {r \in rows : <<r[1], r[2]>> = ix}]
        ELSE [g EXCEPT !.indexes = @ \ {ix}, !.propIx = clean]

-----------------------------------------------------------------------------
(* execute, and the whole of a call of cypher().                           *)

ExecPlan(g, plan, params) ==
    LET chain == CreateChain(plan)
        in == CASE plan.op \in {"single", "scan", "indexscan", "index"} -> Done(g, <<<<>>>>)
                [] plan.op \in {"cross", "union"} -> Execute(g, plan.left, params)
                [] plan.op \in {"apply", "leftjoin"} -> Execute(g, plan.outer, params)
                [] plan.op = "create" -> Execute(g, chain.input, params)
                [] OTHER -> Execute(g, plan.input, params)
    IN  CASE in.err # "" -> in
          [] plan.op = "single" -> in
          [] plan.op = "scan" -> ExecLabelScan(g, plan, params)
          [] plan.op = "indexscan" -> ExecPropertyIndexScan(g, plan, params)
          [] plan.op = "expand" -> ExecExpand(in, plan, params)
          [] plan.op = "varexpand" -> ExecVarLengthExpand(in, plan, params)
          [] plan.op = "boundlist" -> ExecBoundRelListExpand(in, plan, params)
          [] plan.op = "path" -> ExecNamedPath(in, plan)
          [] plan.op = "cross" -> ExecNested(in, plan.right, <<>>, params)
          [] plan.op = "apply" -> ExecNested(in, plan.inner, <<>>, params)
          [] plan.op = "leftjoin" -> ExecNested(in, plan.inner, <<Range(plan.nulls)>>, params)
          [] plan.op = "filter" -> ExecFilter(in, plan, params)
          [] plan.op = "unwind" -> ExecUnwind(in, plan, params)
          [] plan.op = "project" -> ExecProject(in, plan.proj, params)
          [] plan.op = "union" -> ExecUnion(in, plan, params)
          [] plan.op = "create" -> ExecCreatePattern(in, chain.pats, params)
          [] plan.op = "set" -> ExecSetProp(in, plan.items, TRUE, params)
          [] plan.op = "remove" -> ExecSetProp(in, plan.items, FALSE, params)
          [] plan.op = "delete" -> ExecDelete(in, plan, params)
          [] plan.op = "merge" -> ExecMergePattern(in, plan, params)
          [] plan.op = "foreach" -> ExecForeach(in, plan, params)
          [] plan.op = "index" -> Done(ExecIndex(g, plan), <<>>)

Interpret(what, g, x, row, params) ==
    LET Ready(pl) == IF what = "query" THEN RunPlan(g, pl, params) ELSE pl
    IN  CASE what = "expr" -> EvalExpr(g, x, row, params)
          [] what = "plan" -> ExecPlan(g, x, params)
          [] OTHER -> Ready(Plan(what, CatalogOf(g), x, row))
=============================================================================
