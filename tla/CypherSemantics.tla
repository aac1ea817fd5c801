--------------------------- MODULE CypherSemantics ---------------------------
(***************************************************************************)
(* What a query promises: the rows of a reading query, clause by clause,   *)
(* without a plan.  A pattern has all the ways to lay it on the graph that *)
(* walk no relationship twice; the clauses map bags of rows to bags of     *)
(* rows.  There is no order of joins, no index, no direction to expand in, *)
(* no choice of the properties to decode, and no state shared between rows.*)
(* Values, their comparison and the expressions that read no pattern are   *)
(* those of CypherValues and CypherExec.                                   *)
(***************************************************************************)
EXTENDS CypherExec

\* The elements of a set, in some order.
AnyOrder(set) == FoldSet(LAMBDA x, seq: Append(seq, x), <<>>, set)

RECURSIVE WalksFrom(_, _, _, _, _)

\* The value of an expression, and the rows a query adds to the ones it starts
\* from: the two cases of one recursive operator.
RECURSIVE Stands(_, _, _, _, _)
Denote(g, e, row, params) == Stands("expr", g, e, row, params)
MeaningOf(g, q, rows, params) == Stands("query", g, q, rows, params)
IsTrue(g, e, row, params) == Denote(g, e, row, params) = True

-----------------------------------------------------------------------------
(* Patterns.  A match [row, used, at, path, trail] binds the variables of  *)
(* row, has walked the edges used, stands at node at; trail tells two      *)
(* matches with the same bindings from each other.                         *)

Fits(g, v, labels, ps, m, params) ==
    /\ labels \subseteq v.s
    /\ \A i \in 1..Len(ps) :
           CompareValues(GetProperty(v, ps[i][1]), "=", Denote(g, ps[i][2], m.row, params)) = True

Agrees(m, v, val) == v \in DOMAIN m.row => m.row[v] = val

AtNode(g, m, el, params) ==
    {[m EXCEPT !.row = Put(@, el.v, Node(g, id)), !.at = id,
               !.path = Append(@, Node(g, id)), !.trail = @ \o <<0, id>>] :
        id \in {n \in DOMAIN g.nodes : /\ Fits(g, Node(g, n), Range(el.ls), el.ps, m, params)
                                       /\ Agrees(m, el.v, Node(g, n))}}

\* Edge e leads from one node to the other in the direction of rel.
Leads(g, e, from, to, rel) ==
    LET ends == <<g.edges[e].src, g.edges[e].dst>>
    IN  \/ rel.dir \in {"out", "both"} /\ ends = <<from, to>>
        \/ rel.dir \in {"in", "both"} /\ ends = <<to, from>>

\* The walks of at most n edges: sequences of pairs <<edge, next node>>.
WalksFrom(g, from, rel, barred, n) ==
    LET next == {p \in (DOMAIN g.edges \ barred) \X DOMAIN g.nodes : Leads(g, p[1], from, p[2], rel)}
    IN  {<<>>} \cup
        (IF n = 0 THEN {}
         ELSE UNION {{<<p>> \o w : w \in WalksFrom(g, p[2], rel, barred \cup {p[1]}, n - 1)} :
                     p \in next})

\* Along a relationship to the node behind it.
Along(g, m, rel, node, params) ==
    LET range == IF rel.len = Fixed THEN [min |-> 1, max |-> 1] ELSE rel.len[1]
        hops  == Min({range.max, Cardinality(DOMAIN g.edges)})
        bad   == {e \in DOMAIN g.edges :
                     ~Fits(g, Edge(g, e), {}, rel.ps, m, params)
                     \/ (rel.ts # <<>> /\ g.edges[e].type \notin Range(rel.ts))}
        walks == {w \in WalksFrom(g, m.at, rel, m.used \cup bad, hops) : Len(w) >= range.min}
        value(w) == IF rel.len = Fixed THEN Edge(g, w[1][1])
                    ELSE ListV([i \in 1..Len(w) |-> Edge(g, w[i][1])])
        inner(w) == FlattenSeq([i \in 1..Len(w) |->
                        IF i = Len(w) THEN <<Edge(g, w[i][1])>>
                        ELSE <<Edge(g, w[i][1]), Node(g, w[i][2])>>])
        moved(w) == [m EXCEPT !.row = Put(@, rel.v, value(w)),
                              !.used = @ \cup {w[i][1] : i \in 1..Len(w)},
                              !.path = @ \o inner(w),
                              !.trail = @ \o <<0>> \o [i \in 1..Len(w) |-> w[i][1]]]
        last(w) == IF w = <<>> THEN m.at ELSE w[Len(w)][2]
        arrive(w) == {n \in AtNode(g, moved(w), node, params) : n.at = last(w)}
        \* A walk of no edges stays on its node, which is in the path already.
        once(n, w) == IF w = <<>> THEN [n EXCEPT !.path = m.path] ELSE n
    IN  UNION {{once(n, w) : n \in arrive(w)} : w \in {u \in walks : Agrees(m, rel.v, value(u))}}

LayPattern(g, m, pat, params) ==
    LET starts == AtNode(g, [m EXCEPT !.path = <<>>], pat.els[1], params)
        rels   == SelectSeq([i \in 1..Len(pat.els) |-> i], LAMBDA i: IsRel(pat.els[i]))
        ends   == FoldLeft(LAMBDA ms, i:
                               UNION {Along(g, n, pat.els[i], pat.els[i + 1], params) : n \in ms},
                           starts, rels)
    IN  {[n EXCEPT !.row = Put(@, pat.v, PathV(n.path))] : n \in ends}

Matches(g, pats, row, params) ==
    FoldLeft(LAMBDA ms, pat: UNION {LayPattern(g, m, pat, params) : m \in ms},
             {[row |-> row, used |-> {}, at |-> 0, path |-> <<>>, trail |-> <<>>]}, pats)

RowsOf(matches) == LET seq == AnyOrder(matches) IN [i \in 1..Len(seq) |-> seq[i].row]

PatternVars(pats) ==
    UNION {{pats[i].v} \cup {pats[i].els[j].v : j \in 1..Len(pats[i].els)} : i \in 1..Len(pats)}

MatchRows(g, c, row, params) ==
    LET Selected(m) == \A i \in 1..Len(c.where) : IsTrue(g, c.where[i], m.row, params)
        OrNulls(rows) == IF rows = <<>> /\ c.optional
                         THEN <<NullRow(row, PatternVars(c.pats))>> ELSE rows
    IN  OrNulls(RowsOf({m \in Matches(g, c.pats, row, params) : Selected(m)}))

\* An expression with its EXISTS and pattern comprehensions replaced by what
\* they mean.
RECURSIVE Ground(_, _, _, _)
Ground(g, e, row, params) ==
    CASE e.op = "exists" -> Lit(BoolV(MeaningOf(g, e.x, <<row>>, params) # <<>>))
      [] e.op = "patcomp" ->
             LET Items(rows) == Lit(ListV([i \in 1..Len(rows) |->
                                              Denote(g, e.es[1 + e.x.pred], rows[i], params)]))
             IN  Items(RowsOf({m \in Matches(g, <<e.x.pat>>, row, params) :
                                  e.x.pred = 1 => IsTrue(g, e.es[1], m.row, params)}))
      [] e.op \in {"listcomp", "quantifier"} -> e
      [] OTHER -> [e EXCEPT !.es = [i \in 1..Len(e.es) |-> Ground(g, e.es[i], row, params)]]

-----------------------------------------------------------------------------
(* Projection.                                                             *)

\* The aggregates, by what they are of the bag of the values that are not null.
Aggregate(name, vals) ==
    LET least(sign) == CHOOSE v \in Range(vals) :
                           \A w \in Range(vals) : sign * ValueOrdering(v, w) <= 0
    IN  CASE name = "count" -> IntV(Len(vals))
          [] name = "count_distinct" -> IntV(Cardinality(Range(vals)))
          [] name = "sum" -> IntV(FoldLeft(LAMBDA acc, v: acc + v.n, 0, vals))
          [] name = "min" -> IF vals = <<>> THEN Null ELSE least(1)
          [] name = "max" -> IF vals = <<>> THEN Null ELSE least(-1)
          [] name = "collect" -> ListV(vals)

\* The expression of a group, its aggregates replaced by their values.
RECURSIVE Aggregated(_, _, _, _)
Aggregated(g, e, rows, params) ==
    IF e.op = "fn" /\ e.x \in Aggregates
    THEN Lit(Aggregate(e.x, SelectSeq([i \in 1..Len(rows) |->
                                          Denote(g, e.es[1], rows[i], params)],
                                      LAMBDA v: v # Null)))
    ELSE [e EXCEPT !.es = [i \in 1..Len(e.es) |-> Aggregated(g, e.es[i], rows, params)]]

HasAggregate(items) == \E i \in 1..Len(items) : ExprHasAggregate(items[i].e)

\* The projected rows, with the rows they stand for.
Projected(g, items, rows, params) ==
    LET names == {ItemName(items, i) : i \in 1..Len(items)}
        item(c) == items[CHOOSE i \in 1..Len(items) : ItemName(items, i) = c]
        plain == {c \in names : ~ExprHasAggregate(item(c).e)}
        KeyOf(row) == [c \in plain |-> Denote(g, item(c).e, row, params)]
        keys  == AnyOrder({KeyOf(rows[i]) : i \in 1..Len(rows)})
        groups == IF keys = <<>> /\ plain = {} THEN <<<<>>>>
                  ELSE [k \in 1..Len(keys) |-> SelectSeq(rows, LAMBDA r: KeyOf(r) = keys[k])]
        First(group) == IF group = <<>> THEN <<>> ELSE group[1]
        Cell(c, group) == Denote(g, Aggregated(g, item(c).e, group, params), First(group), params)
    IN  IF HasAggregate(items)
        THEN [k \in 1..Len(groups) |->
                 [out |-> [c \in names |-> Cell(c, groups[k])], in |-> First(groups[k])]]
        ELSE [i \in 1..Len(rows) |-> [out |-> KeyOf(rows[i]), in |-> rows[i]]]

\* DISTINCT, ORDER BY, SKIP and LIMIT.
Presented(g, proj, pairs, params) ==
    LET kept == IF proj.distinct
                THEN LET outs == AnyOrder({pairs[i].out : i \in 1..Len(pairs)})
                     IN  [i \in 1..Len(outs) |-> [out |-> outs[i], in |-> <<>>]]
                ELSE pairs
        key(p, k) == Denote(g, proj.order[k].e, p.out @@ p.in, params)
        before(p, q) == \E k \in 1..Len(proj.order) :
            /\ ValueOrdering(key(p, k), key(q, k)) = (IF proj.order[k].asc THEN -1 ELSE 1)
            /\ \A j \in 1..k - 1 : ValueOrdering(key(p, j), key(q, j)) = 0
        sorted == IF proj.order = <<>> THEN kept ELSE SortSeq(kept, before)
        n(opt, default) == IF opt = <<>> THEN default ELSE Denote(g, opt[1], <<>>, params).n
        from == n(proj.skip, 0)
        to   == Min({from + n(proj.limit, Len(kept)), Len(kept)})
    IN  [i \in 1..(IF to < from THEN 0 ELSE to - from) |-> sorted[from + i].out]

-----------------------------------------------------------------------------
(* Clauses and queries.                                                    *)

Each(rows, F(_)) == FlattenSeq([i \in 1..Len(rows) |-> F(rows[i])])

Clause(g, c, rows, params) ==
    CASE c.c = "match" -> Each(rows, LAMBDA row: MatchRows(g, c, row, params))
      [] c.c = "unwind" ->
             Each(rows, LAMBDA row:
                 LET list == Denote(g, c.e, row, params)
                 IN  [i \in 1..Len(list.l) |-> Put(row, c.v, list.l[i])])
      [] c.c = "call" ->
             Each(rows, LAMBDA row:
                 LET inner == MeaningOf(g, c.query, <<<<>>>>, params)
                 IN  [i \in 1..Len(inner) |-> inner[i] @@ row])
      [] c.c = "return" -> Presented(g, c.proj, Projected(g, c.proj.items, rows, params), params)
      [] c.c = "with" ->
             LET next == Presented(g, c.proj, Projected(g, c.proj.items, rows, params), params)
             IN  SelectSeq(next, LAMBDA row: \A i \in 1..Len(c.where) :
                                     IsTrue(g, c.where[i], row, params))

ClausesMean(g, q, rows, params) ==
    LET Both(left, right) == IF q.union[1].all THEN left \o right
                             ELSE AnyOrder(Range(left \o right))
        Joined(left) == IF q.union = <<>> THEN left
                        ELSE Both(left, MeaningOf(g, q.union[1].q, rows, params))
    IN  Joined(FoldLeft(LAMBDA acc, c: Clause(g, c, acc, params), rows, q.clauses))

Stands(what, g, x, from, params) ==
    IF what = "expr" THEN Eval(g, Ground(g, x, from, params), from, params)
    ELSE ClausesMean(g, x, from, params)

Meaning(g, q, params) == MeaningOf(g, q, <<<<>>>>, params)

\* The same rows, each as often.
SameBag(a, b) ==
    /\ Len(a) = Len(b)
    /\ \A i \in 1..Len(a) : Cardinality({j \in 1..Len(a) : a[j] = a[i]}) =
                            Cardinality({j \in 1..Len(b) : b[j] = a[i]})
=============================================================================
