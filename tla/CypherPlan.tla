----------------------------- MODULE CypherPlan -----------------------------
(***************************************************************************)
(* The planner (planner.rs): from the clauses of a query to a logical plan,*)
(* the rewriting of the plan for join order and property indexes, and the  *)
(* annotation of scans with the properties the rest of the plan reads.     *)
(*                                                                         *)
(* The syntax tree is built of three kinds of record: an expression is     *)
(* [op, x, es] (operator, payload, operands), a pattern [v, els] with      *)
(* nodes and relationships in turn, a clause a record with field c.  An    *)
(* option is a sequence of length 0 or 1, an absent name is NoVar.  The    *)
(* catalog cat that the planner asks is a record of functions: the nodes   *)
(* per label, the nodes in total, the indexed pairs and their entries.     *)
(*                                                                         *)
(* Left out: procedure calls, shortestPath, and the static checks that     *)
(* only word an error (nested aggregates, quantifier types, function       *)
(* signatures).                                                            *)
(***************************************************************************)
EXTENDS CypherValues, TLC

NoVar == ""

\* The names a query may use for its own variables; every other name is one
\* of the planner's, which the code recognises by its leading underscore.
UserVars == {"a", "b", "c", "d", "k", "m", "n", "p", "q", "r", "s", "t", "x", "y"}

Expr(op, x, es) == [op |-> op, x |-> x, es |-> es]

Var(v)        == Expr("var", v, <<>>)
Prop(e, key)  == Expr("prop", key, <<e>>)
Lit(v)        == Expr("lit", v, <<>>)
Param(name)   == Expr("param", name, <<>>)
Cmp(l, op, r) == Expr("cmp", op, <<l, r>>)
And(l, r)     == Expr("and", NoVar, <<l, r>>)
Or(l, r)      == Expr("or", NoVar, <<l, r>>)
Xor(l, r)     == Expr("xor", NoVar, <<l, r>>)
Not(e)        == Expr("not", NoVar, <<e>>)
IsNull(e)     == Expr("isnull", NoVar, <<e>>)
IsNotNull(e)  == Expr("isnotnull", NoVar, <<e>>)
Arith(l, op, r) == Expr("arith", op, <<l, r>>)
Neg(e)        == Expr("neg", NoVar, <<e>>)
Fn(name, es)  == Expr("fn", name, es)
Star          == Expr("star", NoVar, <<>>)
ListE(es)     == Expr("list", NoVar, es)
MapE(keys, es) == Expr("mapexpr", keys, es)
In(l, r)      == Expr("in", NoVar, <<l, r>>)
HasLabel(e, labels) == Expr("haslabel", labels, <<e>>)
\* CASE: cond, value, ... and the default, with the tested value first in the
\* simple form.
Case(es)      == Expr("case", NoVar, es)
CaseOf(es)    == Expr("caseof", NoVar, es)
ListComp(v, list, pred, proj) ==
    Expr("listcomp", [v |-> v, pred |-> Len(pred), proj |-> Len(proj)],
         <<list>> \o pred \o proj)
Quantifier(kind, v, list, pred) ==
    Expr("quantifier", [kind |-> kind, v |-> v], <<list, pred>>)
Subscript(l, i, key) == Expr("subscript", key, <<l, i>>)
Slice(l, from, to) ==
    Expr("slice", [from |-> Len(from), to |-> Len(to)], <<l>> \o from \o to)
PatComp(pattern, pred, proj) ==
    Expr("patcomp", [pat |-> pattern, pred |-> Len(pred)], pred \o <<proj>>)
Exists(query) == Expr("exists", query, <<>>)

NodeP(v, ls, ps) == [el |-> "node", v |-> v, ls |-> ls, ps |-> ps]
RelP(v, ts, dir, ps, len) ==
    [el |-> "rel", v |-> v, ts |-> ts, dir |-> dir, ps |-> ps, len |-> len]
Pattern(v, els) == [v |-> v, els |-> els]
Hops(min, max) == <<[min |-> min, max |-> max]>>
Fixed == <<>>

MatchC(optional, pats, where) ==
    [c |-> "match", optional |-> optional, pats |-> pats, where |-> where]
UnwindC(e, v) == [c |-> "unwind", e |-> e, v |-> v]
CallC(query) == [c |-> "call", query |-> query]
Item(e, as) == [e |-> e, as |-> as]
Order(e, asc) == [e |-> e, asc |-> asc]
Projection(distinct, items, order, skip, limit) ==
    [distinct |-> distinct, items |-> items, order |-> order,
     skip |-> skip, limit |-> limit]
WithC(proj, where) == [c |-> "with", proj |-> proj, where |-> where]
ReturnC(proj) == [c |-> "return", proj |-> proj]
CreateC(pats) == [c |-> "create", pats |-> pats]
MergeC(pat, create, match) ==
    [c |-> "merge", pat |-> pat, create |-> create, match |-> match]
SetC(items) == [c |-> "set", items |-> items]
RemoveC(items) == [c |-> "remove", items |-> items]
DeleteC(es, detach) == [c |-> "delete", es |-> es, detach |-> detach]
ForeachC(v, list, body) == [c |-> "foreach", v |-> v, list |-> list, body |-> body]
IndexC(on, label, prop) == [c |-> "index", on |-> on, label |-> label, prop |-> prop]

SetProp(e, key, val) == [s |-> "prop", v |-> NoVar, on |-> e, key |-> key, e |-> val, ls |-> <<>>]
SetVar(v, val) == [s |-> "var", v |-> v, on |-> Var(v), key |-> NoVar, e |-> val, ls |-> <<>>]
SetMerge(v, val) == [s |-> "merge", v |-> v, on |-> Var(v), key |-> NoVar, e |-> val, ls |-> <<>>]
SetLabel(v, ls) == [s |-> "label", v |-> v, on |-> Var(v), key |-> NoVar, e |-> Lit(Null), ls |-> ls]
RemoveProp(v, key) == SetProp(Var(v), key, Lit(Null))
RemoveLabel(v, ls) == SetLabel(v, ls)

Query(clauses) == [clauses |-> clauses, union |-> <<>>]
UnionOf(clauses, all, right) == [clauses |-> clauses, union |-> <<[all |-> all, q |-> right]>>]

-----------------------------------------------------------------------------
(* Walks over expressions.  Each walk of the code has its own list of the  *)
(* operators it descends into; the others it takes for leaves.             *)

Binary == {"cmp", "and", "or", "xor", "arith", "in"}
Unary  == {"not", "neg", "isnull", "isnotnull", "haslabel"}
Cases  == {"case", "caseof"}

RECURSIVE ExprContainsAggregation(_), ContainsAggregation(_),
          CheckExprVars(_, _), ExtractAggCalls(_), ExprStructuralEq(_, _),
          SubstituteAliases(_, _), ExprHasInlinePattern(_)

\* The names expr_contains_aggregation knows: the DISTINCT forms, which the
\* parser renames, are not among them.
PlainAggregates == {"count", "sum", "avg", "min", "max", "collect"}

ExprContainsAggregation(e) ==
    \/ e.op = "fn" /\ e.x \in PlainAggregates
    \/ /\ e.op \in Binary \cup Unary \cup Cases \cup
                  {"fn", "prop", "subscript", "list", "mapexpr"}
       /\ \E i \in 1..Len(e.es) : ExprContainsAggregation(e.es[i])

\* contains_aggregation, asked of a WHERE.
ContainsAggregation(e) ==
    \/ e.op = "fn" /\ e.x \in Aggregates
    \/ /\ e.op \in Binary \cup Unary \cup {"fn", "prop", "subscript", "list", "mapexpr"}
       /\ \E i \in 1..Len(e.es) : ContainsAggregation(e.es[i])

\* check_expr_vars: no undefined variable where the walk reaches.
CheckExprVars(e, bound) ==
    CASE e.op = "var" -> e.x \in bound \/ e.x \notin UserVars
      [] e.op \in (Binary \ {"in"}) \cup Unary \cup Cases \cup
                  {"fn", "prop", "subscript", "list", "mapexpr"} ->
             \A i \in 1..Len(e.es) : CheckExprVars(e.es[i], bound)
      [] e.op = "slice" -> \A i \in 1..Min({2, Len(e.es)}) : CheckExprVars(e.es[i], bound)
      [] OTHER -> TRUE

ExtractAggCalls(e) ==
    CASE e.op = "fn" /\ e.x \in PlainAggregates -> <<e>>
      [] e.op \in Binary \cup Unary \cup {"fn", "prop", "subscript", "list", "mapexpr"} ->
             FlattenSeq([i \in 1..Len(e.es) |-> ExtractAggCalls(e.es[i])])
      [] OTHER -> <<>>

ExprStructuralEq(e, f) ==
    /\ e.op = f.op
    /\ e.op \in (Binary \ {"in"}) \cup (Unary \ {"haslabel"}) \cup
                {"var", "lit", "prop", "fn", "list", "subscript", "star", "param"}
    /\ e.x = f.x
    /\ Len(e.es) = Len(f.es)
    /\ \A i \in 1..Len(e.es) : ExprStructuralEq(e.es[i], f.es[i])

\* substitute_aliases_in_expr: a subquery or pattern keeps its variables.
SubstituteAliases(e, alias) ==
    CASE e.op = "var" -> IF e.x \in DOMAIN alias THEN alias[e.x] ELSE e
      [] e.op \in {"patcomp", "exists"} -> e
      [] OTHER -> [e EXCEPT !.es = [i \in 1..Len(e.es) |-> SubstituteAliases(e.es[i], alias)]]

\* expr_has_inline_pattern: an EXISTS of one MATCH clause.
ExprHasInlinePattern(e) ==
    \/ e.op = "exists" /\ Len(e.x.clauses) = 1 /\ e.x.clauses[1].c = "match"
    \/ /\ e.op \in Binary \cup {"not", "isnull", "isnotnull", "neg", "fn", "prop",
                                "subscript", "slice"}
       /\ \E i \in 1..Len(e.es) : ExprHasInlinePattern(e.es[i])

\* expr_var_kind, with expr_is_definitely_not_node.
ExprVarKind(e, kinds) ==
    CASE e.op = "var" -> IF e.x \in DOMAIN kinds THEN kinds[e.x] ELSE "scalar"
      [] e.op = "lit" /\ e.x # Null -> "notnode"
      [] e.op \in Binary \cup Unary \cup {"list", "mapexpr"} -> "notnode"
      [] OTHER -> "scalar"

-----------------------------------------------------------------------------
(* The state of the planner while it goes through the clauses: the plan so *)
(* far, the bound variables, their kinds, and the error that ended it.     *)

Planner(plan, bound, kinds) ==
    [plan |-> plan, bound |-> bound, kinds |-> kinds, err |-> "",
     nodes |-> <<>>, rels |-> <<>>, last |-> NoVar]
Fail(pl, what) == [pl EXCEPT !.err = what]

Bind(pl, v, kind) ==
    [pl EXCEPT !.bound = @ \cup {v}, !.kinds = (v :> kind) @@ @]

SingleRow == [op |-> "single"]
LabelScan(v, label, props, optional) ==
    [op |-> "scan", v |-> v, label |-> label, props |-> props,
     optional |-> optional, need |-> <<>>]
Filter(input, pred) == [op |-> "filter", input |-> input, pred |-> pred]
Cross(left, right) == [op |-> "cross", left |-> left, right |-> right]
Project(input, proj) == [op |-> "project", input |-> input, proj |-> proj]

\* try_property_index_scan: the first inline property with an index is looked
\* up, the others are left to check.
TryPropertyIndexScan(cat, v, label, props, optional) ==
    LET at == {i \in 1..Len(props) : <<label, props[i][1]>> \in cat.indexes}
    IN  IF at = {} THEN <<>>
        ELSE <<[op |-> "indexscan", v |-> v, label |-> label,
                prop |-> props[Min(at)][1], e |-> props[Min(at)][2],
                rest |-> RemoveAt(props, Min(at)), optional |-> optional]>>

\* The scan of a node that is not bound yet.
ScanOf(cat, v, label, props, optional) ==
    LET index == IF label = <<>> THEN <<>>
                 ELSE TryPropertyIndexScan(cat, v, label[1], props, optional)
    IN  IF index # <<>> THEN index[1] ELSE LabelScan(v, label, props, optional)

\* A filter for each of the properties of a node that must match.
PropFilters(plan, v, props) ==
    FoldLeft(LAMBDA p, kv: Filter(p, Cmp(Prop(Var(v), kv[1]), "=", kv[2])), plan, props)

LabelFilters(plan, v, labels) ==
    FoldLeft(LAMBDA p, l: Filter(p, HasLabel(Var(v), <<l>>)), plan, labels)

\* An anonymous node is named after its place; underscores make it new.
RECURSIVE Fresh(_, _)
Fresh(name, taken) == IF name \in taken THEN Fresh(name \o "_", taken) ELSE name

AnonRels == {"_anon_rel_" \o ToString(i) : i \in 0..9}

NotANode(pl, v) == v \in DOMAIN pl.kinds /\ pl.kinds[v] \in {"rel", "path", "notnode"}

IsRel(el) == el.el = "rel"
FixedRel(el) == el.el = "rel" /\ el.len = Fixed
RelsOf(pattern) == SelectSeq(pattern.els, IsRel)
FixedRels(pattern) == SelectSeq(pattern.els, FixedRel)

\* Whether an anonymous fixed relationship of the pattern gets a name, so that
\* it can be told from the others.
Tracked(pattern) ==
    Len(FixedRels(pattern)) > 1 \/ Len(FixedRels(pattern)) # Len(RelsOf(pattern))

\* The number of names given to anonymous relationships before element i.
AnonBefore(pattern, i) ==
    Cardinality({j \in 1..i-1 : /\ pattern.els[j].el = "rel" /\ pattern.els[j].v = NoVar
                                /\ pattern.v # NoVar \/ pattern.els[j].len = Fixed})

\* The variable the executor binds to relationship i of the pattern, if any.
RelVarName(pattern, i) ==
    LET rel == pattern.els[i]
        k   == ToString(AnonBefore(pattern, i))
    IN  CASE rel.v # NoVar -> rel.v
          [] pattern.v # NoVar -> "_pr_" \o k
          [] rel.len = Fixed /\ Tracked(pattern) -> "_anon_rel_" \o k
          [] OTHER -> NoVar

\* The fixed relationships a variable-length one must not walk again; those of
\* a named path that have no variable are not among them.
FixedRelVars(pattern) ==
    LET places == SelectSeq([i \in 1..Len(pattern.els) |-> i],
                            LAMBDA i: /\ FixedRel(pattern.els[i])
                                      /\ pattern.els[i].v # NoVar \/ pattern.v = NoVar)
        names == [k \in 1..Len(places) |-> RelVarName(pattern, places[k])]
    IN  SelectSeq(names, LAMBDA v: v # NoVar)

\* The start of a pattern: a filter on a bound node, a scan joined to what
\* came before otherwise.
PlanFirstNode(pl, cat, pattern, optional) ==
    LET node  == pattern.els[1]
        v     == IF node.v # NoVar THEN node.v ELSE Fresh("_anon_n0", pl.bound)
        scan  == ScanOf(cat, v, SubSeq(node.ls, 1, Min({1, Len(node.ls)})), node.ps,
                        optional)
        start == IF pl.plan.op = "single" THEN scan ELSE Cross(pl.plan, scan)
        next  == IF node.v # NoVar /\ v \in pl.bound
                 THEN LET p == IF node.ls = <<>> THEN pl.plan
                               ELSE Filter(pl.plan, HasLabel(Var(v), node.ls))
                      IN  [pl EXCEPT !.plan = PropFilters(p, v, node.ps), !.last = v]
                 ELSE [pl EXCEPT !.plan = LabelFilters(start, v, SubSeq(node.ls, 2, Len(node.ls))),
                                 !.kinds = (v :> "node") @@ @,
                                 !.nodes = Append(@, v), !.last = v]
    IN  IF node.v # NoVar /\ NotANode(pl, v) THEN Fail(pl, "VariableTypeConflict") ELSE next

\* all(_r IN rels WHERE _r.key = value AND ...) after a variable-length expand.
RelPropsFilter(plan, v, i, props) ==
    LET it == "_r_" \o ToString(i)
        tests == [j \in 1..Len(props) |-> Cmp(Prop(Var(it), props[j][1]), "=", props[j][2])]
    IN  IF props = <<>> \/ v = NoVar THEN plan
        ELSE Filter(plan, Quantifier("all", it, Var(v),
                              FoldLeft(And, tests[1], SubSeq(tests, 2, Len(tests)))))

\* One relationship and the node behind it; i is the place of the
\* relationship in the pattern.
PlanHop(pl, pattern, i, optional) ==
    LET rel  == pattern.els[i]
        node == pattern.els[i + 1]
        name == RelVarName(pattern, i)
        known(v) == v \in DOMAIN pl.kinds
        prebound == /\ rel.v \in pl.bound /\ rel.len # Fixed /\ known(rel.v)
                    /\ pl.kinds[rel.v] \in {"scalar", "notnode"}
        dst  == IF node.v # NoVar THEN node.v
                ELSE Fresh("_anon_n" \o ToString(i), pl.bound \cup Range(pl.nodes))
        new  == dst \notin pl.bound /\ dst \notin Range(pl.nodes)
        listVar == CASE rel.v # NoVar -> rel.v
                     [] pattern.v = NoVar /\ rel.ps # <<>> -> "_anon_vrel_" \o ToString(i - 1)
                     [] OTHER -> NoVar
        carry == CASE pattern.v = NoVar -> NoVar
                   [] rel.v # NoVar -> "_path_carry_" \o rel.v
                   [] OTHER -> name
        step == CASE rel.len = Fixed ->
                       [op |-> "expand", input |-> pl.plan, src |-> pl.last, rel |-> name,
                        dst |-> dst, types |-> rel.ts, dir |-> rel.dir, relProps |-> rel.ps,
                        labels |-> node.ls, props |-> node.ps, optional |-> optional,
                        need |-> <<>>]
                  [] prebound ->
                       [op |-> "boundlist", input |-> pl.plan, src |-> pl.last,
                        list |-> rel.v, dst |-> dst, dir |-> rel.dir]
                  [] OTHER ->
                       RelPropsFilter(
                         [op |-> "varexpand", input |-> pl.plan, src |-> pl.last,
                          rel |-> listVar, dst |-> dst, types |-> rel.ts, dir |-> rel.dir,
                          min |-> rel.len[1].min, max |-> rel.len[1].max,
                          optional |-> optional, carry |-> carry,
                          excluded |-> FixedRelVars(pattern)], listVar, i - 1, rel.ps)
        relKinds == IF name # NoVar /\ ~known(name) THEN (name :> "rel") @@ pl.kinds
                    ELSE pl.kinds
    IN  CASE rel.v # NoVar /\ known(rel.v) /\ pl.kinds[rel.v] # "rel" /\ ~prebound ->
               Fail(pl, "VariableTypeConflict")
          [] rel.v # NoVar /\ rel.v \in Range(pl.rels) ->
               Fail(pl, "RelationshipUniquenessViolation")
          [] node.v # NoVar /\ NotANode([pl EXCEPT !.kinds = relKinds], dst) ->
               Fail(pl, "VariableTypeConflict")
          [] OTHER ->
               [pl EXCEPT
                  !.plan = IF rel.len = Fixed THEN step
                           ELSE PropFilters(LabelFilters(step, dst, node.ls), dst, node.ps),
                  !.kinds = IF new THEN (dst :> "node") @@ relKinds ELSE relKinds,
                  !.nodes = IF new THEN Append(@, dst) ELSE @,
                  !.rels = IF name # NoVar /\ ~known(name) /\
                              (rel.v # NoVar \/ name \in AnonRels)
                           THEN Append(@, name) ELSE @,
                  !.last = dst]

\* The variables of a named path, node and relationship in turn: those of the
\* row for fixed hops, the carried path of a variable-length one.
ElementVars(pattern, bound) ==
    [i \in 1..Len(pattern.els) |->
        LET el == pattern.els[i]
        IN  CASE el.el = "rel" /\ el.len # Fixed /\ el.v # NoVar -> "_path_carry_" \o el.v
              [] el.el = "rel" -> RelVarName(pattern, i)
              [] el.v # NoVar -> el.v
              [] OTHER -> Fresh("_anon_n" \o ToString(i - 1), bound)]

\* A pattern with a name ends in a named path.
PathPlanned(pattern, bound, end) ==
    IF pattern.v = NoVar \/ end.err # "" THEN end
    ELSE [end EXCEPT !.plan = [op |-> "path", input |-> @, v |-> pattern.v,
                               vars |-> ElementVars(pattern, bound)]]

\* plan_pattern_onto: nodes and rels of the result are the variables it
\* introduces.
PlanPatternOnto(pl, cat, pattern, optional) ==
    LET start == PlanFirstNode([pl EXCEPT !.nodes = <<>>, !.rels = <<>>], cat, pattern, optional)
        hops  == SelectSeq([i \in 1..Len(pattern.els) |-> i],
                           LAMBDA i: pattern.els[i].el = "rel")
    IN  PathPlanned(pattern, pl.bound,
            FoldLeft(LAMBDA acc, i: IF acc.err # "" THEN acc
                                    ELSE PlanHop(acc, pattern, i, optional),
                     start, hops))

-----------------------------------------------------------------------------
(* MATCH and OPTIONAL MATCH.                                               *)

\* build_rel_isomorphism_filter: any two of the variables hold different
\* relationships, or one is null.
RelIsomorphismFilter(vars) ==
    LET id(v) == Fn("id", <<Var(v)>>)
        differ(i, j) == Or(IsNull(Var(vars[i])),
                           Or(IsNull(Var(vars[j])), Cmp(id(vars[i]), "<>", id(vars[j]))))
        pairs == FlattenSeq([i \in 1..Len(vars) |->
                    [k \in 1..Len(vars) - i |-> differ(i, i + k)]])
    IN  IF pairs = <<>> THEN <<>>
        ELSE <<FoldLeft(And, pairs[1], SubSeq(pairs, 2, Len(pairs)))>>

AndAll(es) == IF es = <<>> THEN <<>> ELSE <<FoldLeft(And, es[1], SubSeq(es, 2, Len(es)))>>

Pushable(e) == e.op \in {"lit", "param"}
VarProp(e) == e.op = "prop" /\ e.es[1].op = "var"

\* extract_pushdown_equalities: the conjuncts n.prop = constant, and the rest.
RECURSIVE ExtractEqualities(_)
ExtractEqualities(e) ==
    LET l == e.es[1]
        r == e.es[2]
    IN  CASE e.op = "and" ->
               LET left  == ExtractEqualities(l)
                   right == ExtractEqualities(r)
               IN  [eqs |-> left.eqs \o right.eqs, rest |-> AndAll(left.rest \o right.rest)]
          [] e.op = "cmp" /\ e.x = "=" /\ VarProp(l) /\ Pushable(r) ->
               [eqs |-> <<<<l.es[1].x, l.x, r>>>>, rest |-> <<>>]
          [] e.op = "cmp" /\ e.x = "=" /\ VarProp(r) /\ Pushable(l) ->
               [eqs |-> <<<<r.es[1].x, r.x, l>>>>, rest |-> <<>>]
          [] OTHER -> [eqs |-> <<>>, rest |-> <<e>>]

\* apply_where_pushdown: the plan with index scans for label scans where an
\* equality allows it, and the equalities used.
RECURSIVE ApplyWherePushdown(_, _, _)
ApplyWherePushdown(cat, plan, eqs) ==
    LET Try(i) == TryPropertyIndexScan(cat, plan.v, plan.label[1],
                        Append(plan.props, <<eqs[i][2], eqs[i][3]>>), plan.optional)
        usable == IF plan.op # "scan" THEN {}
                  ELSE {i \in 1..Len(eqs) : /\ plan.label # <<>>
                                            /\ eqs[i][1] = plan.v
                                            /\ Try(i) # <<>>}
    IN  CASE usable # {} -> [plan |-> Try(Min(usable))[1], used |-> {Min(usable)}]
          [] plan.op \in {"filter", "expand"} ->
               LET sub == ApplyWherePushdown(cat, plan.input, eqs)
               IN  [plan |-> [plan EXCEPT !.input = sub.plan], used |-> sub.used]
          [] plan.op = "cross" ->
               LET left  == ApplyWherePushdown(cat, plan.left, eqs)
                   right == ApplyWherePushdown(cat, plan.right, eqs)
               IN  [plan |-> Cross(left.plan, right.plan), used |-> left.used \cup right.used]
          [] OTHER -> [plan |-> plan, used |-> {}]

\* Mutant: an equality no index scan has taken is forgotten.
PushWhereTakesAll(cat, plan, where) ==
    LET split == ExtractEqualities(where[1])
        push  == ApplyWherePushdown(cat, plan, split.eqs)
    IN  IF where = <<>> \/ push.used = {} THEN [plan |-> plan, where |-> where]
        ELSE [plan |-> push.plan, where |-> split.rest]

\* What is left of a WHERE once index scans have taken their equalities.
PushWhere(cat, plan, where) ==
    LET Back(eq) == Cmp(Prop(Var(eq[1]), eq[2]), "=", eq[3])
        Left(split, push) ==
            LET kept == SelectSeq([i \in 1..Len(split.eqs) |-> i], LAMBDA i: i \notin push.used)
            IN  IF push.used = {} THEN [plan |-> plan, where |-> where]
                ELSE [plan |-> push.plan,
                      where |-> AndAll(split.rest \o [k \in 1..Len(kept) |-> Back(split.eqs[kept[k]])])]
        Split(split) == Left(split, ApplyWherePushdown(cat, plan, split.eqs))
    IN  IF where = <<>> THEN [plan |-> plan, where |-> where]
        ELSE Split(ExtractEqualities(where[1]))

\* A pattern that is planned as done after those of acc; check asks for a new
\* path variable.
PatternPlanned(acc, pat, done, check) ==
    LET with == [done EXCEPT !.bound = @ \cup Range(done.nodes) \cup Range(done.rels)]
        taken == \/ pat.v \in acc.pl.bound \cup DOMAIN acc.pl.kinds
                 \/ \E i \in 1..Len(pat.els) : pat.els[i].v = pat.v
    IN  CASE acc.pl.err # "" -> acc
          [] pat.v # NoVar /\ taken /\ check ->
               [acc EXCEPT !.pl = Fail(acc.pl, "VariableAlreadyBound")]
          [] done.err # "" -> [acc EXCEPT !.pl = done]
          [] OTHER -> [acc EXCEPT
               !.pl = IF pat.v = NoVar THEN with ELSE Bind(with, pat.v, "path"),
               !.new = @ \o done.nodes \o done.rels \o
                       (IF pat.v = NoVar THEN <<>> ELSE <<pat.v>>),
               !.rels = @ \o done.rels]

\* The patterns of one clause, each planned onto the one before; new collects
\* the variables they introduce, rels those of relationships.
PlanPatterns(pl, cat, pats, optional, check) ==
    FoldLeft(LAMBDA acc, pat:
                 PatternPlanned(acc, pat, PlanPatternOnto(acc.pl, cat, pat, optional), check),
             [pl |-> pl, new |-> <<>>, rels |-> <<>>], pats)

\* Why an OPTIONAL MATCH cannot be planned as an optional expand.
NeedsLeftJoin(pl, c) ==
    \/ c.where # <<>>
    \/ Len(FlattenSeq([i \in 1..Len(c.pats) |-> RelsOf(c.pats[i])])) > 1
    \/ \E i \in 1..Len(c.pats) : \E j \in 1..Len(c.pats[i].els) - 1 :
          /\ c.pats[i].els[j].el = "rel" /\ c.pats[i].els[j].len # Fixed
          /\ c.pats[i].els[j + 1].ls # <<>> \/ c.pats[i].els[j + 1].ps # <<>>
    \/ \E i \in 1..Len(c.pats) : c.pats[i].els[1].v \notin pl.bound

\* plan_optional_match_left_join: the patterns on their own, the new
\* variables null where they do not match.  No relationship isomorphism and no
\* check of the WHERE here.
PlanOptionalLeftJoin(pl, c, inner) ==
    LET plan == IF c.where = <<>> THEN inner.pl.plan ELSE Filter(inner.pl.plan, c.where[1])
    IN  IF inner.pl.err # "" THEN Fail(pl, inner.pl.err)
        ELSE [inner.pl EXCEPT !.plan = [op |-> "leftjoin", outer |-> pl.plan,
                                        inner |-> plan, nulls |-> inner.new]]

\* The relationships of a clause whose patterns are done are told apart; push
\* is the plan with its index scans and what they have left of the WHERE.
Restricted(done, c, push) ==
    LET fixed == UNION {LET rels == FixedRels(c.pats[i]) IN {rels[k].v : k \in 1..Len(rels)} :
                        i \in 1..Len(c.pats)}
        some  == fixed # {}
        iso   == RelIsomorphismFilter(SelectSeq(done.rels,
                    LAMBDA v: v \in fixed \/ (some /\ v \in AnonRels)))
        pred  == AndAll(iso \o push.where)
    IN  [done.pl EXCEPT !.plan = IF pred = <<>> THEN push.plan ELSE Filter(push.plan, pred[1])]

\* A MATCH whose patterns are done, or an error of its WHERE.
MatchPlanned(pl, cat, c, done) ==
    LET valid == \A i \in 1..Len(c.where) : CheckExprVars(c.where[i], done.pl.bound)
        agg   == \E i \in 1..Len(c.where) : ContainsAggregation(c.where[i])
    IN  CASE done.pl.err # "" -> done.pl
          [] ~valid -> Fail(pl, "UndefinedVariable")
          [] agg -> Fail(pl, "InvalidAggregation")
          [] OTHER -> Restricted(done, c, PushWhere(cat, done.pl.plan, c.where))

\* plan_match_clause.
PlanMatch(pl, cat, c) ==
    LET join == c.optional /\ NeedsLeftJoin(pl, c)
        Onto(done) == IF join THEN PlanOptionalLeftJoin(pl, c, done)
                      ELSE MatchPlanned(pl, cat, c, done)
    IN  Onto(PlanPatterns([pl EXCEPT !.plan = IF join THEN SingleRow ELSE @], cat, c.pats,
                          c.optional /\ ~join, ~join))

-----------------------------------------------------------------------------
(* WITH and RETURN.                                                        *)

\* The name an item exposes, if it has one.
Exposed(item) == CASE item.as # NoVar -> item.as
                   [] item.e.op = "var" -> item.e.x
                   [] OTHER -> NoVar

Duplicate(names) ==
    \E i, j \in 1..Len(names) : i < j /\ names[i] = names[j] /\ names[i] # NoVar

HasAgg(items) == \E i \in 1..Len(items) : ExprContainsAggregation(items[i].e)

\* An ORDER BY may repeat an aggregate of the projection, not add one.
OrderAggsProjected(proj) ==
    LET aggs == FlattenSeq([i \in 1..Len(proj.items) |-> ExtractAggCalls(proj.items[i].e)])
    IN  \A i \in 1..Len(proj.order) :
            LET own == ExtractAggCalls(proj.order[i].e)
            IN  \A k \in 1..Len(own) :
                    \E j \in 1..Len(aggs) : ExprStructuralEq(own[k], aggs[j])

\* The WHERE of a WITH filters before the projection, with the aliases
\* replaced by what they stand for -- after it, if the projection aggregates.
PlanWith(pl, c) ==
    LET items  == c.proj.items
        agg    == HasAgg(items)
        named  == SelectSeq(items, LAMBDA it: it.as # NoVar)
        alias  == [v \in {named[i].as : i \in 1..Len(named)} |->
                      named[CHOOSE i \in 1..Len(named) : named[i].as = v].e]
        before == IF c.where = <<>> \/ agg THEN pl.plan
                  ELSE Filter(pl.plan, SubstituteAliases(c.where[1], alias))
        after  == Project(before, c.proj)
        star   == \E i \in 1..Len(items) : items[i].e.op = "star"
        kept   == IF star THEN DOMAIN pl.kinds \cap UserVars ELSE {}
        shown  == SelectSeq(items, LAMBDA it: Exposed(it) # NoVar)
        names  == {Exposed(shown[i]) : i \in 1..Len(shown)}
        kind(v) == IF v \in names
                   THEN ExprVarKind(shown[CHOOSE i \in 1..Len(shown) : Exposed(shown[i]) = v].e,
                                    pl.kinds)
                   ELSE pl.kinds[v]
    IN  CASE \E i \in 1..Len(items) : ExprHasInlinePattern(items[i].e) ->
               Fail(pl, "UnexpectedSyntax")
          [] \E i \in 1..Len(items) : Exposed(items[i]) = NoVar /\ items[i].e.op # "star" ->
               Fail(pl, "NoExpressionAlias")
          [] Duplicate([i \in 1..Len(items) |-> Exposed(items[i])]) ->
               Fail(pl, "ColumnNameConflict")
          [] ~agg /\ HasAgg(c.proj.order) -> Fail(pl, "InvalidAggregation")
          [] agg /\ ~OrderAggsProjected(c.proj) -> Fail(pl, "UndefinedVariable")
          [] OTHER ->
               [pl EXCEPT !.plan = IF agg /\ c.where # <<>> THEN Filter(after, c.where[1])
                                   ELSE after,
                          !.bound = names \cup kept,
                          !.kinds = [v \in names \cup kept |-> kind(v)]]

\* The column of a returned item: return_column_names, and the name its
\* conflicts are judged by.
Column(item) == CASE Exposed(item) # NoVar -> Exposed(item)
                  [] VarProp(item.e) -> item.e.es[1].x \o "." \o item.e.x
                  [] OTHER -> NoVar

PlanReturn(pl, c) ==
    LET items == c.proj.items
        keys  == {Exposed(items[i]) : i \in 1..Len(items)} \cup
                 UNION {IF items[i].e.op = "var" THEN {items[i].e.x} ELSE {} : i \in 1..Len(items)}
    IN  CASE (\E i \in 1..Len(items) : items[i].e.op = "star") /\ pl.bound \cap UserVars = {} ->
               Fail(pl, "NoVariablesInScope")
          [] \E i \in 1..Len(items) : items[i].e.op = "var" /\ items[i].e.x \notin pl.bound ->
               Fail(pl, "UndefinedVariable")
          [] ~HasAgg(items) /\ HasAgg(c.proj.order) -> Fail(pl, "InvalidAggregation")
          [] /\ c.proj.distinct
             /\ \E i \in 1..Len(c.proj.order) : ~CheckExprVars(c.proj.order[i].e, keys) ->
               Fail(pl, "UndefinedVariable")
          [] \E i \in 1..Len(items) : ExprHasInlinePattern(items[i].e) ->
               Fail(pl, "UnexpectedSyntax")
          [] Duplicate([i \in 1..Len(items) |-> Column(items[i])]) ->
               Fail(pl, "ColumnNameConflict")
          [] OTHER -> [pl EXCEPT !.plan = Project(@, c.proj)]

-----------------------------------------------------------------------------
(* Write clauses.                                                          *)

\* The expressions of a list of SET items name bound variables only.
SetItemsBound(items, bound) ==
    \A i \in 1..Len(items) :
        /\ CheckExprVars(items[i].on, bound)
        /\ CheckExprVars(items[i].e, bound)

WriteRelError(rel) == CASE Len(rel.ts) # 1 -> "NoSingleRelationshipType"
                        [] rel.len # Fixed -> "CreatingVarLength"
                        [] OTHER -> ""

PropsBound(ps, bound) == \A i \in 1..Len(ps) : CheckExprVars(ps[i][2], bound)

\* A CREATE binds the variables of its patterns; their kinds stay unknown.
PlanCreate(pl, c) ==
    LET Element(acc, el, alone) ==
            CASE acc.err # "" -> acc
              [] el.el = "rel" /\ WriteRelError(el) # "" -> Fail(acc, WriteRelError(el))
              [] ~PropsBound(el.ps, acc.bound) -> Fail(acc, "UndefinedVariable")
              [] /\ el.el = "node" /\ el.v \in acc.bound
                 /\ el.ls # <<>> \/ el.ps # <<>> \/ alone -> Fail(acc, "VariableAlreadyBound")
              [] OTHER -> [acc EXCEPT !.bound = @ \cup ({el.v} \ {NoVar})]
        done == FoldLeft(LAMBDA acc, pat:
                    FoldLeft(LAMBDA a, el: Element(a, el, Len(pat.els) = 1), acc, pat.els),
                    pl, c.pats)
    IN  [done EXCEPT !.plan = [op |-> "create", input |-> pl.plan, pats |-> c.pats]]

PlanSet(pl, c) ==
    IF SetItemsBound(c.items, pl.bound)
       /\ ~\E i \in 1..Len(c.items) : c.items[i].s = "prop" /\ ExprHasInlinePattern(c.items[i].e)
    THEN [pl EXCEPT !.plan = [op |-> "set", input |-> @, items |-> c.items]]
    ELSE Fail(pl, "UndefinedVariable")

\* What is deleted may be a bound variable or a value computed at run time.
PlanDelete(pl, c) ==
    LET never == {"lit", "list", "mapexpr", "haslabel", "arith", "cmp", "and", "or", "not", "neg"}
    IN  CASE \E i \in 1..Len(c.es) : c.es[i].op = "var" /\ c.es[i].x \notin pl.bound ->
               Fail(pl, "UndefinedVariable")
          [] \E i \in 1..Len(c.es) : c.es[i].op \in never -> Fail(pl, "InvalidArgumentType")
          [] OTHER -> [pl EXCEPT !.plan = [op |-> "delete", input |-> @, es |-> c.es,
                                           detach |-> c.detach]]

PlanMerge(pl, c) ==
    LET els   == c.pat.els
        vars  == {els[i].v : i \in 1..Len(els)} \ {NoVar}
        named == [pl EXCEPT !.bound = @ \cup vars]
        next  == IF c.pat.v = NoVar THEN named ELSE Bind(named, c.pat.v, "path")
    IN  CASE \E i \in 1..Len(els) : els[i].el = "rel" /\ WriteRelError(els[i]) # "" ->
               Fail(pl, "NoSingleRelationshipType")
          [] \E i \in 1..Len(els) :
                /\ els[i].v \in pl.bound
                /\ els[i].el = "rel" \/ Len(els) = 1 \/ els[i].ls # <<>> ->
               Fail(pl, "VariableAlreadyBound")
          [] ~SetItemsBound(c.create \o c.match, next.bound) -> Fail(pl, "UndefinedVariable")
          [] OTHER -> [next EXCEPT !.plan = [op |-> "merge", input |-> pl.plan, pat |-> c.pat,
                                             create |-> c.create, match |-> c.match]]

-----------------------------------------------------------------------------
(* The rewriting of a plan.                                                *)

AtLeast1(i) == IF i < 1 THEN 1 ELSE i
CountLabel(cat, l) == IF l \in DOMAIN cat.labels THEN cat.labels[l] ELSE 0

\* estimate_plan_rows: what the optimiser thinks a plan returns.
RECURSIVE EstimateRows(_, _)
EstimateRows(cat, plan) ==
    CASE plan.op = "scan" -> AtLeast1(IF plan.label = <<>> THEN cat.total
                                      ELSE CountLabel(cat, plan.label[1]))
      [] plan.op = "indexscan" -> AtLeast1(cat.entries[<<plan.label, plan.prop>>])
      [] plan.op = "expand" -> AtLeast1(EstimateRows(cat, plan.input))
      [] plan.op = "filter" -> AtLeast1(EstimateRows(cat, plan.input) \div 10)
      [] plan.op = "cross" -> EstimateRows(cat, plan.left) * EstimateRows(cat, plan.right)
      [] plan.op = "union" -> EstimateRows(cat, plan.left) + EstimateRows(cat, plan.right)
      [] plan.op \in {"apply", "leftjoin"} -> EstimateRows(cat, plan.outer)
      [] plan.op = "single" -> 1
      [] plan.op \in {"project", "unwind", "set", "remove", "delete", "merge", "create",
                      "foreach", "path"} -> EstimateRows(cat, plan.input)
      [] OTHER -> 100

\* An expand over a plain scan of its source may start at the other end.
Reversible(plan) ==
    /\ ~plan.optional
    /\ plan.dir \in {"out", "in"}
    /\ Len(plan.labels) = 1
    /\ plan.input.op = "scan"
    /\ plan.input.v = plan.src /\ plan.input.props = <<>> /\ ~plan.input.optional

\* Mutant: the direction is not turned.
ReversedKeepsDir(cat, plan) ==
    LET src   == plan.input.label
        cheap == 2 * CountLabel(cat, plan.labels[1]) <
                 (IF src = <<>> THEN cat.total ELSE CountLabel(cat, src[1]))
    IN  IF Reversible(plan) /\ cheap
        THEN [plan EXCEPT !.input = ScanOf(cat, plan.dst, plan.labels, plan.props, FALSE),
                          !.src = plan.dst, !.dst = plan.src,
                          !.labels = src, !.props = <<>>]
        ELSE plan

\* It does where the other end has less than half the nodes.
Reversed(cat, plan) ==
    LET src   == plan.input.label
        cheap == 2 * CountLabel(cat, plan.labels[1]) <
                 (IF src = <<>> THEN cat.total ELSE CountLabel(cat, src[1]))
    IN  IF Reversible(plan) /\ cheap
        THEN [plan EXCEPT !.input = ScanOf(cat, plan.dst, plan.labels, plan.props, FALSE),
                          !.src = plan.dst, !.dst = plan.src,
                          !.dir = IF plan.dir = "out" THEN "in" ELSE "out",
                          !.labels = src, !.props = <<>>]
        ELSE plan

\* optimize_join_order.
RECURSIVE OptimizeJoinOrder(_, _)
OptimizeJoinOrder(cat, plan) ==
    CASE plan.op = "cross" ->
           LET left  == OptimizeJoinOrder(cat, plan.left)
               right == OptimizeJoinOrder(cat, plan.right)
           IN  IF EstimateRows(cat, left) > EstimateRows(cat, right)
               THEN Cross(right, left) ELSE Cross(left, right)
      [] plan.op = "expand" ->
           Reversed(cat, [plan EXCEPT !.input = OptimizeJoinOrder(cat, @)])
      [] plan.op = "union" ->
           [plan EXCEPT !.left = OptimizeJoinOrder(cat, @), !.right = OptimizeJoinOrder(cat, @)]
      [] plan.op \in {"apply", "leftjoin"} ->
           [plan EXCEPT !.outer = OptimizeJoinOrder(cat, @), !.inner = OptimizeJoinOrder(cat, @)]
      [] plan.op = "foreach" ->
           [plan EXCEPT !.input = OptimizeJoinOrder(cat, @), !.body = OptimizeJoinOrder(cat, @)]
      [] plan.op \in {"single", "scan", "indexscan", "index"} -> plan
      [] OTHER -> [plan EXCEPT !.input = OptimizeJoinOrder(cat, @)]

\* collect_needed_properties: the pairs <<variable, key>> an expression or a
\* plan reads; the key "*" asks for the whole entity.
RECURSIVE ReadsOf(_), NeededProperties(_)
ReadsOf(e) ==
    CASE VarProp(e) -> {<<e.es[1].x, e.x>>}
      [] e.op = "var" -> {<<e.x, "*">>}
      [] OTHER -> UNION {ReadsOf(e.es[i]) : i \in 1..Len(e.es)}

NeededProperties(plan) ==
    LET OfAll(es) == UNION {ReadsOf(es[i]) : i \in 1..Len(es)}
        OfProps(ps) == UNION {ReadsOf(ps[i][2]) : i \in 1..Len(ps)}
    IN  CASE plan.op = "project" ->
               NeededProperties(plan.input) \cup
               OfAll([i \in 1..Len(plan.proj.items) |-> plan.proj.items[i].e]) \cup
               OfAll([i \in 1..Len(plan.proj.order) |-> plan.proj.order[i].e]) \cup
               OfAll(plan.proj.skip \o plan.proj.limit)
          [] plan.op = "filter" -> ReadsOf(plan.pred) \cup NeededProperties(plan.input)
          [] plan.op = "expand" ->
               OfProps(plan.relProps) \cup OfProps(plan.props) \cup NeededProperties(plan.input)
          [] plan.op \in {"cross", "union"} ->
               NeededProperties(plan.left) \cup NeededProperties(plan.right)
          [] plan.op \in {"apply", "leftjoin"} ->
               NeededProperties(plan.outer) \cup NeededProperties(plan.inner)
          [] plan.op = "unwind" -> ReadsOf(plan.e) \cup NeededProperties(plan.input)
          [] plan.op = "path" ->
               {<<plan.vars[i], "*">> : i \in 1..Len(plan.vars)} \cup NeededProperties(plan.input)
          [] plan.op \in {"single", "scan", "indexscan", "index"} -> {}
          [] OTHER -> NeededProperties(plan.input)

\* The properties of v a scan or an expand has to decode.
Needed(needed, v, props) ==
    IF <<v, "*">> \in needed THEN <<>>
    ELSE <<{pair[2] : pair \in {q \in needed : q[1] = v}} \cup
           {props[i][1] : i \in 1..Len(props)}>>

\* annotate_plan: it stops at a write and at a walk along a bound list.
RECURSIVE AnnotatePlan(_, _)
AnnotatePlan(plan, needed) ==
    CASE plan.op = "scan" -> [plan EXCEPT !.need = Needed(needed, plan.v, plan.props)]
      [] plan.op = "expand" ->
           [plan EXCEPT !.input = AnnotatePlan(@, needed),
                        !.need = Needed(needed, plan.dst, plan.props)]
      [] plan.op \in {"filter", "project", "unwind", "varexpand", "path"} ->
           [plan EXCEPT !.input = AnnotatePlan(@, needed)]
      [] plan.op \in {"cross", "union"} ->
           [plan EXCEPT !.left = AnnotatePlan(@, needed), !.right = AnnotatePlan(@, needed)]
      [] plan.op \in {"apply", "leftjoin"} ->
           [plan EXCEPT !.outer = AnnotatePlan(@, needed), !.inner = AnnotatePlan(@, needed)]
      [] OTHER -> plan

AnnotateNeededProperties(plan) == AnnotatePlan(plan, NeededProperties(plan))

-----------------------------------------------------------------------------
(* The planner proper.                                                     *)

\* return_column_names: the columns of the last RETURN, for UNION.
ReturnColumns(clauses) ==
    LET at == {i \in 1..Len(clauses) : clauses[i].c = "return"}
        Name(item) == CASE Exposed(item) # NoVar -> Exposed(item)
                        [] item.e.op = "prop" -> item.e.x
                        [] OTHER -> "_col"
        items == clauses[Max(at)].proj.items
    IN  IF at = {} THEN <<>> ELSE <<[i \in 1..Len(items) |-> Name(items[i])]>>

\* CALL of a subquery: the names it returns are bound.
Called(pl, sub) ==
    IF sub.err # "" THEN Fail(pl, sub.err)
    ELSE [pl EXCEPT !.plan = [op |-> "apply", outer |-> @, inner |-> sub.plan],
                    !.bound = @ \cup (IF sub.plan.op # "project" THEN {}
                                      ELSE {Exposed(sub.plan.proj.items[i]) :
                                            i \in 1..Len(sub.plan.proj.items)} \ {NoVar})]

\* FOREACH: the body has a plan of its own.
Repeated(pl, c, body) ==
    IF body.err # "" THEN Fail(pl, body.err)
    ELSE [pl EXCEPT !.plan = [op |-> "foreach", input |-> @, v |-> c.v, list |-> c.list,
                              body |-> body.plan]]

\* The plan of a query, or the UNION of it with that of its right side, if they
\* return the same columns.
United(q, left, right) ==
    LET cols == ReturnColumns(q.clauses) \o ReturnColumns(q.union[1].q.clauses)
    IN  CASE q.union = <<>> \/ left.err # "" -> left
          [] Len(cols) = 2 /\ cols[1] # cols[2] -> Fail(left, "DifferentColumnsInUnion")
          [] right.err # "" -> Fail(left, right.err)
          [] OTHER -> [left EXCEPT !.plan = [op |-> "union", left |-> @, right |-> right.plan,
                                             all |-> q.union[1].all]]

Optimized(cat, pl) ==
    IF pl.err # "" THEN pl ELSE [pl EXCEPT !.plan = OptimizeJoinOrder(cat, @)]

Annotated(pl) ==
    IF pl.err # "" THEN pl ELSE [pl EXCEPT !.plan = AnnotateNeededProperties(@)]

RECURSIVE PlanClause(_, _, _), PlanClauses(_, _, _), Plan(_, _, _, _)

\* plan_clauses.
PlanClause(cat, c, pl) ==
    CASE c.c = "match"  -> PlanMatch(pl, cat, c)
      [] c.c = "with"   -> PlanWith(pl, c)
      [] c.c = "return" -> PlanReturn(pl, c)
      [] c.c = "create" -> PlanCreate(pl, c)
      [] c.c = "set"    -> PlanSet(pl, c)
      [] c.c = "delete" -> PlanDelete(pl, c)
      [] c.c = "merge"  -> PlanMerge(pl, c)
      [] c.c = "remove" -> [pl EXCEPT !.plan = [op |-> "remove", input |-> @, items |-> c.items]]
      [] c.c = "unwind" -> [Bind(pl, c.v, "scalar") EXCEPT
                              !.plan = [op |-> "unwind", input |-> @, e |-> c.e, v |-> c.v]]
      [] c.c = "index"  -> [pl EXCEPT !.plan = [op |-> "index", on |-> c.on,
                                                label |-> c.label, prop |-> c.prop]]
      [] c.c = "call"   -> Called(pl, Plan("query", cat, c.query, {}))
      [] c.c = "foreach" ->
             Repeated(pl, c, PlanClauses(cat, c.body, Bind([pl EXCEPT !.plan = SingleRow],
                                                           c.v, "scalar")))

PlanClauses(cat, clauses, pl) ==
    IF clauses = <<>> \/ pl.err # "" THEN pl
    ELSE PlanClauses(cat, SubSeq(clauses, 2, Len(clauses)), PlanClause(cat, clauses[1], pl))

\* The ways to plan: plan_single with what comes after it in plan ("query") and
\* in plan_without_opt4 ("merge", the pattern of a MERGE), and plan_with_outer
\* ("exists", the subquery of an EXISTS), for which the names of the outer row
\* and of the parameters are bound, to values of unknown kind.
Plan(way, cat, q, outer) ==
    LET After(pl) == CASE way = "query" -> Annotated(Optimized(cat, pl))
                       [] way = "merge" -> Optimized(cat, pl)
        Single(left) == IF way = "exists" THEN left
                        ELSE After(United(q, left, Plan(way, cat, q.union[1].q, {})))
    IN  Single(PlanClauses(cat, q.clauses, Planner(SingleRow, outer, [v \in outer |-> "scalar"])))

PlanQuery(cat, q) == Plan("query", cat, q, {})
=============================================================================
