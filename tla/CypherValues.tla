---------------------------- MODULE CypherValues ----------------------------
(***************************************************************************)
(* The values of the Cypher executor (executor.rs): three-valued           *)
(* comparison, the total order of ORDER BY, arithmetic and the aggregates. *)
(*                                                                         *)
(* A value is a record with the same fields for every type, so that two    *)
(* values can always be compared: t is the type, n the number (an integer, *)
(* a float as a multiple of 1/12, the rank of a string among the strings,  *)
(* 0 or 1 for a Boolean, the id of a node or an edge), l the elements of a *)
(* list or path (of an edge: its two ends), m the properties of a node or  *)
(* edge or the entries of a map, s the labels or the type.                 *)
(*                                                                         *)
(* The result of an expression that fails is a value of type "err".  The   *)
(* Option<bool> of the code is True, False or Null.  Temporal values,      *)
(* durations, the spelling of strings and i64 overflow are left out.       *)
(***************************************************************************)
EXTENDS Integers, Sequences, FiniteSets, SequencesExt, FiniteSetsExt

Scale == 12      \* a float is a multiple of 1/Scale

Val(t, n, l, m, s) == [t |-> t, n |-> n, l |-> l, m |-> m, s |-> s]

Null     == Val("null", 0, <<>>, <<>>, {})
IntV(i)  == Val("int", i, <<>>, <<>>, {})
FltV(f)  == Val("float", f, <<>>, <<>>, {})
NaN      == Val("nan", 0, <<>>, <<>>, {})
StrV(r)  == Val("str", r, <<>>, <<>>, {})      \* StrV(0) is the empty string
BoolV(b) == Val("bool", IF b THEN 1 ELSE 0, <<>>, <<>>, {})
ListV(l) == Val("list", 0, l, <<>>, {})
MapV(m)  == Val("map", 0, <<>>, m, {})
PathV(l) == Val("path", 0, l, <<>>, {})        \* node, edge, node, ..., node
NodeV(id, labels, props) == Val("node", id, <<>>, props, labels)
EdgeV(id, type, src, dst, props) ==
    Val("edge", id, <<IntV(src), IntV(dst)>>, props, {type})
Err(what) == Val("err", 0, <<>>, <<>>, {what})

True  == BoolV(TRUE)
False == BoolV(FALSE)

Failed(v) == v.t = "err"
Numeric(v) == v.t \in {"int", "float", "nan"}
Num(v) == IF v.t = "int" THEN v.n * Scale ELSE v.n
Ends(edge) == <<edge.l[1].n, edge.l[2].n>>

\* Value::get_property.
GetProperty(v, key) == IF key \in DOMAIN v.m THEN v.m[key] ELSE Null

\* Value::to_json read back by json_to_value: a path becomes the list of its
\* elements, every other value survives.
ToJson(v) == IF v.t = "path" THEN ListV(v.l) ELSE v

\* Rust's i64 division and remainder truncate towards zero.
Abs(i) == IF i < 0 THEN -i ELSE i
Sign(i) == IF i < 0 THEN -1 ELSE IF i > 0 THEN 1 ELSE 0
TruncDiv(a, b) == Sign(a) * Sign(b) * (Abs(a) \div Abs(b))
TruncMod(a, b) == a - b * TruncDiv(a, b)

-----------------------------------------------------------------------------
(* Truth.                                                                  *)

IsTruthy(v) ==
    CASE v.t = "bool" -> v.n = 1
      [] v.t = "null" -> FALSE
      [] v.t \in {"int", "str"} -> v.n # 0
      [] OTHER -> TRUE

Truthy3(v) == IF v = Null THEN Null ELSE BoolV(IsTruthy(v))

RequireBool(v) ==
    CASE Failed(v) -> v
      [] v.t \in {"bool", "null"} -> v
      [] OTHER -> Err("type")

\* The Boolean connectives: both operands are evaluated and checked, the
\* left one's error first.
Connective(op, l, r) ==
    LET a == RequireBool(l)
        b == RequireBool(r)
    IN  CASE Failed(a) -> a
          [] Failed(b) -> b
          [] op = "and" /\ False \in {a, b} -> False
          [] op = "or" /\ True \in {a, b} -> True
          [] Null \in {a, b} -> Null
          [] op = "and" -> True
          [] op = "or" -> False
          [] op = "xor" -> BoolV(a # b)

Negation(v) ==
    LET a == RequireBool(v)
    IN  IF a.t = "bool" THEN BoolV(a = False) ELSE a

-----------------------------------------------------------------------------
(* Comparison.                                                             *)

\* int_cmp, float_cmp and str_cmp on the sign of the difference.
Holds(op, sign) ==
    CASE op = "="  -> sign = 0
      [] op = "<>" -> sign # 0
      [] op = "<"  -> sign < 0
      [] op = ">"  -> sign > 0
      [] op = "<=" -> sign <= 0
      [] op = ">=" -> sign >= 0

\* elem_ordering: the order of two list elements, or Null.
ElemOrdering(a, b) ==
    CASE a.t = "null" \/ b.t = "null" \/ NaN \in {a, b} -> Null
      [] Numeric(a) /\ Numeric(b) -> IntV(Sign(Num(a) - Num(b)))
      [] a.t = b.t /\ a.t \in {"str", "bool"} -> IntV(Sign(a.n - b.n))
      [] OTHER -> Null

\* The verdict on pairs of elements that should all be equal: the first
\* false decides, a null leaves the answer open.
AllEqual(op, verdicts) ==
    CASE False \in Range(verdicts) -> BoolV(op = "<>")
      [] Null \in Range(verdicts) -> Null
      [] OTHER -> BoolV(op = "=")

RECURSIVE CompareValues(_, _, _), ValuesEqual(_, _)

\* compare_lists.
CompareLists(a, op, b) ==
    LET len == Min({Len(a), Len(b)})
        order == [i \in 1..len |-> ElemOrdering(a[i], b[i])]
        decided == {i \in 1..len : order[i].t = "int" /\ order[i].n # 0}
    IN  IF op \in {"=", "<>"}
        THEN IF Len(a) # Len(b) THEN BoolV(op = "<>")
             ELSE AllEqual(op, [i \in 1..len |-> CompareValues(a[i], "=", b[i])])
        ELSE CASE decided # {} -> BoolV(Holds(op, order[Min(decided)].n))
               [] Len(a) # Len(b) -> BoolV(Holds(op, Sign(Len(a) - Len(b))))
               [] Null \in Range(order) -> Null
               [] OTHER -> BoolV(Holds(op, 0))

\* compare_values on two maps: they have no order.
CompareMaps(a, op, b) ==
    CASE op \notin {"=", "<>"} -> Null
      [] DOMAIN a # DOMAIN b -> BoolV(op = "<>")
      [] OTHER -> LET keys == SetToSeq(DOMAIN a)
                  IN  AllEqual(op, [i \in 1..Len(keys) |->
                          CompareValues(a[keys[i]], "=", b[keys[i]])])

\* compare_values: a null operand makes the answer null, values of two types
\* are unequal and not ordered.
CompareValues(a, op, b) ==
    CASE Null \in {a, b} -> Null
      [] NaN \in {a, b} ->
             CASE op \in {"=", "<>"} -> BoolV(op = "<>")
               [] Numeric(a) /\ Numeric(b) -> False
               [] OTHER -> Null
      [] Numeric(a) /\ Numeric(b) -> BoolV(Holds(op, Sign(Num(a) - Num(b))))
      [] a.t # b.t -> IF op \in {"=", "<>"} THEN BoolV(op = "<>") ELSE Null
      [] a.t \in {"str", "bool", "node", "edge"} ->
             BoolV(Holds(op, Sign(a.n - b.n)))
      [] a.t = "list" -> CompareLists(a.l, op, b.l)
      [] a.t = "map" -> CompareMaps(a.m, op, b.m)
      [] a.t = "path" ->
             IF op \notin {"=", "<>"} THEN Null
             ELSE BoolV((op = "=") = (Len(a.l) = Len(b.l) /\
                        \A i \in 1..Len(a.l) : ValuesEqual(a.l[i], b.l[i])))

\* values_equal: equality that is certain.
ValuesEqual(a, b) ==
    IF a.t = "list" /\ b.t = "list"
    THEN /\ Len(a.l) = Len(b.l)
         /\ \A i \in 1..Len(a.l) : ValuesEqual(a.l[i], b.l[i])
    ELSE CompareValues(a, "=", b) = True

\* InList.
InList(v, list) ==
    LET verdicts == [i \in 1..Len(list.l) |-> CompareValues(v, "=", list.l[i])]
    IN  CASE Failed(v) -> v
          [] Failed(list) -> list
          [] list = Null -> Null
          [] list.t # "list" -> Err("type")
          [] list.l = <<>> -> False
          [] v = Null -> Null
          [] True \in Range(verdicts) -> True
          [] Null \in Range(verdicts) -> Null
          [] OTHER -> False

\* ListPredicate: any, all, none and single over the predicate's verdicts.
Quantified(kind, verdicts) ==
    LET Of(b) == Cardinality({i \in 1..Len(verdicts) :
                                Truthy3(verdicts[i]) = BoolV(b)})
        open == Null \in Range(verdicts)
    IN  CASE kind = "any" /\ Of(TRUE) > 0 -> True
          [] kind = "all" /\ Of(FALSE) > 0 -> False
          [] kind = "none" /\ Of(TRUE) > 0 -> False
          [] kind = "single" /\ Of(TRUE) > 1 -> False
          [] open -> Null
          [] OTHER -> BoolV(kind \in {"all", "none"} \/ (kind = "single" /\ Of(TRUE) = 1))

-----------------------------------------------------------------------------
(* The order of ORDER BY, min and max.                                     *)

TypeRank(v) ==
    CASE v.t = "map" -> 0
      [] v.t = "node" -> 1
      [] v.t = "edge" -> 2
      [] v.t = "list" -> 3
      [] v.t = "path" -> 4
      [] v.t = "str" -> 5
      [] v.t = "bool" -> 6
      [] v.t \in {"int", "float"} -> 7
      [] v.t = "nan" -> 8
      [] v.t = "null" -> 9

RECURSIVE ValueOrdering(_, _)

\* Mutant: a list and a longer one that it starts are equal.
ListOrderingPrefix(a, b) ==
    LET differ == {i \in 1..Min({Len(a), Len(b)}) : ValueOrdering(a[i], b[i]) # 0}
    IN  IF differ # {} THEN ValueOrdering(a[Min(differ)], b[Min(differ)]) ELSE 0

\* list_ordering: the first pair that differs, then the length.
ListOrdering(a, b) ==
    LET differ == {i \in 1..Min({Len(a), Len(b)}) : ValueOrdering(a[i], b[i]) # 0}
    IN  IF differ # {}
        THEN ValueOrdering(a[Min(differ)], b[Min(differ)])
        ELSE Sign(Len(a) - Len(b))

\* value_ordering.  Two nodes, edges, maps or paths are equal in this order.
ValueOrdering(a, b) ==
    CASE TypeRank(a) # TypeRank(b) -> Sign(TypeRank(a) - TypeRank(b))
      [] a.t \in {"int", "float"} -> Sign(Num(a) - Num(b))
      [] a.t \in {"str", "bool"} -> Sign(a.n - b.n)
      [] a.t = "list" -> ListOrdering(a.l, b.l)
      [] OTHER -> 0

\* slice::sort_by is stable: an item goes behind the last one that is not
\* greater.
SortBy(seq, Leq(_, _)) ==
    FoldLeft(LAMBDA sorted, x:
                 LET k == Cardinality({i \in 1..Len(sorted) : Leq(sorted[i], x)})
                 IN  SubSeq(sorted, 1, k) \o <<x>> \o SubSeq(sorted, k + 1, Len(sorted)),
             <<>>, seq)

\* The first of the values with each fingerprint.
Dedup(seq, Key(_)) ==
    FoldLeft(LAMBDA kept, x:
                 IF \E i \in 1..Len(kept) : Key(kept[i]) = Key(x) THEN kept
                 ELSE Append(kept, x),
             <<>>, seq)

-----------------------------------------------------------------------------
(* Arithmetic.                                                             *)

FloatArith(a, op, b) ==
    CASE op = "+" -> FltV(a + b)
      [] op = "-" -> FltV(a - b)
      [] op = "*" -> FltV(TruncDiv(a * b, Scale))
      [] op = "/" -> CASE b # 0 -> FltV(TruncDiv(a * Scale, b))
                       [] a = 0 -> NaN
                       [] OTHER -> Null
      [] op = "%" -> IF b = 0 THEN Null ELSE FltV(TruncMod(a, b))

IntArith(a, op, b) ==
    CASE op = "+" -> IntV(a + b)
      [] op = "-" -> IntV(a - b)
      [] op = "*" -> IntV(a * b)
      [] op = "/" -> IF b = 0 THEN Null ELSE IntV(TruncDiv(a, b))
      [] op = "%" -> IF b = 0 THEN Null ELSE IntV(TruncMod(a, b))

\* eval_arith: a null operand is no special case, it meets the last arm --
\* except next to a list, to which it is added.
EvalArith(a, op, b) ==
    CASE Failed(a) -> a
      [] Failed(b) -> b
      [] a.t = "int" /\ b.t = "int" -> IntArith(a.n, op, b.n)
      [] NaN \in {a, b} /\ Numeric(a) /\ Numeric(b) ->
             IF op \in {"/", "%"} /\ b # NaN /\ Num(b) = 0 THEN Null ELSE NaN
      [] Numeric(a) /\ Numeric(b) -> FloatArith(Num(a), op, Num(b))
      [] op = "+" /\ a.t = "list" /\ b.t = "list" -> ListV(a.l \o b.l)
      [] op = "+" /\ a.t = "list" -> ListV(Append(a.l, ToJson(b)))
      [] op = "+" /\ b.t = "list" -> ListV(<<ToJson(a)>> \o b.l)
      [] OTHER -> Null

\* Neg.
EvalNeg(v) ==
    CASE Failed(v) -> v
      [] v.t = "int" -> IntV(-v.n)
      [] v.t = "float" -> FltV(-v.n)
      [] v = NaN -> NaN
      [] OTHER -> Null

\* Subscript on a list, a map (the key is a literal name) or an entity.
EvalSubscript(list, idx, key) ==
    LET at == IF idx.n < 0 THEN Len(list.l) + idx.n ELSE idx.n
    IN  CASE Failed(list) -> list
          [] Failed(idx) -> idx
          [] list.t = "map" ->
                 CASE idx = Null -> Null
                   [] idx.t = "str" -> GetProperty(list, key)
                   [] OTHER -> Err("type")
          [] idx.t = "str" /\ list.t \in {"null", "node", "edge"} ->
                 GetProperty(list, key)
          [] list = Null -> Null
          [] list.t # "list" -> IF idx = Null THEN Null ELSE Err("type")
          [] idx = Null -> Null
          [] idx.t # "int" -> Err("type")
          [] OTHER -> IF at \in 0..Len(list.l) - 1 THEN list.l[at + 1] ELSE Null

\* ListSlice: from is inclusive, to exclusive, a negative bound counts from
\* the end and both are clipped.
EvalSlice(list, from, to) ==
    LET len == Len(list.l)
        Clip(i) == IF i < 0 THEN Max({len + i, 0}) ELSE Min({i, len})
    IN  CASE Failed(list) -> list
          [] list.t # "list" -> ListV(<<>>)
          [] Failed(from) -> from
          [] from = Null -> Null
          [] Failed(to) -> to
          [] to = Null -> Null
          [] OTHER -> ListV(SubSeq(list.l, Clip(from.n) + 1, Clip(to.n)))

-----------------------------------------------------------------------------
(* eval_aggregate_call, over the values of its argument in the rows of one *)
(* group.  An argument that fails counts as a null.  sum and avg ignore    *)
(* DISTINCT, as the code does.                                             *)

Aggregates == {"count", "sum", "avg", "min", "max", "collect",
               "count_distinct", "collect_distinct", "sum_distinct", "avg_distinct"}

NotNull(vals) == SelectSeq(vals, LAMBDA v: v # Null /\ ~Failed(v))

Sum(vals) == FoldLeft(LAMBDA acc, v: acc + Num(v), 0, vals)

\* The extreme value: an equal one that comes later does not replace it.
Extreme(vals, sign) ==
    FoldLeft(LAMBDA best, v: IF best = Null \/ ValueOrdering(v, best) = sign
                             THEN v ELSE best,
             Null, vals)

Fingerprint(v) == ToJson(v)

EvalAggregate(name, args) ==
    LET vals == NotNull(args)
        nums == SelectSeq(vals, LAMBDA v: v.t \in {"int", "float", "nan"})
        nan  == NaN \in Range(nums)
    IN  CASE name = "count" -> IntV(Len(vals))
          [] name = "count_distinct" -> IntV(Len(Dedup(vals, Fingerprint)))
          [] name = "collect" -> ListV([i \in 1..Len(vals) |-> ToJson(vals[i])])
          [] name = "collect_distinct" ->
                 LET distinct == Dedup(vals, Fingerprint)
                 IN  ListV([i \in 1..Len(distinct) |-> ToJson(distinct[i])])
          [] name \in {"sum", "sum_distinct"} ->
                 CASE nan -> NaN
                   [] \E i \in 1..Len(nums) : nums[i].t = "float" -> FltV(Sum(nums))
                   [] OTHER -> IntV(Sum(nums) \div Scale)
          [] name \in {"avg", "avg_distinct"} ->
                 CASE nums = <<>> -> Null
                   [] nan -> NaN
                   [] OTHER -> FltV(TruncDiv(Sum(nums), Len(nums)))
          [] name = "min" -> Extreme(vals, -1)
          [] name = "max" -> Extreme(vals, 1)
=============================================================================
