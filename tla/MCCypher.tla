------------------------------ MODULE MCCypher ------------------------------
(* Statements and queries for Cypher, in the syntax of CypherPlan.         *)
EXTENDS Cypher

One == Lit(IntV(1))
Two == Lit(IntV(2))
None == Lit(Null)
P(v, key) == Prop(Var(v), key)
N(v, ls, ps) == NodeP(v, ls, ps)
Rel(v, ts, dir) == RelP(v, ts, dir, <<>>, Fixed)
Star13(v, dir) == RelP(v, <<>>, dir, <<>>, Hops(1, 3))
Pat(els) == Pattern(NoVar, els)
Match(els) == MatchC(FALSE, <<Pat(els)>>, <<>>)
MatchW(els, where) == MatchC(FALSE, <<Pat(els)>>, <<where>>)
Opt(els) == MatchC(TRUE, <<Pat(els)>>, <<>>)
As(e, v) == Item(e, v)
Plain(items) == Projection(FALSE, items, <<>>, <<>>, <<>>)
Vars(vs) == [i \in 1..Len(vs) |-> Item(Var(vs[i]), NoVar)]
Return(items) == ReturnC(Plain(items))
With(items) == WithC(Plain(items), <<>>)
Count == Fn("count", <<Star>>)
K(val) == <<<<"k", val>>>>

A  == N("a", <<"A">>, <<>>)
B  == N("b", <<"B">>, <<>>)
Ax == N("a", <<>>, <<>>)
Bx == N("b", <<>>, <<>>)
Cx == N("c", <<>>, <<>>)
Nx == N(NoVar, <<>>, <<>>)
Out(v) == Rel(v, <<>>, "out")

-----------------------------------------------------------------------------
(* Statements.                                                             *)

CreateAB == Query(<<CreateC(<<Pat(<<N("a", <<"A">>, K(One)), RelP("r", <<"R">>, "out", K(One), Fixed),
                                    N("b", <<"B">>, K(Two))>>)>>)>>)
CreateA == Query(<<ForeachC("x", ListE(<<Two, One>>),
                      <<CreateC(<<Pat(<<N("n", <<"A">>, K(Var("x")))>>)>>)>>)>>)
Back == Query(<<MatchC(FALSE, <<Pat(<<A>>), Pat(<<B>>)>>, <<>>),
                CreateC(<<Pat(<<N("b", <<>>, <<>>), RelP("r", <<"S">>, "out", <<>>, Fixed),
                                N("a", <<>>, <<>>)>>)>>),
                SetC(<<SetLabel("b", <<"C">>), SetMerge("r", MapE(<<"k">>, <<P("b", "k")>>))>>)>>)
Loop == Query(<<Match(<<B>>), CreateC(<<Pat(<<Bx, RelP("r", <<"R">>, "in", K(Two), Fixed), Bx>>)>>)>>)
MergeA == Query(<<MergeC(Pat(<<N("a", <<"A">>, K(One))>>),
                         <<SetProp(Var("a"), "x", One)>>, <<SetProp(Var("a"), "x", Two)>>)>>)
MergeAB == Query(<<Match(<<A>>), Match(<<B>>),
                   MergeC(Pat(<<Ax, Rel("s", <<"S">>, "both"), Bx>>), <<>>, <<>>)>>)
Cut == Query(<<Match(<<A, Out("r"), Bx>>),
               SetC(<<SetProp(Var("a"), "k", None)>>),
               RemoveC(<<RemoveLabel("b", <<"C">>), RemoveProp("b", "k"), RemoveProp("r", "k")>>),
               DeleteC(<<Var("r")>>, FALSE)>>)
Kill == Query(<<MatchW(<<Ax>>, Cmp(P("a", "k"), "=", Param("val"))), DeleteC(<<Var("a")>>, TRUE)>>)
IndexOn == Query(<<IndexC(TRUE, "A", "k")>>)
IndexOff == Query(<<IndexC(FALSE, "A", "k")>>)

StatementList == <<CreateAB, CreateA, Back, Loop, MergeA, MergeAB, Cut, Kill,
                   IndexOn, IndexOff>>

\* Statements after which the index is not kept up.
RemoveK == Query(<<Match(<<A>>), RemoveC(<<RemoveProp("a", "k")>>)>>)
StatementsAll == <<MergeA, IndexOn, RemoveK>>

ParamList == [val |-> IntV(2)]

-----------------------------------------------------------------------------
(* Queries.                                                                *)

QueryList == <<
    \* Scans, index scans and filters on both sides of an AND.
    Query(<<Match(<<N("a", <<"A">>, <<<<"x", Two>>, <<"k", One>>>>)>>),
            Return(<<As(Fn("id", <<Var("a")>>), "n")>>)>>),
    Query(<<MatchW(<<A>>, And(And(Cmp(One, "=", P("a", "k")), Cmp(P("a", "x"), "=", Two)),
                              Cmp(Fn("id", <<Var("a")>>), ">", One))),
            Return(Vars(<<"a">>))>>),
    Query(<<MatchW(<<N("a", <<"A", "C">>, <<>>)>>, IsNotNull(P("a", "k"))), Return(Vars(<<"a">>))>>),
    \* One hop, in every direction; the end has fewer nodes than the start.
    Query(<<Match(<<A, Rel("r", <<"R">>, "out"), B>>), Return(Vars(<<"a", "r", "b">>))>>),
    Query(<<Match(<<Ax, Out("r"), N("b", <<"B">>, K(Two))>>),
            Return(<<As(P("a", "k"), NoVar), As(Var("r"), NoVar)>>)>>),
    Query(<<Match(<<Ax, Rel("r", <<"R", "S">>, "both"), Bx>>),
            Return(<<As(Fn("id", <<Var("a")>>), "n"), As(P("r", "k"), NoVar), As(Var("b"), NoVar)>>)>>),
    Query(<<Match(<<Ax, RelP("r", <<>>, "in", K(One), Fixed), N("b", <<"A">>, K(One))>>),
            Return(Vars(<<"r", "b">>))>>),
    \* Two hops: no relationship twice, to a node bound before and back.
    Query(<<Match(<<Ax, Rel("r", <<>>, "both"), Bx, Rel("s", <<>>, "both"), Cx>>),
            Return(Vars(<<"a", "r", "s", "c">>))>>),
    Query(<<MatchC(FALSE, <<Pat(<<A, Out("r"), Bx>>), Pat(<<Bx, Out("s"), Ax>>)>>, <<>>),
            Return(Vars(<<"a", "b">>))>>),
    Query(<<MatchC(FALSE, <<Pat(<<A, Rel(NoVar, <<>>, "out"), Nx, Rel(NoVar, <<>>, "both"), Cx>>)>>, <<>>),
            Return(Vars(<<"a", "c">>))>>),
    \* Joins of unconnected patterns, the one with fewer rows first.
    Query(<<MatchC(FALSE, <<Pat(<<Ax>>), Pat(<<B>>), Pat(<<N("c", <<"C">>, <<>>)>>)>>, <<>>),
            Return(Vars(<<"a", "b", "c">>))>>),
    Query(<<Match(<<A>>), MatchW(<<B, Out("r"), Cx>>, Cmp(P("c", "k"), "<=", P("a", "k"))),
            Return(<<As(P("a", "k"), NoVar), As(P("b", "k"), NoVar)>>)>>),
    \* Walks.
    Query(<<Match(<<A, Star13("r", "out"), Bx>>),
            Return(<<As(Var("a"), NoVar), As(Var("r"), NoVar), As(Fn("size", <<Var("r")>>), "n")>>)>>),
    Query(<<MatchC(FALSE, <<Pattern("p", <<A, RelP("r", <<"R">>, "in", <<>>, Hops(0, 2)), Bx>>)>>, <<>>),
            Return(<<As(Fn("length", <<Var("p")>>), "n"), As(Fn("nodes", <<Var("p")>>), "m")>>)>>),
    Query(<<Match(<<Ax, Out("r"), Bx, Star13("s", "both"), Cx>>), Return(Vars(<<"r", "c">>))>>),
    Query(<<Match(<<Ax, RelP("r", <<>>, "out", K(One), Hops(1, 2)), B>>), Return(Vars(<<"a", "b">>))>>),
    Query(<<Match(<<A>>), Match(<<Bx>>), Match(<<Ax, Star13("r", "both"), Bx>>),
            Return(<<As(P("b", "k"), NoVar), As(Fn("size", <<Var("r")>>), "n")>>)>>),
    Query(<<MatchC(FALSE, <<Pattern("p", <<Ax, Out("r"), Bx, Out("s"), Cx>>)>>, <<>>),
            Return(<<As(Fn("relationships", <<Var("p")>>), "t"), As(Var("c"), NoVar)>>)>>),
    Query(<<Match(<<Ax, Out("r"), Bx, Out("s"), Cx>>),
            With(<<As(Var("a"), NoVar), As(ListE(<<Var("r"), Var("s")>>), "t")>>),
            Match(<<Ax, RelP("t", <<>>, "out", <<>>, Hops(1, 3)), N("d", <<>>, <<>>)>>),
            Return(Vars(<<"a", "d">>))>>),
    \* OPTIONAL MATCH: an expand, a join with a WHERE, two hops on nulls.
    Query(<<Opt(<<A>>), Opt(<<Ax, Out("r"), Bx>>), Return(Vars(<<"a", "r", "b">>))>>),
    Query(<<Opt(<<A>>),
            MatchC(TRUE, <<Pat(<<Ax, Rel("r", <<>>, "in"), Bx>>)>>, <<Cmp(P("b", "k"), "=", P("r", "k"))>>),
            Opt(<<Bx, Out("s"), Cx>>), Return(Vars(<<"a", "b", "c">>))>>),
    Query(<<Match(<<A>>), Opt(<<N("b", <<"C">>, <<>>), Out("r"), Cx>>), Return(Vars(<<"a", "b", "c">>))>>),
    Query(<<Match(<<A>>), Opt(<<Ax, Rel("r", <<"R">>, "out"), Bx, Rel("s", <<"S">>, "out"), Cx>>),
            Return(Vars(<<"a", "b", "s">>))>>),
    Query(<<Opt(<<N("a", <<"C">>, <<>>)>>), Return(Vars(<<"a">>))>>),
    \* Subqueries and pattern comprehensions.
    Query(<<MatchW(<<A>>, Not(Exists(Query(<<Match(<<Ax, Out(NoVar), N(NoVar, <<"B">>, <<>>)>>)>>)))),
            Return(Vars(<<"a">>))>>),
    Query(<<MatchW(<<Ax>>, Exists(Query(<<MatchW(<<Ax, Out("r"), Bx>>, Cmp(P("r", "k"), "=", P("b", "k")))>>))),
            Return(<<As(Fn("id", <<Var("a")>>), "n")>>)>>),
    Query(<<Match(<<Ax>>),
            Return(<<As(Fn("id", <<Var("a")>>), "n"),
                     As(Fn("size", <<PatComp(Pat(<<Ax, Rel("r", <<>>, "both"), Bx>>),
                                             <<IsNotNull(P("b", "k"))>>, P("r", "k"))>>), "m")>>)>>),
    Query(<<Match(<<B>>), CallC(Query(<<Match(<<N("n", <<"A">>, <<>>)>>), Return(<<As(Count, "m")>>)>>)),
            Return(Vars(<<"b", "m">>))>>),
    \* Expressions over lists, maps and paths.
    Query(<<MatchC(FALSE, <<Pattern("p", <<Ax, Out("r"), Bx>>)>>, <<>>),
            Return(<<As(ListComp("x", Fn("nodes", <<Var("p")>>), <<IsNotNull(P("x", "k"))>>, <<P("x", "k")>>), "x"),
                     As(Slice(Fn("reverse", <<Fn("nodes", <<Var("p")>>)>>), <<Lit(IntV(-1))>>, <<>>), "y"),
                     As(Subscript(Fn("relationships", <<Var("p")>>), Lit(IntV(-1)), NoVar), "t"),
                     As(CaseOf(<<P("a", "k"), One, Neg(Arith(P("b", "k"), "/", Lit(FltV(18)))), Two>>), "s"),
                     As(Fn("coalesce", <<P("a", "x"), P("r", "k"), Lit(StrV(1))>>), "c"),
                     As(MapE(<<"k", "x">>, <<Fn("properties", <<Var("b")>>),
                                             Fn("head", <<Fn("tail", <<Fn("nodes", <<Var("p")>>)>>)>>)>>), "d"),
                     As(Cmp(Fn("startnode", <<Var("r")>>), "=", Fn("endnode", <<Fn("last", <<Fn("relationships", <<Var("p")>>)>>)>>)), "q")>>)>>),
    Query(<<UnwindC(Fn("range", <<Param("val"), Lit(IntV(-1)), Lit(IntV(-1))>>), "x"),
            Opt(<<N("a", <<"A">>, K(Var("x")))>>),
            Return(<<As(Var("x"), NoVar), As(Fn("id", <<Var("a")>>), "n")>>)>>),
    \* Grouping, DISTINCT, ORDER BY, SKIP, LIMIT, UNION, UNWIND.
    Query(<<Opt(<<Ax>>), Opt(<<Ax, Out("r"), Bx>>),
            With(<<As(P("a", "k"), "k"), As(Fn("count", <<Var("r")>>), "m"),
                   As(Fn("min", <<P("b", "k")>>), "n"), As(Fn("sum", <<P("r", "k")>>), "s")>>),
            Return(Vars(<<"k", "m", "n", "s">>))>>),
    Query(<<Match(<<Ax, Rel("r", <<>>, "both"), Bx>>),
            WithC(Plain(<<As(Var("a"), NoVar), As(Arith(Count, "+", One), "c")>>), <<Cmp(Var("c"), ">", Two)>>),
            Return(<<As(P("a", "k"), NoVar), As(Var("c"), NoVar)>>)>>),
    Query(<<MatchC(FALSE, <<Pat(<<Ax, Out("r"), Bx>>)>>, <<>>),
            ReturnC(Projection(TRUE, <<As(P("a", "k"), "x"), As(P("b", "k"), "y")>>,
                               <<Order(Var("y"), FALSE), Order(Var("x"), TRUE)>>, <<>>, <<>>))>>),
    Query(<<Match(<<Ax>>),
            ReturnC(Projection(FALSE, <<As(P("a", "x"), "x")>>,
                               <<Order(Fn("id", <<Var("a")>>), FALSE)>>, <<One>>, <<Param("val")>>))>>),
    Query(<<Match(<<Ax>>), WithC(Projection(FALSE, <<As(Var("a"), NoVar)>>,
                                    <<Order(Fn("id", <<Var("a")>>), TRUE)>>, <<>>, <<Two>>), <<>>),
            Opt(<<Ax, Out("r"), Bx>>),
            Return(<<As(Fn("count_distinct", <<Var("b")>>), "n"), As(Fn("max", <<P("a", "k")>>), "m")>>)>>),
    UnionOf(<<Match(<<A>>), Return(<<As(P("a", "k"), "k")>>)>>, FALSE,
            Query(<<Match(<<B>>), Return(<<As(P("b", "k"), "k")>>)>>)),
    Query(<<Match(<<A>>), UnwindC(ListE(<<P("a", "k"), Two, None>>), "x"),
            WithC(Plain(<<As(Var("a"), NoVar), As(Var("x"), NoVar)>>), <<IsNotNull(Var("x"))>>),
            Return(<<As(Case(<<Cmp(Var("x"), "=", P("a", "k")), Var("x"), Var("a")>>), "y")>>)>>)
>>

Ask(match, vs, pred) == [match |-> match, return |-> Return(Vars(vs)), pred |-> pred]

AskList == <<
    Ask(Match(<<A>>), <<"a">>, Cmp(P("a", "k"), "=", Param("val"))),
    Ask(Match(<<A>>), <<"a">>, And(Cmp(P("a", "k"), "=", One), Cmp(P("a", "x"), "=", Two))),
    Ask(Match(<<A>>), <<"a">>, Or(Cmp(P("a", "k"), "=", One), Cmp(P("a", "x"), "<", Two))),
    Ask(Match(<<Ax, Out("r"), Bx>>), <<"r">>, Xor(Cmp(P("r", "k"), "=", P("b", "k")), HasLabel(Var("b"), <<"A">>))),
    Ask(Match(<<Ax>>), <<"a">>, In(P("a", "k"), ListE(<<Two, P("a", "x")>>))),
    Ask(Match(<<Ax, Star13("r", "out"), Bx>>), <<"a", "r">>,
        Quantifier("any", "x", Var("r"), Cmp(P("x", "k"), "=", One))),
    Ask(Match(<<Ax>>), <<"a">>,
        Cmp(ListE(<<One, P("a", "k")>>), "<", ListE(<<P("a", "x"), Two>>))),
    Ask(Match(<<Ax>>), <<"a">>,
        Exists(Query(<<Match(<<Ax, Out(NoVar), Nx>>)>>))) >>
=============================================================================
