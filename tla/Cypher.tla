------------------------------- MODULE Cypher -------------------------------
(***************************************************************************)
(* A session that calls cypher(): statements change the graph one after    *)
(* the other, and after each of them queries are asked of it, of the plan  *)
(* and the executor on one side and of CypherSemantics on the other.       *)
(***************************************************************************)
EXTENDS CypherSemantics

CONSTANTS Statements,   \* sequence of writing queries
          Queries,      \* sequence of reading queries
          Asks,         \* sequence of records [match, pred]: a MATCH and a predicate for its WHERE
          Params,       \* the parameters of every call
          MaxNode,      \* bound: ids of nodes
          MaxEdge       \* bound: ids of edges

VARIABLE g              \* the graph

vars == <<g>>

Init == g = EmptyGraph

\* One call of cypher().
Run(query) ==
    \E out \in {RunQuery(g, query, Params).g} :
        /\ out.nextNode <= MaxNode + 1
        /\ out.nextEdge <= MaxEdge + 1
        /\ g' = out

Next == \E i \in 1..Len(Statements) : Run(Statements[i])

Spec == Init /\ [][Next]_vars

-----------------------------------------------------------------------------
(* Properties.                                                             *)

\* The shape of the graph: ids come from the sequences, labels are registered,
\* indexes name a pair.  (create_pattern_in_row, ensure_label, exec_set_prop)
TypeOK ==
    /\ DOMAIN g.nodes \subseteq 1..g.nextNode - 1
    /\ DOMAIN g.edges \subseteq 1..g.nextEdge - 1
    /\ \A n \in DOMAIN g.nodes : g.nodes[n].labels \subseteq g.known
    /\ \A r \in g.labelIx \cup {<<q[1], q[4]>> : q \in g.propIx} : r[2] \in 1..g.nextNode - 1
    /\ {<<q[1], q[2]>> : q \in g.propIx} \subseteq g.indexes

\* label_index has a row for every label of every visible node and no other:
\* a scan for a label finds its nodes whatever CREATE, MERGE, SET, REMOVE and
\* DELETE did before.
LabelIndexExact ==
    g.labelIx = UNION {{<<l, n>> : l \in g.nodes[n].labels} : n \in DOMAIN g.nodes}

\* prop_value_index says of every visible node exactly what the node says, for
\* every index.  (create_property_index, index_node_insert, index_node_update)
PropIndexExact ==
    {r \in g.propIx : r[4] \in DOMAIN g.nodes} = UNION {IndexRows(g, n) : n \in DOMAIN g.nodes}

\* Every relationship has its two nodes: DETACH DELETE takes the edges of a
\* node with it, in both directions, self-loops too.
EdgesAnchored ==
    \A e \in DOMAIN g.edges : {g.edges[e].src, g.edges[e].dst} \subseteq DOMAIN g.nodes

Ordered(q) == LET last == q.clauses[Len(q.clauses)]
              IN  last.c = "return" /\ last.proj.order # <<>>

\* The plan that planner.rs makes of a query, with its joins reordered, its
\* expands reversed, its equalities moved into index scans and its properties
\* pruned, run by executor.rs, gives the rows the query means.
ReadsExact ==
    \A i \in 1..Len(Queries) :
        \A out \in {RunQuery(g, Queries[i], Params)}, want \in {Meaning(g, Queries[i], Params)} :
            /\ out.err = ""
            /\ out.g = g
            /\ IF Ordered(Queries[i]) THEN out.rows = want ELSE SameBag(out.rows, want)

\* The rows of the MATCH of ask with pred as its WHERE.
Answer(ask, pred) ==
    RunQuery(g, Query(<<[ask.match EXCEPT !.where = pred], ask.return>>), Params)

\* A predicate, its negation and its IS NULL share out the rows of a MATCH,
\* wherever apply_where_pushdown evaluates them.
TernaryPartition ==
    \A i \in 1..Len(Asks) :
        LET p == Asks[i].pred
            wheres == <<<<>>, <<p>>, <<Not(p)>>, <<IsNull(p)>>>>
        IN  \A out \in {[k \in 1..4 |-> Answer(Asks[i], wheres[k])]} :
                /\ \A k \in 1..4 : out[k].err = ""
                /\ SameBag(out[1].rows, out[2].rows \o out[3].rows \o out[4].rows)

IsMerge(q) == q.clauses[Len(q.clauses)].c = "merge"

\* A MERGE run again right away finds what it made: it creates nothing.
\* (exec_merge_pattern)
MergeIdempotent ==
    \A i \in 1..Len(Statements) :
        IsMerge(Statements[i]) =>
            \A runs \in {FoldLeft(LAMBDA done, query: Append(done, RunQuery(Last(done).g, query, Params)),
                                  <<Done(g, <<>>)>>, <<Statements[i], Statements[i]>>)} :
                /\ runs[2].err = "" /\ runs[3].err = ""
                /\ DOMAIN runs[3].g.nodes = DOMAIN runs[2].g.nodes
                /\ DOMAIN runs[3].g.edges = DOMAIN runs[2].g.edges

\* Values of every kind that ORDER BY, min and max meet.
Samples ==
    LET elems == {Null, IntV(1), FltV(Scale), IntV(2), StrV(1)}
    IN  {Null, NaN, True, False, IntV(-1), IntV(1), FltV(Scale), FltV(18), IntV(2), StrV(0), StrV(1),
         MapV(<<>>), PathV(<<NodeV(1, {}, <<>>)>>), NodeV(1, {}, <<>>), EdgeV(1, "R", 1, 1, <<>>)}
        \cup {ListV(l) : l \in {<<>>} \cup {<<x>> : x \in elems} \cup (elems \X elems)}

\* The order that slice::sort_by relies on is a total preorder on values of
\* mixed types, and it agrees with = and < where these have an answer and all
\* elements of lists can be compared.  Values do not depend on the graph: they
\* are looked at once.
\* (value_ordering, list_ordering, compare_values, compare_lists)
OrderConsistent ==
    LET Clear(a, b) == \A i \in 1..Min({Len(a.l), Len(b.l)}) : ElemOrdering(a.l[i], b.l[i]) # Null
    IN  g = EmptyGraph =>
        \A a, b \in Samples :
            /\ ValueOrdering(a, b) = -ValueOrdering(b, a)
            /\ CompareValues(a, "=", b) = True => ValueOrdering(a, b) = 0
            /\ CompareValues(a, "<", b) = True /\ Clear(a, b) => ValueOrdering(a, b) < 0
            /\ \A c \in Samples :
                   ValueOrdering(a, b) <= 0 /\ ValueOrdering(b, c) <= 0 => ValueOrdering(a, c) <= 0
=============================================================================
