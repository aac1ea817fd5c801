---------------------------- MODULE EdgeRefinement ----------------------------
(***************************************************************************)
(* The edge store implements AdjacencyGraph: its chains, read the way      *)
(* follow_chain reads them, are the lists.                                 *)
(***************************************************************************)
EXTENDS MCEdgeStore, Sequences

\* Whether an address holds an item: the slots of a page are NoItem until one
\* is added.
Held(a) == a # Null /\ item[a] # NoItem

\* The ids met by walking the pointers of one direction, newest edge first; none
\* once a block was handed out twice, as there may be a cycle then.
Walk(dir, head) ==
    LET w[a \in Ptr] ==
            IF ~Held(a) THEN <<>>
            ELSE <<item[a].id>> \o w[IF dir = "out" THEN item[a].nextOut ELSE item[a].nextIn]
    IN  IF twice = {} THEN w[head] ELSE <<>>

Graph == INSTANCE AdjacencyGraph WITH
    out  <- [n \in Node |-> Walk("out", hdr[n].out)],
    in   <- [n \in Node |-> Walk("in", hdr[n].in)],
    dead <- {item[a].id : a \in {c \in Addr : Held(c) /\ item[c].xmax # 0}}

\* Refinement: whatever order the buffer locks are taken in by concurrent
\* insert_edge and delete_edge calls, a caller sees edges appear at the front
\* of both chains at once, and chains otherwise never change, up to the step in
\* which a block is handed out a second time.
ImplementsGraph == Graph!Init /\ [][twice' = {} => Graph!Next]_(Graph!vars)
=============================================================================
