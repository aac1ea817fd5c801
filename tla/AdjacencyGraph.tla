---------------------------- MODULE AdjacencyGraph ----------------------------
(***************************************************************************)
(* What the edge store promises its callers: for every node the list of    *)
(* its outgoing and the list of its incoming edges, newest first.          *)
(* Inserting an edge puts it, in one step, at the front of its source's    *)
(* and of its target's list; deleting an edge only marks it.               *)
(***************************************************************************)
EXTENDS Sequences, SequencesExt

CONSTANTS Node, Edge

VARIABLES
    out,    \* node -> its outgoing edges, newest first
    in,     \* node -> its incoming edges, newest first
    dead    \* edges marked as deleted

vars == <<out, in, dead>>

Init ==
    /\ out = [n \in Node |-> <<>>]
    /\ in = [n \in Node |-> <<>>]
    /\ dead = {}

Known == UNION {ToSet(out[n]) : n \in Node}

Insert(e, s, t) ==
    /\ out' = [out EXCEPT ![s] = <<e>> \o @]
    /\ in' = [in EXCEPT ![t] = <<e>> \o @]
    /\ UNCHANGED dead

Delete(e) ==
    /\ dead' = dead \cup {e}
    /\ UNCHANGED <<out, in>>

Next ==
    \/ \E e \in Edge \ Known, s, t \in Node : Insert(e, s, t)
    \/ \E e \in Known \ dead : Delete(e)

Spec == Init /\ [][Next]_vars
=============================================================================
