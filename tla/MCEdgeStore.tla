----------------------------- MODULE MCEdgeStore -----------------------------
(***************************************************************************)
(* Instances of EdgeStore for TLC.                                         *)
(***************************************************************************)
EXTENDS EdgeStore, TLC

CONSTANTS b1, b2, b3, n1, n2

\* Two nodes on two pages.
BlkTwo == (n1 :> 0) @@ (n2 :> 1)

\* Two backends insert; one also deletes edges and changes their properties, the
\* other traverses.
WritersAndReader ==
    (b1 :> {"insert", "delete", "props"}) @@ (b2 :> {"insert", "follow"})

\* The second backend inserts and follows edges of the first node; only the first
\* edge is deleted or changed.
FromFirst ==
    \A b \in Backend :
        /\ b = b2 /\ loc[b].src # None => loc[b].src = n1
        /\ pc[b] \in {"delete", "props"} => loc[b].e = 1

FromFirstSpec == Init /\ [][Next /\ FromFirst']_vars

\* One backend inserts, the other traverses.
InserterAndReader == (b1 :> {"insert"}) @@ (b2 :> {"follow"})

\* Two inserters; one of them also traverses and deletes edges and nodes, and so
\* may a third backend traverse.
InsertersAndReaders ==
    (b1 :> {"insert"}) @@ (b2 :> {"insert", "follow", "dropnode"}) @@ (b3 :> {"follow"})

\* Between different nodes, and along out-chains, only.
Disjoint ==
    \A b \in Backend :
        /\ loc[b].e # 0 /\ loc[b].src # None => loc[b].src # loc[b].tgt
        /\ loc[b].dir = "out" /\ loc[b].inHead = Null
        /\ pc[b] \in {"follow", "onpage"} => loc[b].src = n1

DisjointSpec ==
    /\ Init /\ [][Next /\ Disjoint']_vars
    /\ \A b \in Backend : Progress(b)

\* Two backends that only insert.
TwoInserters == (b1 :> {"insert"}) @@ (b2 :> {"insert"})
=============================================================================
