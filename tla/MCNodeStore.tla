----------------------------- MODULE MCNodeStore -----------------------------
(***************************************************************************)
(* Instances of NodeStore for TLC.                                         *)
(***************************************************************************)
EXTENDS NodeStore, TLC

CONSTANTS b1, b2, b3

\* Nodes come and go, are updated by two backends, get edges, are scanned and
\* vacuumed.
WritersReaderVacuum ==
    (b1 :> {"insert", "insertbig", "delete", "update", "edge"}) @@ (b2 :> {"scan", "update"})
        @@ (b3 :> {"vacuum"})

\* Only the first node gets edges and is updated, by two backends; only the second
\* is deleted and may be too big for its page; VACUUM runs when there is something
\* for it to do.
Fewer ==
    \A b \in Backend :
        /\ loc[b].task \in {"edge", "update"} => loc[b].n = 1
        /\ loc[b].task = "delete" \/ loc[b].big => loc[b].n = 2
        /\ loc[b].task = "vacuum" => \E a \in Items : DeadTo(b, a) \/ item[a].lp = "dead"

FewerSpec == Init /\ [][Next /\ Fewer']_vars

\* Updates, edges and VACUUM.
UpdateAndVacuum == (b1 :> {"insert", "update", "edge"}) @@ (b2 :> {"vacuum"})
=============================================================================
