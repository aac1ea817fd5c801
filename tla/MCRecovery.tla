----------------------------- MODULE MCRecovery -----------------------------
(***************************************************************************)
(* Instances of Recovery for TLC.                                          *)
(***************************************************************************)
EXTENDS Recovery, TLC

CONSTANTS p1, p2

AllOps == {"node", "big", "update", "move", "delnode", "edge", "deledge", "props", "vacuum"}

\* Node pages are interchangeable.
Pages == Permutations({p1, p2})
=============================================================================
