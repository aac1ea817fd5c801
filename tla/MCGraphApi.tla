----------------------------- MODULE MCGraphApi -----------------------------
(* Instances of GraphApi for TLC: two sessions. *)
EXTENDS GraphApi

Symmetry == Permutations(Backends) \union Permutations(Values)

=============================================================================
