----------------------------- MODULE MCCatalog -----------------------------
(* Instances of Catalog for TLC: two backends. *)
EXTENDS Catalog, TLC

Symmetry == Permutations(Backends) \union Permutations(Values)

=============================================================================
