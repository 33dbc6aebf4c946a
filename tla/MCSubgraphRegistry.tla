------------------------- MODULE MCSubgraphRegistry -------------------------
(* Model-checking instance of the registries, their storage and its index.  *)
EXTENDS SubgraphRegistry, TLC

Symmetry == Permutations(Wallets) \cup Permutations(Identities) \cup Permutations(Registries)
=============================================================================
