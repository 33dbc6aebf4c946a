--------------------------- MODULE MCSubgraphToken ---------------------------
(* Model-checking instance of the token core with its index.                *)
EXTENDS SubgraphToken, TLC

Symmetry == Permutations(Wallets)
=============================================================================
