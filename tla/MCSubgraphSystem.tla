---------------------------- MODULE MCSubgraphSystem ----------------------------
(* Model-checking instance of the onboarding script with the index.         *)
EXTENDS SubgraphSystem
=============================================================================
