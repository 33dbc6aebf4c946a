-------------------------- MODULE MCSubgraphClaims --------------------------
(* Model-checking instance of the topic schemes and claims with their index. *)
EXTENDS SubgraphClaims, TLC

CONSTANTS s1, s2, d1, d2

\* Both contents are encoded by s1, one of them also makes sense under s2.
EncodedBy == {<<s1, d1>>, <<s1, d2>>, <<s2, d1>>}
=============================================================================
