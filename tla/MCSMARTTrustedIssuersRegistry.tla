------------------- MODULE MCSMARTTrustedIssuersRegistry -------------------
(* Model-checking instance of the registry of trusted issuers.              *)
EXTENDS SMARTTrustedIssuersRegistry, TLC

Symmetry == Permutations(Issuers) \cup Permutations(Topics)
=============================================================================
