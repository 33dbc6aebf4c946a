----------------------------- MODULE MCSMARTBond -----------------------------
(* Model-checking instance of the bond.                                     *)
EXTENDS SMARTBond, TLC

Symmetry == Permutations(Wallets)
=============================================================================
