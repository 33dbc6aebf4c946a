--------------------------- MODULE MCSMARTIdentity ---------------------------
(* Model-checking instance of an identity: its owner and two more accounts   *)
(* may hold keys.                                                           *)
EXTENDS SMARTIdentity, TLC

Symmetry == Permutations(Accounts \ {Owner})
=============================================================================
