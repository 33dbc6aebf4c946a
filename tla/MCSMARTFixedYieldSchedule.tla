--------------------- MODULE MCSMARTFixedYieldSchedule ---------------------
(* Model-checking instance of the yield schedule.                           *)
EXTENDS SMARTFixedYieldSchedule, TLC

Symmetry == Permutations(Wallets)
=============================================================================
