-------------------------- MODULE IdentityRecovery --------------------------
(***************************************************************************)
(* What the identity registry promises the tokens that consult it about    *)
(* lost wallets: a wallet that is lost stays lost, a recovery links a      *)
(* wallet that was not lost to one that is not lost, and the link stays    *)
(* put unless the lost wallet itself is registered again, which forgets    *)
(* it.  SMARTIdentityRegistry implements this specification; SMARTToken    *)
(* is built on it.                                                         *)
(***************************************************************************)
CONSTANTS
    Wallets,    \* investor wallets
    None        \* the zero address

ASSUME RecoveryAssumption == None \notin Wallets

VARIABLES
    lost,       \* wallets for which isWalletLost answers true
    link        \* what getRecoveredWallet answers for a wallet

recoveryVars == <<lost, link>>

RecoveryTypeOK ==
    /\ lost \subseteq Wallets
    /\ link \in [Wallets -> Wallets \cup {None}]

RecoveryInit ==
    /\ lost = {}
    /\ link = [w \in Wallets |-> None]

Recover(l, n) ==
    /\ l \notin lost
    /\ n \notin lost
    /\ lost' = lost \cup {l}
    /\ link' = [link EXCEPT ![l] = n]

\* Registering lost wallets again (two of them in a batch) forgets their links.
Forget(ws) ==
    /\ ws \subseteq lost
    /\ link' = [w \in Wallets |-> IF w \in ws THEN None ELSE link[w]]
    /\ UNCHANGED lost

RecoveryNext ==
    \/ \E l, n \in Wallets : Recover(l, n)
    \/ \E ws \in SUBSET Wallets : Forget(ws)

RecoverySpec == RecoveryInit /\ [][RecoveryNext]_recoveryVars
=============================================================================
