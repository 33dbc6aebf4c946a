----------------------------- MODULE SMARTToken -----------------------------
(***************************************************************************)
(* The core every SMART token shares: the ERC20 ledger, whose single entry *)
(* point _update runs the hooks of the extensions, with the Custodian,     *)
(* Pausable, Burnable and Redeemable extensions and the recovery of lost   *)
(* wallets' balances.  Assets (SMARTBond, ...) conjoin what they add.      *)
(*                                                                         *)
(* The registry is seen through IdentityRecovery and through the set of    *)
(* eligible recipients: those isVerified and canTransfer both accept.  It  *)
(* changes at any moment between two transactions of the token.  Roles are *)
(* not modelled: an action is the transaction of whoever may send it.      *)
(***************************************************************************)
EXTENDS IdentityRecovery, Integers, FiniteSets, Functions

CONSTANTS
    Amounts,        \* the amounts transactions are tried with
    MaxUint         \* type(uint256).max, which the total supply cannot exceed

ASSUME TokenAssumption ==
    /\ IsFiniteSet(Wallets)     \* addresses have 160 bits
    /\ Amounts \subseteq Nat
    /\ MaxUint \in Nat

VARIABLES
    balances,       \* ERC20 balances
    totalSupply,    \* ERC20 total supply
    frozen,         \* wallets whose __frozen flag is set
    frozenTokens,   \* __frozenTokens: partially frozen amount per wallet
    paused,         \* Pausable
    moduleTally,    \* balances as a compliance module counts them from callbacks
    eligible        \* recipients accepted by isVerified and canTransfer

ledgerVars == <<balances, totalSupply, moduleTally>>
custodianVars == <<frozen, frozenTokens>>
registryVars == <<lost, link, eligible>>
tokenVars == <<ledgerVars, custodianVars, paused, registryVars>>

TokenTypeOK ==
    /\ RecoveryTypeOK
    /\ balances \in [Wallets -> Nat]
    /\ totalSupply \in Int
    /\ frozen \subseteq Wallets
    /\ frozenTokens \in [Wallets -> Nat]
    /\ paused \in BOOLEAN
    /\ moduleTally \in [Wallets -> Nat]
    /\ eligible \subseteq Wallets

TokenInit ==
    /\ RecoveryInit
    /\ balances = [w \in Wallets |-> 0]
    /\ totalSupply = 0
    /\ frozen = {}
    /\ frozenTokens = [w \in Wallets |-> 0]
    /\ paused = FALSE
    /\ moduleTally = [w \in Wallets |-> 0]
    /\ eligible = {}

-----------------------------------------------------------------------------
(* The ledger and the hooks.                                               *)

\* Mutant: the burn hook does not reach the compliance contract.
AfterUpdateNoDestroyed(tally, from, to, a) ==
    IF from = None THEN [tally EXCEPT ![to] = @ + a]
    ELSE IF to = None THEN tally
    ELSE [[tally EXCEPT ![from] = @ - a] EXCEPT ![to] = @ + a]

\* The after-hook of _update calls created, destroyed or transferred on the
\* compliance contract, which hands it to every module.
AfterUpdate(tally, from, to, a) ==
    IF from = None THEN [tally EXCEPT ![to] = @ + a]
    ELSE IF to = None THEN [tally EXCEPT ![from] = @ - a]
    ELSE [[tally EXCEPT ![from] = @ - a] EXCEPT ![to] = @ + a]

\* Mutant: an update of more than the balance.
CanUpdateUnchecked(from, a) == ~paused /\ (from = None => totalSupply + a <= MaxUint)

\* None as sender mints, None as recipient burns.  The pause applies to every
\* update, the forced ones included.  ERC20 reverts on an overflow of the total
\* supply and on an insufficient balance.
CanUpdate(from, a) ==
    /\ ~paused
    /\ IF from = None THEN totalSupply + a <= MaxUint ELSE balances[from] >= a

Update(from, to, a) ==
    /\ CanUpdate(from, a)
    /\ balances' = [w \in Wallets |-> balances[w]
                       - (IF w = from THEN a ELSE 0) + (IF w = to THEN a ELSE 0)]
    /\ totalSupply' = totalSupply + (IF from = None THEN a ELSE 0)
                                  - (IF to = None THEN a ELSE 0)
    /\ moduleTally' = AfterUpdate(moduleTally, from, to, a)
    /\ UNCHANGED <<paused, registryVars>>

Available(w) == balances[w] - frozenTokens[w]

\* Mutant: what was frozen stays frozen.
FrozenNotTaken(w, a) == frozenTokens

\* A forced transfer or a burn of more than is available takes the rest out
\* of the frozen amount.
FrozenAfterTaking(w, a) ==
    IF a > Available(w)
    THEN [frozenTokens EXCEPT ![w] = @ - (a - Available(w))]
    ELSE frozenTokens

-----------------------------------------------------------------------------
(* Transactions on the ledger.                                             *)

Mint(to, a) ==
    /\ to \in eligible
    /\ to \notin frozen
    /\ Update(None, to, a)
    /\ UNCHANGED custodianVars

\* Mutant: only the recipient's flag is looked at.
TransferFromFrozen(from, to, a) ==
    /\ to \in eligible
    /\ to \notin frozen
    /\ Available(from) >= a
    /\ Update(from, to, a)
    /\ UNCHANGED custodianVars

Transfer(from, to, a) ==
    /\ to \in eligible
    /\ from \notin frozen /\ to \notin frozen
    /\ Available(from) >= a
    /\ Update(from, to, a)
    /\ UNCHANGED custodianVars

\* A forced transfer bypasses verification, compliance and freezes, not the
\* pause; with None as recipient it burns, and the burn hook finds nothing more
\* to unfreeze.
ForcedTransfer(from, to, a) ==
    /\ CanUpdate(from, a)
    /\ frozenTokens' = FrozenAfterTaking(from, a)
    /\ Update(from, to, a)
    /\ UNCHANGED frozen

Burn(w, a) ==
    /\ Update(w, None, a)
    /\ frozenTokens' = FrozenAfterTaking(w, a)
    /\ UNCHANGED frozen

\* redeem, or redeemAll with the whole balance: a holder's own burn stops at
\* what is not frozen.
Redeem(w, a) ==
    /\ w \notin frozen
    /\ Available(w) >= a
    /\ Update(w, None, a)
    /\ UNCHANGED custodianVars

\* recoverTokens sent by the replacement, or forcedRecoverTokens: a forced
\* transfer of the whole balance, then the freezes move along.  The partial
\* freeze overwrites that of the replacement, and a replacement that was
\* frozen while the lost wallet was not is unfrozen.
CanRecoverTokens(l, n) ==
    /\ balances[l] > 0
    /\ link[l] = n
    /\ l \in lost
    /\ CanUpdate(l, balances[l])

RecoverTokens(l, n) ==
    /\ CanRecoverTokens(l, n)
    /\ Update(l, n, balances[l])
    /\ frozenTokens' = IF frozenTokens[l] > 0
                       THEN [[frozenTokens EXCEPT ![l] = 0] EXCEPT ![n] = frozenTokens[l]]
                       ELSE frozenTokens
    /\ frozen' = IF l \in frozen THEN (frozen \cup {n}) \ {l} ELSE frozen \ {n}

-----------------------------------------------------------------------------
(* The custodian's and the emergency role's switches.                      *)

SetAddressFrozen(w, freeze) ==
    /\ frozen' = IF freeze THEN frozen \cup {w} ELSE frozen \ {w}
    /\ UNCHANGED <<ledgerVars, frozenTokens, paused, registryVars>>

FreezePartialTokens(w, a) ==
    /\ Available(w) >= a
    /\ frozenTokens' = [frozenTokens EXCEPT ![w] = @ + a]
    /\ UNCHANGED <<ledgerVars, frozen, paused, registryVars>>

UnfreezePartialTokens(w, a) ==
    /\ frozenTokens[w] >= a
    /\ frozenTokens' = [frozenTokens EXCEPT ![w] = @ - a]
    /\ UNCHANGED <<ledgerVars, frozen, paused, registryVars>>

Pause ==
    /\ ~paused
    /\ paused' = TRUE
    /\ UNCHANGED <<ledgerVars, custodianVars, registryVars>>

Unpause ==
    /\ paused
    /\ paused' = FALSE
    /\ UNCHANGED <<ledgerVars, custodianVars, registryVars>>

-----------------------------------------------------------------------------
(* The registry between two transactions of the token.                     *)

RecoverWallet(l, n) ==
    /\ Recover(l, n)
    /\ eligible' = eligible \ {l}
    /\ UNCHANGED <<ledgerVars, custodianVars, paused>>

ForgetWallets(ws) ==
    /\ Forget(ws)
    /\ UNCHANGED <<ledgerVars, custodianVars, paused, eligible>>

\* Registrations, claims, trusted issuers, topics and modules change; isVerified
\* refuses a lost wallet whatever they say.
ChangeEligibility(e) ==
    /\ eligible' = e \ lost
    /\ UNCHANGED <<ledgerVars, custodianVars, paused, lost, link>>

RegistryStep ==
    \/ \E l, n \in Wallets : RecoverWallet(l, n)
    \/ \E ws \in SUBSET Wallets : ForgetWallets(ws)
    \/ \E e \in SUBSET Wallets : ChangeEligibility(e)

SwitchStep ==
    \/ \E w \in Wallets, f \in BOOLEAN : SetAddressFrozen(w, f)
    \/ \E w \in Wallets, a \in Amounts :
          FreezePartialTokens(w, a) \/ UnfreezePartialTokens(w, a)
    \/ Pause
    \/ Unpause

\* What moves or destroys a wallet's tokens without its holder.
CustodialStep ==
    \/ \E from \in Wallets, to \in Wallets \cup {None}, a \in Amounts :
          ForcedTransfer(from, to, a)
    \/ \E w \in Wallets, a \in Amounts : Burn(w, a)
    \/ \E l, n \in Wallets : RecoverTokens(l, n)

\* Everything else: the holders' own transactions, mints, the switches and what
\* the registry does.
OrdinaryStep ==
    \/ \E to \in Wallets, a \in Amounts : Mint(to, a)
    \/ \E from, to \in Wallets, a \in Amounts : Transfer(from, to, a)
    \/ \E w \in Wallets, a \in Amounts : Redeem(w, a)
    \/ \E w \in Wallets : Redeem(w, balances[w])
    \/ SwitchStep
    \/ RegistryStep

TokenNext == OrdinaryStep \/ CustodialStep

TokenSpec == TokenInit /\ [][TokenNext]_tokenVars
-----------------------------------------------------------------------------
(* Properties.                                                             *)

\* No wallet has more frozen than it holds: the available balance, computed by
\* a checked subtraction in every hook, never underflows and blocks a wallet.
FrozenWithinBalance == \A w \in Wallets : frozenTokens[w] <= balances[w]

\* A compliance module that counts balances from the callbacks always agrees
\* with the ledger: no path of _update skips or repeats the callback.
TallyMirrorsLedger == moduleTally = balances

\* A lost wallet is never an eligible recipient.
LostNeverEligible == eligible \cap lost = {}

\* While the token is paused no balance and no supply changes, whoever asks:
\* forced transfers and recoveries included.
PausedLedgerStandsStill ==
    [][paused => UNCHANGED <<balances, totalSupply>>]_tokenVars

\* What a freeze keeps in a wallet: all of it, or the frozen part.
HeldBack(w) == IF w \in frozen THEN balances[w] ELSE frozenTokens[w]

\* No transfer or redemption of the holder, and nothing else that is not a
\* custodian's, a supply manager's or a recovery's transaction, takes from a
\* wallet what a freeze keeps in it.  The operation counts, not the movement:
\* a forced transfer may move what an ordinary one may not.
FrozenTokensLeaveOnlyByForce ==
    [][\A w \in Wallets : balances'[w] < HeldBack(w) => ~OrdinaryStep]_tokenVars

=============================================================================
