-------------------------- MODULE SMARTTokenProofs --------------------------
(***************************************************************************)
(* The safety properties of the token core for any number of wallets and   *)
(* any amounts, and that the supply is always the sum of the balances;     *)
(* then those of a bond, which behaves as a token.  And the index of a     *)
(* token observes it without disturbing it, never understates it, and      *)
(* moves with it, for any drift; its supply is the sum of its balances     *)
(* plus what the creation block counts twice.                              *)
(***************************************************************************)
EXTENDS SMARTBond, SubgraphToken, DataLemmas

USE RecoveryAssumption, TokenAssumption

\* The supply is what the wallets hold together.
SupplyIsSum == totalSupply = SumFunction(balances)

TokenInv ==
    /\ TokenTypeOK
    /\ FrozenWithinBalance
    /\ TallyMirrorsLedger
    /\ LostNeverEligible
    /\ SupplyIsSum

-----------------------------------------------------------------------------
(* The ledger.                                                             *)

\* An update leaves the sender no less than it had minus the amount, no other
\* wallet less than it had, and the callbacks agree with it.
LEMMA UpdateFacts ==
    ASSUME TokenInv, NEW from \in Wallets \cup {None}, NEW to \in Wallets \cup {None},
           from # None \/ to # None, NEW a \in Nat, Update(from, to, a)
    PROVE  /\ balances' \in [Wallets -> Nat]
           /\ totalSupply' \in Int
           /\ moduleTally' = balances'
           /\ totalSupply' = SumFunction(balances')
           /\ \A w \in Wallets :
                 balances'[w] >= balances[w] - (IF w = from THEN a ELSE 0)
           /\ UNCHANGED <<paused, registryVars>>
<1>1. /\ balances \in [Wallets -> Nat]
      /\ totalSupply \in Int
      /\ moduleTally = balances
  BY DEF TokenInv, TokenTypeOK, TallyMirrorsLedger
<1>2. from # None => balances[from] >= a
  BY DEF Update, CanUpdate
<1>3. /\ \A w \in Wallets : balances'[w] = balances[w]
            - (IF w = from THEN a ELSE 0) + (IF w = to THEN a ELSE 0)
      /\ DOMAIN balances' = Wallets
      /\ balances' = [w \in Wallets |-> balances'[w]]
      /\ moduleTally' = AfterUpdate(balances, from, to, a)
      /\ totalSupply' = totalSupply + (IF from = None THEN a ELSE 0)
                                    - (IF to = None THEN a ELSE 0)
      /\ UNCHANGED <<paused, registryVars>>
  BY <1>1 DEF Update
<1>4. \A w \in Wallets : /\ balances'[w] \in Nat
                         /\ balances'[w] >= balances[w] - (IF w = from THEN a ELSE 0)
  BY <1>1, <1>2, <1>3
<1>5. balances' \in [Wallets -> Nat]
  BY <1>3, <1>4
<1>6. totalSupply' \in Int
  BY <1>1, <1>3
<1>7. moduleTally' = balances'
  <2>1. moduleTally' \in [Wallets -> Int]
    BY <1>1, <1>3 DEF AfterUpdate
  <2>2. \A w \in Wallets : moduleTally'[w] = balances'[w]
    <3> TAKE w \in Wallets
    <3>1. CASE from = None
      BY <3>1, <1>1, <1>3 DEF AfterUpdate
    <3>2. CASE from # None /\ to = None
      BY <3>2, <1>1, <1>3 DEF AfterUpdate
    <3>3. CASE from # None /\ to # None
      BY <3>3, <1>1, <1>3 DEF AfterUpdate
    <3> QED
      BY <3>1, <3>2, <3>3
  <2> QED
    BY <2>1, <2>2, <1>5
<1>8. totalSupply' = SumFunction(balances')
  <2>1. totalSupply = SumFunction(balances) /\ SumFunction(balances) \in Int
    BY <1>1, SumIsInteger DEF TokenInv, SupplyIsSum
  <2>2. balances \in [Wallets -> Int] /\ balances' \in [Wallets -> Int]
    BY <1>1, <1>5
  <2>3. CASE from = None
    <3>1. to \in Wallets /\ \A w \in Wallets \ {to} : balances'[w] = balances[w]
      BY <1>1, <1>3, <2>3
    <3>2. SumFunction(balances') = SumFunction(balances) - balances[to] + balances'[to]
      BY <2>2, <3>1, SumChanged
    <3>3. balances'[to] = balances[to] + a /\ totalSupply' = totalSupply + a
      BY <1>1, <1>3, <2>3, <3>1
    <3> QED
      BY <1>1, <2>1, <3>1, <3>2, <3>3
  <2>4. CASE to = None
    <3>1. from \in Wallets /\ \A w \in Wallets \ {from} : balances'[w] = balances[w]
      BY <1>1, <1>3, <2>4
    <3>2. SumFunction(balances') = SumFunction(balances) - balances[from] + balances'[from]
      BY <2>2, <3>1, SumChanged
    <3>3. balances'[from] = balances[from] - a /\ totalSupply' = totalSupply - a
      BY <1>1, <1>3, <2>4, <3>1
    <3> QED
      BY <1>1, <2>1, <3>1, <3>2, <3>3
  <2>5. CASE from \in Wallets /\ to \in Wallets
    <3> DEFINE mid == [balances EXCEPT ![from] = balances[from] - a]
    <3>1. /\ mid \in [Wallets -> Int]
          /\ \A w \in Wallets \ {from} : mid[w] = balances[w]
          /\ mid[from] = balances[from] - a
      BY <1>1, <2>2, <2>5
    <3> HIDE DEF mid
    <3>2. /\ \A w \in Wallets \ {to} : balances'[w] = mid[w]
          /\ balances'[to] = mid[to] + a
      BY <1>1, <1>3, <2>5, <3>1
    <3>3. SumFunction(mid) = SumFunction(balances) - balances[from] + mid[from]
      BY <2>2, <2>5, <3>1, SumChanged
    <3>4. SumFunction(balances') = SumFunction(mid) - mid[to] + balances'[to]
      BY <2>2, <2>5, <3>1, <3>2, SumChanged
    <3>5. totalSupply' = totalSupply
      BY <1>1, <1>3, <2>5
    <3> QED
      BY <1>1, <2>1, <2>5, <3>1, <3>2, <3>3, <3>4, <3>5
  <2> QED
    BY <2>3, <2>4, <2>5
<1> QED
  BY <1>3, <1>4, <1>5, <1>6, <1>7, <1>8

\* What is left to show of a transaction that runs one update.
LEMMA UpdateInv ==
    ASSUME TokenInv, NEW from \in Wallets \cup {None}, NEW to \in Wallets \cup {None},
           from # None \/ to # None, NEW a \in Nat, Update(from, to, a),
           frozen' \subseteq Wallets,
           frozenTokens' \in [Wallets -> Nat],
           \A w \in Wallets : frozenTokens'[w] <= balances'[w]
    PROVE  TokenInv'
<1>1. /\ balances' \in [Wallets -> Nat]
      /\ totalSupply' \in Int
      /\ moduleTally' = balances'
      /\ totalSupply' = SumFunction(balances')
      /\ UNCHANGED <<paused, registryVars>>
  BY UpdateFacts
<1>2. TokenTypeOK'
  BY <1>1 DEF TokenInv, TokenTypeOK, RecoveryTypeOK, registryVars
<1>3. FrozenWithinBalance' /\ TallyMirrorsLedger' /\ LostNeverEligible'
  BY <1>1 DEF TokenInv, FrozenWithinBalance, TallyMirrorsLedger, LostNeverEligible, registryVars
<1>4. SupplyIsSum'
  BY <1>1 DEF SupplyIsSum
<1> QED
  BY <1>2, <1>3, <1>4 DEF TokenInv

-----------------------------------------------------------------------------
(* The transactions on the ledger.                                         *)

\* A mint keeps the invariant.
LEMMA MintInv ==
    ASSUME TokenInv, NEW to \in Wallets, NEW a \in Amounts, Mint(to, a)
    PROVE  TokenInv'
<1>1. Update(None, to, a) /\ UNCHANGED <<frozen, frozenTokens>>
  BY DEF Mint, custodianVars
<1>2. /\ \A w \in Wallets : balances'[w] >= balances[w]
      /\ balances' \in [Wallets -> Nat]
  BY <1>1, UpdateFacts DEF TokenInv, TokenTypeOK
<1>3. \A w \in Wallets : frozenTokens[w] <= balances[w]
  BY DEF TokenInv, FrozenWithinBalance
<1>4. \A w \in Wallets : frozenTokens'[w] <= balances'[w]
  BY <1>1, <1>2, <1>3 DEF TokenInv, TokenTypeOK
<1> QED
  BY <1>1, <1>4, UpdateInv DEF TokenInv, TokenTypeOK

\* A holder's transfer or redemption takes what is available at most.
LEMMA HolderInv ==
    ASSUME TokenInv, NEW from \in Wallets, NEW to \in Wallets \cup {None},
           NEW a \in Nat, Available(from) >= a, Update(from, to, a),
           UNCHANGED <<frozen, frozenTokens>>
    PROVE  TokenInv'
<1>1. /\ \A w \in Wallets : balances'[w] >= balances[w] - (IF w = from THEN a ELSE 0)
      /\ balances' \in [Wallets -> Nat]
  BY UpdateFacts
<1>2. /\ \A w \in Wallets : frozenTokens[w] <= balances[w]
      /\ balances \in [Wallets -> Nat]
      /\ frozenTokens \in [Wallets -> Nat]
      /\ frozen \subseteq Wallets
  BY DEF TokenInv, FrozenWithinBalance, TokenTypeOK
<1>3. \A w \in Wallets : frozenTokens'[w] <= balances'[w]
  BY <1>1, <1>2 DEF Available
<1> QED
  BY <1>2, <1>3, UpdateInv

\* A forced transfer or a burn that digs into the frozen amount leaves as much
\* frozen as remains.
LEMMA TakingInv ==
    ASSUME TokenInv, NEW from \in Wallets, NEW to \in Wallets \cup {None},
           NEW a \in Amounts, Update(from, to, a),
           frozenTokens' = FrozenAfterTaking(from, a), UNCHANGED frozen
    PROVE  TokenInv'
<1>1. /\ \A w \in Wallets : balances'[w] >= balances[w] - (IF w = from THEN a ELSE 0)
      /\ balances' \in [Wallets -> Nat]
  BY UpdateFacts
<1>2. /\ \A w \in Wallets : frozenTokens[w] <= balances[w]
      /\ balances \in [Wallets -> Nat]
      /\ frozenTokens \in [Wallets -> Nat]
      /\ frozen \subseteq Wallets
  BY DEF TokenInv, FrozenWithinBalance, TokenTypeOK
<1>3. balances[from] >= a
  BY DEF Update, CanUpdate
<1>4. /\ frozenTokens' \in [Wallets -> Nat]
      /\ \A w \in Wallets : frozenTokens'[w] <= balances[w] - (IF w = from THEN a ELSE 0)
  <2>1. CASE a > Available(from)
    <3>1. frozenTokens' = [frozenTokens EXCEPT ![from] = @ - (a - Available(from))]
      BY <2>1 DEF FrozenAfterTaking
    <3>2. frozenTokens[from] - (a - Available(from)) = balances[from] - a
      BY <1>2 DEF Available
    <3>3. frozenTokens' = [frozenTokens EXCEPT ![from] = balances[from] - a]
      BY <3>1, <3>2
    <3> QED
      BY <3>3, <1>2, <1>3
  <2>2. CASE ~(a > Available(from))
    <3>1. frozenTokens' = frozenTokens
      BY <2>2 DEF FrozenAfterTaking
    <3> QED
      BY <3>1, <2>2, <1>2 DEF Available
  <2> QED
    BY <2>1, <2>2
<1>5. \A w \in Wallets : frozenTokens'[w] <= balances'[w]
  BY <1>1, <1>2, <1>4
<1> QED
  BY <1>2, <1>4, <1>5, UpdateInv

\* The replacement receives at least as much as it gets frozen.
LEMMA RecoverTokensInv ==
    ASSUME TokenInv, NEW l \in Wallets, NEW n \in Wallets, RecoverTokens(l, n)
    PROVE  TokenInv'
<1> DEFINE a == balances[l]
<1>1. /\ Update(l, n, a)
      /\ frozenTokens' = IF frozenTokens[l] > 0
                         THEN [[frozenTokens EXCEPT ![l] = 0] EXCEPT ![n] = frozenTokens[l]]
                         ELSE frozenTokens
      /\ frozen' = IF l \in frozen THEN (frozen \cup {n}) \ {l} ELSE frozen \ {n}
  BY DEF RecoverTokens
<1>2. /\ \A w \in Wallets : frozenTokens[w] <= balances[w]
      /\ balances \in [Wallets -> Nat]
      /\ frozenTokens \in [Wallets -> Nat]
      /\ frozen \subseteq Wallets
  BY DEF TokenInv, FrozenWithinBalance, TokenTypeOK
<1>3. /\ balances' \in [Wallets -> Nat]
      /\ \A w \in Wallets : balances'[w] = balances[w]
            - (IF w = l THEN a ELSE 0) + (IF w = n THEN a ELSE 0)
  <2>1. a \in Nat
    BY <1>2
  <2>2. balances' \in [Wallets -> Nat]
    BY <1>1, <2>1, UpdateFacts
  <2> QED
    BY <2>2, <1>1 DEF Update
<1>4. /\ frozen' \subseteq Wallets
      /\ frozenTokens' \in [Wallets -> Nat]
  BY <1>1, <1>2
<1>5. \A w \in Wallets : frozenTokens'[w] <= balances'[w]
  <2>1. CASE frozenTokens[l] > 0
    <3>1. /\ frozenTokens'[n] = frozenTokens[l]
          /\ l # n => frozenTokens'[l] = 0
          /\ \A w \in Wallets \ {l, n} : frozenTokens'[w] = frozenTokens[w]
      BY <2>1, <1>1, <1>2
    <3> QED
      BY <3>1, <1>2, <1>3
  <2>2. CASE ~(frozenTokens[l] > 0)
    <3>1. frozenTokens' = frozenTokens /\ frozenTokens[l] = 0
      BY <2>2, <1>1, <1>2
    <3> QED
      BY <3>1, <1>2, <1>3
  <2> QED
    BY <2>1, <2>2
<1>6. a \in Nat
  BY <1>2
<1> QED
  BY <1>1, <1>4, <1>5, <1>6, UpdateInv

-----------------------------------------------------------------------------
(* The other steps.                                                        *)

\* Freezes and pauses keep the invariant.
LEMMA SwitchInv ==
    ASSUME TokenInv, SwitchStep
    PROVE  TokenInv'
<1>1. /\ \A w \in Wallets : frozenTokens[w] <= balances[w]
      /\ balances \in [Wallets -> Nat]
      /\ frozenTokens \in [Wallets -> Nat]
      /\ frozen \subseteq Wallets
      /\ paused \in BOOLEAN
  BY DEF TokenInv, FrozenWithinBalance, TokenTypeOK
<1>2. UNCHANGED <<ledgerVars, registryVars>>
  BY DEF SwitchStep, SetAddressFrozen, FreezePartialTokens, UnfreezePartialTokens,
         Pause, Unpause
<1> DEFINE Switched == /\ frozen' \subseteq Wallets
                       /\ paused' \in BOOLEAN
                       /\ frozenTokens' \in [Wallets -> Nat]
                       /\ \A w \in Wallets : frozenTokens'[w] <= balances[w]
<1>3. Switched
  <2>1. ASSUME NEW w \in Wallets, NEW f \in BOOLEAN, SetAddressFrozen(w, f)
        PROVE  Switched
    BY <2>1, <1>1 DEF SetAddressFrozen
  <2>2. ASSUME NEW w \in Wallets, NEW a \in Amounts, FreezePartialTokens(w, a)
        PROVE  Switched
    BY <2>2, <1>1 DEF FreezePartialTokens, Available
  <2>3. ASSUME NEW w \in Wallets, NEW a \in Amounts, UnfreezePartialTokens(w, a)
        PROVE  Switched
    BY <2>3, <1>1 DEF UnfreezePartialTokens
  <2>4. ASSUME Pause \/ Unpause
        PROVE  Switched
    BY <2>4, <1>1 DEF Pause, Unpause, custodianVars
  <2> QED
    BY <2>1, <2>2, <2>3, <2>4 DEF SwitchStep
<1>4. TokenTypeOK'
  BY <1>2, <1>3 DEF TokenInv, TokenTypeOK, RecoveryTypeOK, ledgerVars, registryVars
<1>5. FrozenWithinBalance' /\ TallyMirrorsLedger' /\ LostNeverEligible'
  BY <1>2, <1>3 DEF TokenInv, FrozenWithinBalance, TallyMirrorsLedger, LostNeverEligible,
                    ledgerVars, registryVars
<1>6. SupplyIsSum'
  BY <1>2 DEF TokenInv, SupplyIsSum, ledgerVars
<1> QED
  BY <1>4, <1>5, <1>6 DEF TokenInv

\* What happens in the registry keeps the invariant of the token.
LEMMA RegistryStepInv ==
    ASSUME TokenInv, RegistryStep
    PROVE  TokenInv'
<1>1. UNCHANGED <<ledgerVars, custodianVars, paused>>
  BY DEF RegistryStep, RecoverWallet, ForgetWallets, ChangeEligibility
<1>2. /\ lost \subseteq Wallets
      /\ link \in [Wallets -> Wallets \cup {None}]
      /\ eligible \subseteq Wallets
      /\ eligible \cap lost = {}
  BY DEF TokenInv, TokenTypeOK, RecoveryTypeOK, LostNeverEligible
<1>3. /\ lost' \subseteq Wallets
      /\ link' \in [Wallets -> Wallets \cup {None}]
      /\ eligible' \subseteq Wallets
      /\ eligible' \cap lost' = {}
  <2>1. CASE \E l, n \in Wallets : RecoverWallet(l, n)
    BY <2>1, <1>2 DEF RecoverWallet, Recover
  <2>2. CASE \E ws \in SUBSET Wallets : ForgetWallets(ws)
    BY <2>2, <1>2 DEF ForgetWallets, Forget
  <2>3. CASE \E e \in SUBSET Wallets : ChangeEligibility(e)
    BY <2>3, <1>2 DEF ChangeEligibility
  <2> QED
    BY <2>1, <2>2, <2>3 DEF RegistryStep
<1>4. TokenTypeOK'
  BY <1>1, <1>3 DEF TokenInv, TokenTypeOK, RecoveryTypeOK, ledgerVars, custodianVars
<1>5. FrozenWithinBalance' /\ TallyMirrorsLedger' /\ LostNeverEligible'
  BY <1>1, <1>3 DEF TokenInv, FrozenWithinBalance, TallyMirrorsLedger, LostNeverEligible,
                    ledgerVars, custodianVars
<1>6. SupplyIsSum'
  BY <1>1 DEF TokenInv, SupplyIsSum, ledgerVars
<1> QED
  BY <1>4, <1>5, <1>6 DEF TokenInv

\* A new token satisfies the invariant.
LEMMA TokenInitInv == TokenInit => TokenInv
<1> SUFFICES ASSUME TokenInit PROVE TokenInv
  OBVIOUS
<1>1. balances = [w \in Wallets |-> 0] /\ frozenTokens = [w \in Wallets |-> 0]
  BY DEF TokenInit
<1>2. TokenTypeOK
  <2>1. RecoveryTypeOK
    BY DEF TokenInit, RecoveryInit, RecoveryTypeOK
  <2>2. balances \in [Wallets -> Nat] /\ frozenTokens \in [Wallets -> Nat]
    BY <1>1
  <2>3. moduleTally \in [Wallets -> Nat]
    BY DEF TokenInit
  <2>4. totalSupply = 0 /\ frozen = {} /\ eligible = {}
    BY DEF TokenInit
  <2>5. totalSupply \in Int /\ frozen \subseteq Wallets /\ eligible \subseteq Wallets
    BY <2>4
  <2>6. paused \in BOOLEAN
    BY Zenon DEF TokenInit
  <2> QED
    BY <2>1, <2>2, <2>3, <2>5, <2>6, Zenon DEF TokenTypeOK
<1>3. FrozenWithinBalance
  <2>1. ASSUME NEW w \in Wallets PROVE frozenTokens[w] <= balances[w]
    <3>1. frozenTokens[w] = 0 /\ balances[w] = 0
      BY <1>1
    <3> QED
      BY <3>1
  <2> QED
    BY <2>1 DEF FrozenWithinBalance
<1>4. TallyMirrorsLedger
  BY DEF TokenInit, TallyMirrorsLedger
<1>5. LostNeverEligible
  BY DEF TokenInit, LostNeverEligible
<1>6. SupplyIsSum
  BY <1>1, SumOfZeros DEF TokenInit, SupplyIsSum
<1> QED
  BY <1>2, <1>3, <1>4, <1>5, <1>6 DEF TokenInv

\* Every transaction of the token keeps the invariant.
LEMMA TokenStepInv == TokenInv /\ [TokenNext]_tokenVars => TokenInv'
<1> SUFFICES ASSUME TokenInv, [TokenNext]_tokenVars PROVE TokenInv'
  OBVIOUS
<1>1. CASE \E to \in Wallets, a \in Amounts : Mint(to, a)
  BY <1>1, MintInv
<1>2. ASSUME NEW from \in Wallets, NEW to \in Wallets, NEW a \in Amounts,
             Transfer(from, to, a)
      PROVE  TokenInv'
  BY <1>2, HolderInv DEF Transfer, custodianVars
<1>3. ASSUME NEW w \in Wallets, NEW a \in Amounts, Redeem(w, a)
      PROVE  TokenInv'
  BY <1>3, HolderInv DEF Redeem, custodianVars
<1>4. ASSUME NEW w \in Wallets, Redeem(w, balances[w])
      PROVE  TokenInv'
  <2>1. balances[w] \in Nat
    BY DEF TokenInv, TokenTypeOK
  <2> QED
    BY <1>4, <2>1, HolderInv DEF Redeem, custodianVars
<1>5. ASSUME NEW from \in Wallets, NEW to \in Wallets \cup {None}, NEW a \in Amounts,
             ForcedTransfer(from, to, a)
      PROVE  TokenInv'
  BY <1>5, TakingInv DEF ForcedTransfer
<1>6. ASSUME NEW w \in Wallets, NEW a \in Amounts, Burn(w, a)
      PROVE  TokenInv'
  BY <1>6, TakingInv DEF Burn
<1>7. CASE CustodialStep
  BY <1>5, <1>6, <1>7, RecoverTokensInv DEF CustodialStep
<1>8. CASE UNCHANGED tokenVars
  BY <1>8 DEF tokenVars, ledgerVars, custodianVars, registryVars, TokenInv, TokenTypeOK,
              RecoveryTypeOK, FrozenWithinBalance, TallyMirrorsLedger, LostNeverEligible,
              SupplyIsSum
<1> QED
  BY <1>1, <1>2, <1>3, <1>7, <1>8, <1>4, SwitchInv, RegistryStepInv
     DEF TokenNext, OrdinaryStep

-----------------------------------------------------------------------------
(* The theorems.                                                           *)

\* The invariant holds in every state of every run of the token.
THEOREM TokenInvariant == TokenSpec => []TokenInv
<1> QED
  BY TokenInitInv, TokenStepInv, PTL DEF TokenSpec

\* No wallet ever has more frozen than it holds, so the available balance the
\* hooks compute never underflows.
THEOREM FrozenNeverExceedsBalance == TokenSpec => []FrozenWithinBalance
<1>1. TokenInv => FrozenWithinBalance
  BY DEF TokenInv
<1> QED
  BY <1>1, TokenInvariant, PTL

\* The compliance callbacks account for every path of _update.
THEOREM CallbacksAccountForLedger == TokenSpec => []TallyMirrorsLedger
<1>1. TokenInv => TallyMirrorsLedger
  BY DEF TokenInv
<1> QED
  BY <1>1, TokenInvariant, PTL

\* No mint, burn, transfer, redemption or recovery makes or loses tokens on the
\* way: the supply is the sum of what the wallets hold.
THEOREM SupplyIsSumOfBalances == TokenSpec => []SupplyIsSum
<1>1. TokenInv => SupplyIsSum
  BY DEF TokenInv
<1> QED
  BY <1>1, TokenInvariant, PTL

\* While paused, nothing at all moves.
THEOREM PauseStopsEverything == TokenSpec => PausedLedgerStandsStill
<1>1. [TokenNext]_tokenVars => [paused => UNCHANGED <<balances, totalSupply>>]_tokenVars
  BY DEF TokenNext, OrdinaryStep, Mint, Transfer, Redeem, CustodialStep, ForcedTransfer, Burn,
         RecoverTokens, Update, CanUpdate, SwitchStep, SetAddressFrozen,
         FreezePartialTokens, UnfreezePartialTokens, Pause, Unpause, RegistryStep,
         RecoverWallet, ForgetWallets, ChangeEligibility, ledgerVars, tokenVars
<1> QED
  BY <1>1, PTL DEF TokenSpec, PausedLedgerStandsStill

\* A holder's own transaction moves what is available of an unfrozen wallet.
LEMMA HolderTakesAvailable ==
    ASSUME TokenInv, NEW from \in Wallets, NEW to \in Wallets \cup {None}, NEW a \in Nat,
           Update(from, to, a), from \notin frozen, Available(from) >= a,
           NEW w \in Wallets, balances'[w] < balances[w]
    PROVE  w \notin frozen /\ balances'[w] >= frozenTokens[w]
<1>1. /\ balances \in [Wallets -> Nat] /\ frozenTokens \in [Wallets -> Nat]
      /\ balances' \in [Wallets -> Nat]
      /\ \A x \in Wallets : balances'[x] >= balances[x] - (IF x = from THEN a ELSE 0)
  BY UpdateFacts DEF TokenInv, TokenTypeOK
<1>2. w = from
  BY <1>1
<1> QED
  BY <1>1, <1>2 DEF Available

\* Nothing but a custodial transaction takes what a freeze keeps in a wallet.
LEMMA FrozenTokensStay ==
    ASSUME TokenInv, OrdinaryStep, NEW w \in Wallets
    PROVE  ~(balances'[w] < HeldBack(w))
<1>1. /\ balances \in [Wallets -> Nat] /\ frozenTokens \in [Wallets -> Nat]
      /\ frozenTokens[w] <= balances[w]
  BY DEF TokenInv, TokenTypeOK, FrozenWithinBalance
<1>2. HeldBack(w) \in Nat /\ HeldBack(w) <= balances[w]
      /\ (w \notin frozen => HeldBack(w) = frozenTokens[w])
  BY <1>1 DEF HeldBack
<1>3. ASSUME balances'[w] \in Nat, balances'[w] >= balances[w]
      PROVE  ~(balances'[w] < HeldBack(w))
  BY <1>1, <1>2, <1>3
<1>4. ASSUME NEW to \in Wallets, NEW a \in Amounts, Mint(to, a)
      PROVE  ~(balances'[w] < HeldBack(w))
  <2>1. balances' \in [Wallets -> Nat] /\ balances'[w] >= balances[w] - 0
    BY <1>1, <1>4, UpdateFacts DEF Mint
  <2>2. balances'[w] >= balances[w]
    BY <1>1, <2>1
  <2> QED
    BY <1>3, <2>1, <2>2
<1>5. ASSUME NEW from \in Wallets, NEW to \in Wallets \cup {None}, NEW a \in Nat,
             Update(from, to, a), from \notin frozen, Available(from) >= a
      PROVE  ~(balances'[w] < HeldBack(w))
  <2>1. balances' \in [Wallets -> Nat]
    BY <1>5, UpdateFacts
  <2>2. CASE balances'[w] < balances[w]
    <3>1. w \notin frozen /\ balances'[w] >= frozenTokens[w]
      BY <1>5, <2>2, HolderTakesAvailable
    <3> QED
      BY <1>1, <1>2, <2>1, <3>1
  <2> QED
    BY <1>1, <1>3, <2>1, <2>2
<1>6. CASE SwitchStep \/ RegistryStep
  <2>1. UNCHANGED balances
    BY <1>6 DEF SwitchStep, SetAddressFrozen, FreezePartialTokens, UnfreezePartialTokens,
          Pause, Unpause, RegistryStep, RecoverWallet, ForgetWallets, ChangeEligibility,
          ledgerVars
  <2> QED
    BY <1>1, <1>3, <2>1
<1>7. ASSUME NEW from \in Wallets, NEW to \in Wallets, NEW a \in Amounts, Transfer(from, to, a)
      PROVE  ~(balances'[w] < HeldBack(w))
  BY <1>5, <1>7 DEF Transfer
<1>8. ASSUME NEW v \in Wallets, NEW a \in Nat, Redeem(v, a)
      PROVE  ~(balances'[w] < HeldBack(w))
  BY <1>5, <1>8 DEF Redeem
<1> QED
  BY <1>1, <1>4, <1>6, <1>7, <1>8 DEF OrdinaryStep

\* No ordinary transaction takes what a freeze keeps in a wallet, whatever was
\* frozen, moved and minted before.
THEOREM FrozenTokensNeedForce == TokenSpec => FrozenTokensLeaveOnlyByForce
<1>1. TokenInv /\ [TokenNext]_tokenVars
        => [\A w \in Wallets : balances'[w] < HeldBack(w) => ~OrdinaryStep]_tokenVars
  BY FrozenTokensStay
<1> QED
  BY <1>1, TokenInvariant, PTL DEF TokenSpec, FrozenTokensLeaveOnlyByForce

(***************************************************************************)
(* A bond behaves as a token, so what is proved of the token holds of it;  *)
(* and the cover of a matured bond survives everything but the issuer, for *)
(* any face value, any decimals and any sequence of redemptions.           *)
(***************************************************************************)

USE BondAssumption

-----------------------------------------------------------------------------
(* What bonds are worth, rounded down.                                     *)

\* Bonds are worth a whole amount.
LEMMA UnderlyingForType ==
    ASSUME NEW a \in Int
    PROVE  UnderlyingFor(a) \in Int
<1>1. a * FaceValue \in Int
  OBVIOUS
<1> QED
  BY <1>1, DivisionBounds DEF UnderlyingFor

\* Bonds are never worth a negative amount.
LEMMA UnderlyingForNat ==
    ASSUME NEW a \in Nat
    PROVE  UnderlyingFor(a) \in Nat
<1>1. a * FaceValue \in Nat /\ Unit * 0 <= a * FaceValue
  OBVIOUS
<1>2. 0 <= (a * FaceValue) \div Unit
  BY <1>1, QuotientAtMost
<1> QED
  BY <1>2, UnderlyingForType DEF UnderlyingFor

\* Two lots rounded down apart are worth at most what they are worth together.
LEMMA PartsAtMostWhole ==
    ASSUME NEW a \in Int, NEW b \in Int
    PROVE  UnderlyingFor(a) + UnderlyingFor(b) <= UnderlyingFor(a + b)
<1>1. a * FaceValue \in Int /\ b * FaceValue \in Int
      /\ (a + b) * FaceValue = a * FaceValue + b * FaceValue
  OBVIOUS
<1> DEFINE x == a * FaceValue
           y == b * FaceValue
<1> HIDE DEF x, y
<1>2. (x \div Unit) + (y \div Unit) <= (x + y) \div Unit
  BY <1>1, QuotientsOfParts DEF x, y
<1> QED
  BY <1>1, <1>2 DEF UnderlyingFor, x, y

\* Fewer bonds need no more underlying asset.
LEMMA FewerNeedNoMore ==
    ASSUME NEW a \in Int, NEW b \in Int, a <= b
    PROVE  UnderlyingFor(a) <= UnderlyingFor(b)
<1>1. b - a \in Nat /\ a + (b - a) = b
  OBVIOUS
<1>2. UnderlyingFor(a) + UnderlyingFor(b - a) <= UnderlyingFor(b)
  <2>1. UnderlyingFor(a) + UnderlyingFor(b - a) <= UnderlyingFor(a + (b - a))
    BY <1>1, PartsAtMostWhole
  <2> QED
    BY <1>1, <2>1
<1> QED
  BY <1>1, <1>2, UnderlyingForNat, UnderlyingForType

-----------------------------------------------------------------------------
(* A bond is a token.                                                      *)

\* Every transaction of a bond is one of the token, or leaves the token alone.
LEMMA BondStepIsTokenStep == [BondNext]_vars => [TokenNext]_tokenVars
<1> SUFFICES ASSUME BondNext PROVE TokenNext \/ UNCHANGED tokenVars
  BY DEF vars
<1>1. CASE IssuerStep
  BY <1>1 DEF IssuerStep, RecoverERC20, BondMint, TokenNext, OrdinaryStep
<1>2. CASE HolderStep
  BY <1>2 DEF HolderStep, BondTransfer, RedeemBonds, TokenNext, OrdinaryStep
<1>3. CASE BondCustodialStep
  BY <1>3 DEF BondCustodialStep, BondForcedTransfer, BondBurn, BondRecoverTokens,
              TokenNext, CustodialStep
<1>4. CASE SwitchStep \/ RegistryStep
  BY <1>4 DEF TokenNext, OrdinaryStep
<1>5. CASE \/ Mature
           \/ \E d \in YieldDates : SetYieldSchedule(d)
           \/ \E a \in Amounts : Fund(a)
           \/ Tick
           \/ \E limits \in [Wallets -> RefusalLimits] : ChangeRefusals(limits)
  BY <1>5 DEF Mature, SetYieldSchedule, Fund, Tick, ChangeRefusals
<1> QED
  BY <1>1, <1>2, <1>3, <1>4, <1>5 DEF BondNext

\* Every run of a bond is a run of the token: the hooks a bond adds only
\* refuse some of the token's transactions.
THEOREM BondImplementsToken == BondSpec => TokenSpec
<1>1. BondInit => TokenInit
  BY DEF BondInit
<1> QED
  BY <1>1, BondStepIsTokenStep, PTL DEF BondSpec, TokenSpec

-----------------------------------------------------------------------------
(* The supply and the types.                                               *)

\* Nobody but the issuer makes bonds.
LEMMA SupplyGrowsByIssuer ==
    ASSUME TokenInv, [BondNext]_vars, ~IssuerStep
    PROVE  totalSupply' \in Int /\ totalSupply' <= totalSupply
<1>1. totalSupply \in Int /\ balances \in [Wallets -> Nat]
  BY DEF TokenInv, TokenTypeOK
<1>2. ASSUME NEW from \in Wallets, NEW to \in Wallets \cup {None}, NEW a \in Nat,
             Update(from, to, a)
      PROVE  totalSupply' \in Int /\ totalSupply' <= totalSupply
  BY <1>1, <1>2 DEF Update
<1>3. CASE HolderStep
  BY <1>1, <1>2, <1>3 DEF HolderStep, BondTransfer, Transfer, RedeemBonds, Redeem
<1>4. CASE BondCustodialStep
  BY <1>1, <1>2, <1>4 DEF BondCustodialStep, BondForcedTransfer, ForcedTransfer, BondBurn,
                          Burn, BondRecoverTokens, RecoverTokens
<1>5. CASE SwitchStep \/ RegistryStep
  BY <1>1, <1>5 DEF SwitchStep, SetAddressFrozen, FreezePartialTokens,
                    UnfreezePartialTokens, Pause, Unpause, RegistryStep, RecoverWallet,
                    ForgetWallets, ChangeEligibility, ledgerVars
<1>6. CASE \/ Mature
           \/ \E d \in YieldDates : SetYieldSchedule(d)
           \/ \E a \in Amounts : Fund(a)
           \/ Tick
           \/ \E limits \in [Wallets -> RefusalLimits] : ChangeRefusals(limits)
           \/ UNCHANGED vars
  BY <1>1, <1>6 DEF Mature, SetYieldSchedule, Fund, Tick, ChangeRefusals, vars, tokenVars, ledgerVars
<1> QED
  BY <1>3, <1>4, <1>5, <1>6 DEF BondNext

BondInv ==
    /\ TokenInv
    /\ BondTypeOK
    /\ SupplyWithinCap
    /\ PartsNeverPayMore

\* A new bond satisfies the invariant.
LEMMA BondInitInv == BondInit => BondInv
<1> SUFFICES ASSUME BondInit PROVE BondInv
  OBVIOUS
<1>1. TokenInv /\ TokenTypeOK
  BY TokenInitInv DEF BondInit, TokenInv
<1>2. now = 0 /\ underlying = 0 /\ paidOut = 0 /\ totalSupply = 0 /\ yieldStart = None
  BY DEF BondInit, TokenInit
<1>3. isMatured \in BOOLEAN
  BY Zenon DEF BondInit
<1>4. bondRedeemed \in [Wallets -> Nat]
  BY DEF BondInit
<1>5. now \in Nat /\ underlying \in Nat /\ paidOut \in Nat /\ yieldStart \in Nat \cup {None}
  BY <1>2
<1>6. BondTypeOK
  <2>1. refusedFrom \in [Wallets -> Nat]
    BY DEF BondInit
  <2> QED
    BY <1>1, <1>3, <1>4, <1>5, <2>1, Zenon DEF BondTypeOK
<1>7. SupplyWithinCap
  BY <1>2 DEF SupplyWithinCap
<1>8. PartsNeverPayMore
  <2>1. TotalRedeemed = 0
    BY SumOfZeros DEF BondInit, TotalRedeemed
  <2> QED
    BY <1>2, <2>1, UnderlyingForNat DEF PartsNeverPayMore
<1> QED
  BY <1>1, <1>6, <1>7, <1>8 DEF BondInv

\* What a step leaves of the types of the bond's own state.
LEMMA BondStepTypes ==
    ASSUME BondInv, BondNext
    PROVE  /\ isMatured' \in BOOLEAN
           /\ now' \in Nat
           /\ underlying' \in Nat
           /\ bondRedeemed' \in [Wallets -> Nat]
           /\ paidOut' \in Nat
           /\ yieldStart' \in Nat \cup {None}
           /\ refusedFrom' \in [Wallets -> Nat]
<1> DEFINE Typed == /\ isMatured' \in BOOLEAN
                    /\ now' \in Nat
                    /\ underlying' \in Nat
                    /\ bondRedeemed' \in [Wallets -> Nat]
                    /\ paidOut' \in Nat
                    /\ yieldStart' \in Nat \cup {None}
                    /\ refusedFrom' \in [Wallets -> Nat]
<1>1. /\ isMatured \in BOOLEAN
      /\ now \in Nat
      /\ underlying \in Nat
      /\ bondRedeemed \in [Wallets -> Nat]
      /\ paidOut \in Nat
      /\ yieldStart \in Nat \cup {None}
      /\ refusedFrom \in [Wallets -> Nat]
      /\ balances \in [Wallets -> Nat]
  BY DEF BondInv, BondTypeOK, TokenTypeOK
<1>2. CASE UNCHANGED bondVars
  BY <1>1, <1>2 DEF bondVars, issueVars, worldVars, paymentVars
<1>3. ASSUME NEW a \in Amounts, RecoverERC20(a)
      PROVE  Typed
  BY <1>1, <1>3 DEF RecoverERC20, issueVars, worldVars
<1>4. ASSUME NEW w \in Wallets, NEW a \in Nat, RedeemBonds(w, a)
      PROVE  Typed
  <2>1. UnderlyingFor(a) \in Nat /\ underlying >= UnderlyingFor(a)
    BY <1>4, UnderlyingForNat DEF RedeemBonds, CanRedeemBonds, CanPay
  <2>2. underlying' = underlying - UnderlyingFor(a) /\ paidOut' = paidOut + UnderlyingFor(a)
    BY <1>4 DEF RedeemBonds
  <2>3. bondRedeemed' \in [Wallets -> Nat]
    BY <1>1, <1>4 DEF RedeemBonds
  <2>4. UNCHANGED <<isMatured, yieldStart, now, refusedFrom>>
    BY <1>4 DEF RedeemBonds, issueVars, worldVars
  <2> QED
    BY <1>1, <2>1, <2>2, <2>3, <2>4
<1>5. CASE Mature
  <2>1. isMatured' \in BOOLEAN
    BY <1>5, Zenon DEF Mature
  <2> QED
    BY <1>1, <1>5, <2>1 DEF Mature, worldVars, paymentVars
<1>6. ASSUME NEW d \in YieldDates, SetYieldSchedule(d)
      PROVE  Typed
  BY <1>1, <1>6 DEF SetYieldSchedule, worldVars, paymentVars
<1>7. ASSUME NEW a \in Amounts, Fund(a)
      PROVE  Typed
  BY <1>1, <1>7 DEF Fund, issueVars, worldVars
<1>8. CASE Tick
  BY <1>1, <1>8 DEF Tick, issueVars, paymentVars
<1>9. CASE IssuerStep
  BY <1>2, <1>3, <1>9 DEF IssuerStep, BondMint
<1>10. CASE HolderStep
  BY <1>1, <1>2, <1>4, <1>10 DEF HolderStep, BondTransfer
<1>11. CASE BondCustodialStep
  BY <1>2, <1>11 DEF BondCustodialStep, BondForcedTransfer, BondBurn, BondRecoverTokens
<1>12. ASSUME NEW limits \in [Wallets -> RefusalLimits], ChangeRefusals(limits)
      PROVE  Typed
  <2>1. refusedFrom' \in [Wallets -> Nat]
    BY <1>12 DEF ChangeRefusals
  <2> QED
    BY <1>1, <1>12, <2>1 DEF ChangeRefusals, issueVars, paymentVars
<1> QED
  BY <1>2, <1>5, <1>6, <1>7, <1>8, <1>9, <1>10, <1>11, <1>12 DEF BondNext

\* A redemption adds to what has been redeemed and pays it, rounded down.
LEMMA RedemptionPays ==
    ASSUME BondInv, NEW w \in Wallets, NEW a \in Nat, RedeemBonds(w, a)
    PROVE  PartsNeverPayMore'
<1>1. /\ bondRedeemed \in [Wallets -> Nat] /\ bondRedeemed' \in [Wallets -> Nat]
      /\ bondRedeemed'[w] = bondRedeemed[w] + a
      /\ \A v \in Wallets \ {w} : bondRedeemed'[v] = bondRedeemed[v]
      /\ paidOut \in Nat
  BY DEF BondInv, BondTypeOK, RedeemBonds
<1>2. /\ bondRedeemed \in [Wallets -> Int] /\ bondRedeemed' \in [Wallets -> Int]
      /\ bondRedeemed[w] \in Nat
  BY <1>1
<1>3. SumFunction(bondRedeemed')
         = SumFunction(bondRedeemed) - bondRedeemed[w] + bondRedeemed'[w]
  BY <1>1, <1>2, SumChanged
<1>4. TotalRedeemed \in Int
  BY <1>2, SumIsInteger DEF TotalRedeemed
<1>5. TotalRedeemed' = TotalRedeemed + a
  BY <1>1, <1>2, <1>3, <1>4 DEF TotalRedeemed
<1>6. UnderlyingFor(TotalRedeemed) + UnderlyingFor(a) <= UnderlyingFor(TotalRedeemed + a)
  BY <1>4, PartsAtMostWhole
<1>7. /\ UnderlyingFor(TotalRedeemed) \in Int /\ UnderlyingFor(a) \in Int
      /\ UnderlyingFor(TotalRedeemed + a) \in Int
  BY <1>4, UnderlyingForType
<1>8. paidOut' = paidOut + UnderlyingFor(a) /\ paidOut <= UnderlyingFor(TotalRedeemed)
  BY DEF RedeemBonds, BondInv, PartsNeverPayMore
<1>9. UnderlyingFor(TotalRedeemed)' = UnderlyingFor(TotalRedeemed + a)
  BY <1>5 DEF UnderlyingFor
<1> QED
  BY <1>1, <1>6, <1>7, <1>8, <1>9 DEF PartsNeverPayMore

\* Nothing but a redemption pays.
LEMMA OthersPayNothing ==
    ASSUME BondInv, [BondNext]_vars, ~(\E w \in Wallets, a \in Nat : RedeemBonds(w, a))
    PROVE  UNCHANGED <<bondRedeemed, paidOut>>
<1>1. \A w \in Wallets : balances[w] \in Nat
  BY DEF BondInv, TokenInv, TokenTypeOK
<1>2. ~HolderStep \/ UNCHANGED bondVars
  BY <1>1 DEF HolderStep, BondTransfer
<1> QED
  BY <1>2 DEF BondNext, IssuerStep, RecoverERC20, BondMint, BondCustodialStep,
       BondForcedTransfer, BondBurn, BondRecoverTokens, Mature, SetYieldSchedule, Fund, Tick,
       ChangeRefusals, vars, bondVars, paymentVars

\* Every transaction of a bond keeps the invariant.
LEMMA BondStepInv == BondInv /\ [BondNext]_vars => BondInv'
<1> SUFFICES ASSUME BondInv, [BondNext]_vars PROVE BondInv'
  OBVIOUS
<1>1. TokenInv /\ BondTypeOK /\ SupplyWithinCap
  BY DEF BondInv
<1>2. TokenInv'
  BY <1>1, BondStepIsTokenStep, TokenStepInv
<1>3. TokenTypeOK'
  BY <1>2 DEF TokenInv
<1>4. BondTypeOK'
  <2>1. CASE BondNext
    BY <1>3, <2>1, BondStepTypes, Zenon DEF BondTypeOK
  <2>2. CASE UNCHANGED vars
    BY <1>1, <1>3, <2>2 DEF BondTypeOK, vars, bondVars, issueVars, worldVars, paymentVars
  <2> QED
    BY <2>1, <2>2
<1>5. SupplyWithinCap'
  <2>1. CASE ~IssuerStep
    <3>1. totalSupply' \in Int /\ totalSupply' <= totalSupply
      BY <1>1, <2>1, SupplyGrowsByIssuer
    <3>2. totalSupply \in Int
      BY <1>1 DEF BondTypeOK, TokenTypeOK
    <3> QED
      BY <1>1, <3>1, <3>2 DEF SupplyWithinCap
  <2>2. ASSUME NEW to \in Wallets, NEW a \in Amounts, BondMint(to, a)
        PROVE  SupplyWithinCap'
    <3>1. totalSupply \in Int /\ totalSupply + a <= Cap
      BY <1>1, <2>2 DEF BondTypeOK, TokenTypeOK, BondMint
    <3>2. totalSupply' = totalSupply + a - 0
      BY <2>2, <3>1 DEF BondMint, Mint, Update
    <3> QED
      BY <3>1, <3>2 DEF SupplyWithinCap
  <2>3. ASSUME NEW a \in Amounts, RecoverERC20(a)
        PROVE  SupplyWithinCap'
    BY <1>1, <2>3 DEF RecoverERC20, tokenVars, ledgerVars, SupplyWithinCap
  <2> QED
    BY <2>1, <2>2, <2>3 DEF IssuerStep
<1>6. PartsNeverPayMore'
  <2>1. CASE \E w \in Wallets, a \in Nat : RedeemBonds(w, a)
    BY <2>1, RedemptionPays
  <2>2. CASE ~(\E w \in Wallets, a \in Nat : RedeemBonds(w, a))
    <3>1. UNCHANGED <<bondRedeemed, paidOut>>
      BY <2>2, OthersPayNothing
    <3> QED
      BY <1>1, <3>1 DEF BondInv, PartsNeverPayMore, TotalRedeemed, UnderlyingFor
  <2> QED
    BY <2>1, <2>2
<1> QED
  BY <1>2, <1>4, <1>5, <1>6 DEF BondInv

\* The invariant of the bond, the cap and what was paid included.
THEOREM BondInvariant == BondSpec => []BondInv
<1> QED
  BY BondInitInv, BondStepInv, PTL DEF BondSpec

-----------------------------------------------------------------------------
(* The cover of a matured bond.                                            *)

\* A redemption takes out no more than the redeemed bonds needed.
LEMMA RedemptionKeepsCover ==
    ASSUME BondInv, NEW w \in Wallets, NEW a \in Nat, RedeemBonds(w, a), Covered
    PROVE  Covered'
<1>1. totalSupply \in Int /\ underlying \in Nat
  BY DEF BondInv, BondTypeOK, TokenTypeOK
<1>2. totalSupply' = totalSupply - a /\ underlying' = underlying - UnderlyingFor(a)
  <2>1. totalSupply' = totalSupply + 0 - a
    BY <1>1 DEF RedeemBonds, Redeem, Update
  <2> QED
    BY <1>1, <2>1 DEF RedeemBonds
<1>3. UnderlyingFor(totalSupply - a) + UnderlyingFor(a) <= UnderlyingFor(totalSupply)
  <2>1. totalSupply - a \in Int /\ (totalSupply - a) + a = totalSupply
    BY <1>1
  <2> QED
    BY <2>1, PartsAtMostWhole
<1>4. /\ UnderlyingFor(totalSupply - a) \in Int
      /\ UnderlyingFor(a) \in Int
      /\ UnderlyingFor(totalSupply) \in Int
  BY <1>1, UnderlyingForType
<1>5. underlying >= UnderlyingFor(totalSupply)
  BY DEF Covered, TotalUnderlyingNeeded
<1>6. underlying - UnderlyingFor(a) >= UnderlyingFor(totalSupply - a)
  BY <1>1, <1>3, <1>4, <1>5
<1>7. UnderlyingFor(totalSupply)' = UnderlyingFor(totalSupply - a)
  BY <1>2 DEF UnderlyingFor
<1> QED
  BY <1>2, <1>6, <1>7 DEF Covered, TotalUnderlyingNeeded

\* With as much underlying asset and no more bonds, cover is kept.
LEMMA CoverIsMonotone ==
    ASSUME BondInv, Covered, underlying' \in Int, underlying' >= underlying,
           totalSupply' \in Int, totalSupply' <= totalSupply
    PROVE  Covered'
<1>1. totalSupply \in Int /\ underlying \in Nat
  BY DEF BondInv, BondTypeOK, TokenTypeOK
<1>2. UnderlyingFor(totalSupply') <= UnderlyingFor(totalSupply)
  BY <1>1, FewerNeedNoMore
<1>3. UnderlyingFor(totalSupply') \in Int /\ UnderlyingFor(totalSupply) \in Int
  BY <1>1, UnderlyingForType
<1>4. underlying' >= UnderlyingFor(totalSupply')
  BY <1>1, <1>2, <1>3 DEF Covered, TotalUnderlyingNeeded
<1>5. UnderlyingFor(totalSupply)' = UnderlyingFor(totalSupply')
  BY DEF UnderlyingFor
<1> QED
  BY <1>4, <1>5 DEF Covered, TotalUnderlyingNeeded

\* A step after which a matured bond is not covered took it away from an
\* uncovered one, or is the issuer's.
LEMMA CoverStep ==
    ASSUME BondInv, [BondNext]_vars, isMatured', ~Covered'
    PROVE  (isMatured /\ ~Covered) \/ IssuerStep
<1> SUFFICES ASSUME ~IssuerStep, isMatured => Covered PROVE FALSE
  OBVIOUS
<1>1. /\ totalSupply \in Int /\ underlying \in Nat
      /\ balances \in [Wallets -> Nat]
      /\ TokenInv
  BY DEF BondInv, BondTypeOK, TokenTypeOK
<1>2. totalSupply' \in Int /\ totalSupply' <= totalSupply
  BY <1>1, SupplyGrowsByIssuer
<1>3. ASSUME UNCHANGED isMatured, underlying' \in Int, underlying' >= underlying
      PROVE  FALSE
  BY <1>2, <1>3, CoverIsMonotone
<1>4. ASSUME UNCHANGED isMatured, UNCHANGED underlying
       PROVE  FALSE
  <2>1. underlying' \in Int /\ underlying' >= underlying
    BY <1>1, <1>4
  <2> QED
    BY <1>3, <1>4, <2>1, Zenon
<1>5. CASE UNCHANGED bondVars
  BY <1>5, <1>4, Zenon DEF bondVars, issueVars, paymentVars
<1>6. ASSUME NEW w \in Wallets, NEW a \in Nat, RedeemBonds(w, a)
      PROVE  FALSE
  BY <1>6, RedemptionKeepsCover DEF RedeemBonds, CanRedeemBonds
<1>7. CASE HolderStep
  BY <1>1, <1>5, <1>6, <1>7 DEF HolderStep, BondTransfer
<1>8. CASE BondCustodialStep
  BY <1>5, <1>8 DEF BondCustodialStep, BondForcedTransfer, BondBurn, BondRecoverTokens
<1>9. CASE Mature
  <2>1. Covered
    BY <1>9 DEF Mature, Covered
  <2>2. UNCHANGED <<underlying, totalSupply>>
    BY <1>9 DEF Mature, tokenVars, ledgerVars, paymentVars
  <2> QED
    BY <1>1, <2>1, <2>2, CoverIsMonotone
<1>10. ASSUME NEW a \in Amounts, Fund(a)
      PROVE  FALSE
  <2>1. underlying' \in Int /\ underlying' >= underlying
    BY <1>1, <1>10 DEF Fund
  <2>2. UNCHANGED isMatured
    BY <1>10, Zenon DEF Fund, issueVars
  <2> QED
    BY <1>3, <2>1, <2>2, Zenon
<1>11. CASE \/ \E d \in YieldDates : SetYieldSchedule(d)
            \/ Tick
            \/ \E limits \in [Wallets -> RefusalLimits] : ChangeRefusals(limits)
  BY <1>11, <1>4, Zenon DEF SetYieldSchedule, Tick, ChangeRefusals, issueVars, paymentVars
<1>12. CASE UNCHANGED vars
  BY <1>5, <1>12 DEF vars
<1> QED
  BY <1>5, <1>7, <1>8, <1>9, <1>10, <1>11, <1>12 DEF BondNext

\* Once mature has found the bond covered, redemptions of any sizes by anyone,
\* each rounded down, and burns never leave it short: only the issuer can.
THEOREM IssuerAloneEndsCover == BondSpec => CoverLostOnlyToIssuer
<1>1. BondInv /\ [BondNext]_vars
        => [isMatured' /\ ~Covered' => (isMatured /\ ~Covered) \/ IssuerStep]_vars
  BY CoverStep
<1> QED
  BY <1>1, BondInvariant, PTL DEF BondSpec, CoverLostOnlyToIssuer

\* The cap bounds the supply whatever is burnt and minted again.
THEOREM SupplyNeverAboveCap == BondSpec => []SupplyWithinCap
<1>1. BondInv => SupplyWithinCap
  BY DEF BondInv
<1> QED
  BY <1>1, BondInvariant, PTL

\* However a holding is split into redemptions, each rounded down, no more is
\* paid than the redeemed bonds are worth together.
THEOREM PartsPaidWithinWorth == BondSpec => []PartsNeverPayMore
<1>1. BondInv => PartsNeverPayMore
  BY DEF BondInv
<1> QED
  BY <1>1, BondInvariant, PTL

\* What one wallet can offer for redemption is part of the supply that is
\* covered, so the bond can pay it.
LEMMA CoveredHolder ==
    ASSUME BondInv, isMatured, Covered, ~paused,
           NEW w \in Wallets, w \notin frozen, NEW a \in 1 .. Available(w),
           AssetAccepts(w, a)
    PROVE  CanRedeemBonds(w, a)
<1>1. /\ balances \in [Wallets -> Nat] /\ frozenTokens \in [Wallets -> Nat]
      /\ totalSupply \in Int /\ underlying \in Nat
      /\ totalSupply = SumFunction(balances)
  BY DEF BondInv, BondTypeOK, TokenInv, TokenTypeOK, SupplyIsSum
<1>2. balances[w] <= totalSupply
  BY <1>1, SummandBelowSum
<1>3. a \in Nat /\ a > 0 /\ a <= Available(w) /\ Available(w) <= balances[w]
  BY <1>1 DEF Available
<1>4. a <= totalSupply /\ a <= balances[w]
  BY <1>1, <1>2, <1>3 DEF Available
<1>5. UnderlyingFor(a) <= UnderlyingFor(totalSupply)
  BY <1>1, <1>3, <1>4, FewerNeedNoMore
<1>6. CanPay(a)
  <2>1. UnderlyingFor(a) \in Int /\ UnderlyingFor(totalSupply) \in Int
    BY <1>1, <1>3, UnderlyingForType
  <2> QED
    BY <1>1, <1>5, <2>1 DEF CanPay, Covered, TotalUnderlyingNeeded
<1>7. CanUpdate(w, a)
  <2>1. w # None
    OBVIOUS
  <2> QED
    BY <1>1, <1>3, <1>4, <2>1 DEF CanUpdate
<1> QED
  BY <1>1, <1>3, <1>6, <1>7 DEF CanRedeemBonds, Available

\* As long as a matured, unpaused bond is covered, every holder that is not
\* frozen can redeem any part of what it has free that the underlying asset
\* lets the bond pay: neither the cover, nor rounding, nor who redeemed before
\* ever stops it.
THEOREM CoverLetsHoldersRedeem == BondSpec => []CoveredHoldersCanRedeem
<1>1. BondInv => CoveredHoldersCanRedeem
  BY CoveredHolder DEF CoveredHoldersCanRedeem
<1> QED
  BY <1>1, BondInvariant, PTL

-----------------------------------------------------------------------------
(* The index of the token.                                                 *)

HIDE BondAssumption
\* Entities that were saved last with the available amount brought up to date.
Entities ==
    {bs \in [Wallets -> TokenBalanceEntities] :
        \A w \in Wallets : bs[w] = UpdateAvailableAmount(bs[w])}

IndexInv ==
    /\ TokenInv
    /\ tokenBalances \in Entities
    /\ indexedSupply \in Int
    /\ supplyRead \in Int
    /\ indexedPaused \in BOOLEAN
    /\ followed \in BOOLEAN
    /\ ~followed => supplyRead = 0
    /\ IndexNeverUnderstates
    /\ IndexedFlagsAgree

-----------------------------------------------------------------------------
(* The index is an observer.                                               *)

\* Every step of the indexed token is a step of the token, or leaves it alone.
LEMMA IndexedStepIsTokenStep == IndexedNext => [TokenNext]_tokenVars
<1> SUFFICES ASSUME IndexedNext PROVE [TokenNext]_tokenVars
  OBVIOUS
<1>1. CASE FetchToken
  BY <1>1 DEF FetchToken
<1>2. CASE UnreportedBurn
  BY <1>2 DEF UnreportedBurn, IndexedRedeem, IndexedForcedBurn, TokenNext, OrdinaryStep,
              CustodialStep
<1>3. CASE ReportedStep
  <2>1. CASE IndexedSwitch
    BY <2>1 DEF IndexedSwitch, TokenNext, OrdinaryStep, SwitchStep
  <2>2. CASE \E from, to \in Wallets, a \in Amounts :
                IndexedTransfer(from, to, a) \/ IndexedForcedTransfer(from, to, a)
    BY <2>2 DEF IndexedTransfer, IndexedForcedTransfer, TokenNext, OrdinaryStep,
              CustodialStep
  <2> QED
    BY <1>3, <2>1, <2>2
    DEF ReportedStep, IndexedMint, IndexedBurn, IndexedRecoverTokens,
        IndexedSetAddressFrozen, IndexedFreezePartialTokens, IndexedUnfreezePartialTokens,
        IndexedRegistryStep, TokenNext, OrdinaryStep, CustodialStep, SwitchStep
<1> QED
  BY <1>1, <1>2, <1>3 DEF IndexedNext

\* The token beside its index behaves as the token alone: the handlers, and
\* the bounds on their drift, add no behaviour to it.
THEOREM IndexedTokenIsToken == IndexedSpec => TokenSpec
<1>1. IndexedInit => TokenInit
  BY DEF IndexedInit
<1>2. [IndexedNext]_indexedVars => [TokenNext]_tokenVars
  BY IndexedStepIsTokenStep DEF indexedVars
<1> QED
  BY <1>1, <1>2, PTL DEF IndexedSpec, TokenSpec

-----------------------------------------------------------------------------
(* Writes on the entities.                                                 *)

\* Recomputing what is available changes nothing else, and once is enough.
LEMMA AvailableFacts ==
    ASSUME NEW b \in TokenBalanceEntities
    PROVE  /\ UpdateAvailableAmount(b) \in TokenBalanceEntities
           /\ UpdateAvailableAmount(b).value = b.value
           /\ UpdateAvailableAmount(b).frozen = b.frozen
           /\ UpdateAvailableAmount(b).isFrozen = b.isFrozen
           /\ UpdateAvailableAmount(UpdateAvailableAmount(b)) = UpdateAvailableAmount(b)
<1> DEFINE x == IF b.isFrozen THEN 0 ELSE b.value - b.frozen
           u == UpdateAvailableAmount(b)
<1>1. u = [b EXCEPT !.available = x]
  BY DEF UpdateAvailableAmount
<1>2. b.value \in Int /\ b.frozen \in Int /\ b.isFrozen \in BOOLEAN
  BY DEF TokenBalanceEntities
<1>3. x \in Int
  BY <1>2
<1>4. /\ u \in TokenBalanceEntities
      /\ u.value = b.value
      /\ u.frozen = b.frozen
      /\ u.isFrozen = b.isFrozen
      /\ u.available = x
  BY <1>1, <1>3 DEF TokenBalanceEntities
<1>5. UpdateAvailableAmount(u) = [u EXCEPT !.available = x]
  BY <1>4 DEF UpdateAvailableAmount
<1>6. [u EXCEPT !.available = x] = u
  BY <1>4 DEF TokenBalanceEntities
<1> QED
  BY <1>4, <1>5, <1>6

Write(bs, account, b) == [bs EXCEPT ![account] = UpdateAvailableAmount(b)]

\* Saving one entity keeps the others.
LEMMA WriteFacts ==
    ASSUME NEW bs \in Entities, NEW account \in Wallets, NEW b \in TokenBalanceEntities
    PROVE  LET r == Write(bs, account, b) IN
           /\ r \in Entities
           /\ r[account].value = b.value
           /\ r[account].frozen = b.frozen
           /\ r[account].isFrozen = b.isFrozen
           /\ \A w \in Wallets : w # account => r[w] = bs[w]
<1> DEFINE r == Write(bs, account, b)
           u == UpdateAvailableAmount(b)
<1>1. /\ u \in TokenBalanceEntities
      /\ u.value = b.value
      /\ u.frozen = b.frozen
      /\ u.isFrozen = b.isFrozen
      /\ UpdateAvailableAmount(u) = u
  BY AvailableFacts
<1> HIDE DEF u
<1>2. bs \in [Wallets -> TokenBalanceEntities]
  BY DEF Entities
<1>3. /\ r \in [Wallets -> TokenBalanceEntities]
      /\ r[account] = u
      /\ \A w \in Wallets : w # account => r[w] = bs[w]
  BY <1>1, <1>2 DEF u, Write
<1> HIDE DEF r
<1>4. \A w \in Wallets : r[w] = UpdateAvailableAmount(r[w])
  BY <1>1, <1>3 DEF Entities
<1> QED
  BY <1>1, <1>3, <1>4 DEF Entities, r

\* An increase of a balance is one of its value alone.
LEMMA IncreaseValueFacts ==
    ASSUME NEW bs \in Entities, NEW account \in Wallets, NEW a \in Int
    PROVE  LET r == IncreaseTokenBalanceValue(bs, account, a) IN
           /\ r \in Entities
           /\ \A w \in Wallets :
                 /\ r[w].value = bs[w].value + (IF w = account THEN a ELSE 0)
                 /\ r[w].frozen = bs[w].frozen
                 /\ r[w].isFrozen = bs[w].isFrozen
<1> DEFINE r == IncreaseTokenBalanceValue(bs, account, a)
           b == [bs[account] EXCEPT !.value = @ + a]
<1>1. bs \in [Wallets -> TokenBalanceEntities]
  BY DEF Entities
<1>2. /\ b \in TokenBalanceEntities
      /\ b.value = bs[account].value + a
      /\ b.frozen = bs[account].frozen
      /\ b.isFrozen = bs[account].isFrozen
  BY <1>1 DEF TokenBalanceEntities
<1>3. r = Write(bs, account, b)
  BY DEF IncreaseTokenBalanceValue, Write
<1> HIDE DEF b, r
<1>4. /\ r \in Entities
      /\ r[account].value = b.value
      /\ r[account].frozen = b.frozen
      /\ r[account].isFrozen = b.isFrozen
      /\ \A w \in Wallets : w # account => r[w] = bs[w]
  BY <1>2, <1>3, WriteFacts
<1>5. ASSUME NEW w \in Wallets
      PROVE  /\ r[w].value = bs[w].value + (IF w = account THEN a ELSE 0)
             /\ r[w].frozen = bs[w].frozen
             /\ r[w].isFrozen = bs[w].isFrozen
  <2>1. CASE w = account
    BY <2>1, <1>2, <1>4
  <2>2. CASE w # account
    <3>1. r[w] = bs[w] /\ bs[w].value \in Int
      BY <2>2, <1>1, <1>4 DEF TokenBalanceEntities
    <3> QED
      BY <3>1, <2>2
  <2> QED
    BY <2>1, <2>2
<1> QED
  BY <1>4, <1>5 DEF r

\* A decrease of a balance is one of its value alone.
LEMMA DecreaseValueFacts ==
    ASSUME NEW bs \in Entities, NEW account \in Wallets, NEW a \in Int
    PROVE  LET r == DecreaseTokenBalanceValue(bs, account, a) IN
           /\ r \in Entities
           /\ \A w \in Wallets :
                 /\ r[w].value = bs[w].value - (IF w = account THEN a ELSE 0)
                 /\ r[w].frozen = bs[w].frozen
                 /\ r[w].isFrozen = bs[w].isFrozen
<1> DEFINE r == DecreaseTokenBalanceValue(bs, account, a)
           b == [bs[account] EXCEPT !.value = @ - a]
<1>1. bs \in [Wallets -> TokenBalanceEntities]
  BY DEF Entities
<1>2. /\ b \in TokenBalanceEntities
      /\ b.value = bs[account].value - a
      /\ b.frozen = bs[account].frozen
      /\ b.isFrozen = bs[account].isFrozen
  BY <1>1 DEF TokenBalanceEntities
<1>3. r = Write(bs, account, b)
  BY DEF DecreaseTokenBalanceValue, Write
<1> HIDE DEF b, r
<1>4. /\ r \in Entities
      /\ r[account].value = b.value
      /\ r[account].frozen = b.frozen
      /\ r[account].isFrozen = b.isFrozen
      /\ \A w \in Wallets : w # account => r[w] = bs[w]
  BY <1>2, <1>3, WriteFacts
<1>5. ASSUME NEW w \in Wallets
      PROVE  /\ r[w].value = bs[w].value - (IF w = account THEN a ELSE 0)
             /\ r[w].frozen = bs[w].frozen
             /\ r[w].isFrozen = bs[w].isFrozen
  <2>1. CASE w = account
    BY <2>1, <1>2, <1>4
  <2>2. CASE w # account
    <3>1. r[w] = bs[w] /\ bs[w].value \in Int
      BY <2>2, <1>1, <1>4 DEF TokenBalanceEntities
    <3> QED
      BY <3>1, <2>2
  <2> QED
    BY <2>1, <2>2
<1> QED
  BY <1>4, <1>5 DEF r

\* An increase of the frozen amount is one of that amount alone.
LEMMA IncreaseFrozenFacts ==
    ASSUME NEW bs \in Entities, NEW account \in Wallets, NEW a \in Int
    PROVE  LET r == IncreaseTokenBalanceFrozen(bs, account, a) IN
           /\ r \in Entities
           /\ \A w \in Wallets :
                 /\ r[w].value = bs[w].value
                 /\ r[w].frozen = bs[w].frozen + (IF w = account THEN a ELSE 0)
                 /\ r[w].isFrozen = bs[w].isFrozen
<1> DEFINE r == IncreaseTokenBalanceFrozen(bs, account, a)
           b == [bs[account] EXCEPT !.frozen = @ + a]
<1>1. bs \in [Wallets -> TokenBalanceEntities]
  BY DEF Entities
<1>2. /\ b \in TokenBalanceEntities
      /\ b.value = bs[account].value
      /\ b.frozen = bs[account].frozen + a
      /\ b.isFrozen = bs[account].isFrozen
  BY <1>1 DEF TokenBalanceEntities
<1>3. r = Write(bs, account, b)
  BY DEF IncreaseTokenBalanceFrozen, Write
<1> HIDE DEF b, r
<1>4. /\ r \in Entities
      /\ r[account].value = b.value
      /\ r[account].frozen = b.frozen
      /\ r[account].isFrozen = b.isFrozen
      /\ \A w \in Wallets : w # account => r[w] = bs[w]
  BY <1>2, <1>3, WriteFacts
<1>5. ASSUME NEW w \in Wallets
      PROVE  /\ r[w].value = bs[w].value
             /\ r[w].frozen = bs[w].frozen + (IF w = account THEN a ELSE 0)
             /\ r[w].isFrozen = bs[w].isFrozen
  <2>1. CASE w = account
    BY <2>1, <1>2, <1>4
  <2>2. CASE w # account
    <3>1. r[w] = bs[w] /\ bs[w].frozen \in Int
      BY <2>2, <1>1, <1>4 DEF TokenBalanceEntities
    <3> QED
      BY <3>1, <2>2
  <2> QED
    BY <2>1, <2>2
<1> QED
  BY <1>4, <1>5 DEF r

\* A decrease of the frozen amount is one of that amount alone.
LEMMA DecreaseFrozenFacts ==
    ASSUME NEW bs \in Entities, NEW account \in Wallets, NEW a \in Int
    PROVE  LET r == DecreaseTokenBalanceFrozen(bs, account, a) IN
           /\ r \in Entities
           /\ \A w \in Wallets :
                 /\ r[w].value = bs[w].value
                 /\ r[w].frozen = bs[w].frozen - (IF w = account THEN a ELSE 0)
                 /\ r[w].isFrozen = bs[w].isFrozen
<1> DEFINE r == DecreaseTokenBalanceFrozen(bs, account, a)
           b == [bs[account] EXCEPT !.frozen = @ - a]
<1>1. bs \in [Wallets -> TokenBalanceEntities]
  BY DEF Entities
<1>2. /\ b \in TokenBalanceEntities
      /\ b.value = bs[account].value
      /\ b.frozen = bs[account].frozen - a
      /\ b.isFrozen = bs[account].isFrozen
  BY <1>1 DEF TokenBalanceEntities
<1>3. r = Write(bs, account, b)
  BY DEF DecreaseTokenBalanceFrozen, Write
<1> HIDE DEF b, r
<1>4. /\ r \in Entities
      /\ r[account].value = b.value
      /\ r[account].frozen = b.frozen
      /\ r[account].isFrozen = b.isFrozen
      /\ \A w \in Wallets : w # account => r[w] = bs[w]
  BY <1>2, <1>3, WriteFacts
<1>5. ASSUME NEW w \in Wallets
      PROVE  /\ r[w].value = bs[w].value
             /\ r[w].frozen = bs[w].frozen - (IF w = account THEN a ELSE 0)
             /\ r[w].isFrozen = bs[w].isFrozen
  <2>1. CASE w = account
    BY <2>1, <1>2, <1>4
  <2>2. CASE w # account
    <3>1. r[w] = bs[w] /\ bs[w].frozen \in Int
      BY <2>2, <1>1, <1>4 DEF TokenBalanceEntities
    <3> QED
      BY <3>1, <2>2
  <2> QED
    BY <2>1, <2>2
<1> QED
  BY <1>4, <1>5 DEF r

\* A freeze or unfreeze of a balance sets its flag alone.
LEMMA FlagFacts ==
    ASSUME NEW bs \in Entities, NEW account \in Wallets, NEW f \in BOOLEAN
    PROVE  LET r == FreezeOrUnfreezeTokenBalance(bs, account, f) IN
           /\ r \in Entities
           /\ r[account].isFrozen = f
           /\ \A w \in Wallets : /\ r[w].value = bs[w].value
                                 /\ r[w].frozen = bs[w].frozen
                                 /\ w # account => r[w].isFrozen = bs[w].isFrozen
<1> DEFINE r == FreezeOrUnfreezeTokenBalance(bs, account, f)
           b == [bs[account] EXCEPT !.isFrozen = f]
<1>1. bs \in [Wallets -> TokenBalanceEntities]
  BY DEF Entities
<1>2. /\ b \in TokenBalanceEntities
      /\ b.value = bs[account].value
      /\ b.frozen = bs[account].frozen
      /\ b.isFrozen = f
  BY <1>1 DEF TokenBalanceEntities
<1>3. r = Write(bs, account, b)
  BY DEF FreezeOrUnfreezeTokenBalance, Write
<1> HIDE DEF b, r
<1>4. /\ r \in Entities
      /\ r[account].value = b.value
      /\ r[account].frozen = b.frozen
      /\ r[account].isFrozen = b.isFrozen
      /\ \A w \in Wallets : w # account => r[w] = bs[w]
  BY <1>2, <1>3, WriteFacts
<1> QED
  BY <1>2, <1>4 DEF r

\* The handler of a transfer moves a value from one balance to the other.
LEMMA TransferCompletedFacts ==
    ASSUME NEW bs \in Entities, NEW from \in Wallets, NEW to \in Wallets, NEW a \in Int
    PROVE  LET r == HandleTransferCompleted(bs, from, to, a) IN
           /\ r \in Entities
           /\ \A w \in Wallets :
                 /\ r[w].value = bs[w].value - (IF w = from THEN a ELSE 0)
                                             + (IF w = to THEN a ELSE 0)
                 /\ r[w].frozen = bs[w].frozen
                 /\ r[w].isFrozen = bs[w].isFrozen
<1> DEFINE r == HandleTransferCompleted(bs, from, to, a)
           d == DecreaseTokenBalanceValue(bs, from, a)
<1>1. /\ d \in Entities
      /\ \A w \in Wallets :
            /\ d[w].value = bs[w].value - (IF w = from THEN a ELSE 0)
            /\ d[w].frozen = bs[w].frozen
            /\ d[w].isFrozen = bs[w].isFrozen
  BY DecreaseValueFacts
<1>2. r = IncreaseTokenBalanceValue(d, to, a)
  BY DEF HandleTransferCompleted
<1> HIDE DEF d, r
<1>3. d \in Entities
  BY <1>1
<1> DEFINE i == IncreaseTokenBalanceValue(d, to, a)
<1>4. /\ i \in Entities
      /\ \A w \in Wallets :
            /\ i[w].value = d[w].value + (IF w = to THEN a ELSE 0)
            /\ i[w].frozen = d[w].frozen
            /\ i[w].isFrozen = d[w].isFrozen
  BY ONLY <1>3, IncreaseValueFacts, to \in Wallets, a \in Int
<1>5. r = i
  BY <1>2
<1> HIDE DEF i
<1> QED
  BY <1>1, <1>4, <1>5 DEF r

-----------------------------------------------------------------------------
(* The steps: how the index moves, and what the invariant needs of it.     *)

ValuesMove ==
    \A w \in Wallets :
        tokenBalances'[w].value - tokenBalances[w].value = balances'[w] - balances[w]

FrozenMoves ==
    \A w \in Wallets :
        tokenBalances'[w].frozen - tokenBalances[w].frozen
           = frozenTokens'[w] - frozenTokens[w]

FlagsMove ==
    /\ \A w \in Wallets : tokenBalances'[w].isFrozen <=> w \in frozen'
    /\ indexedPaused' = paused'

\* The indexed supply, a sum that may be read late, moves with the supply.
SupplyMoves ==
    /\ indexedSupply' - totalSupply' = indexedSupply - totalSupply
    /\ UNCHANGED <<supplyRead, followed>>

FlagsKept ==
    /\ \A w \in Wallets : tokenBalances'[w].isFrozen = tokenBalances[w].isFrozen
    /\ UNCHANGED <<frozen, indexedPaused, paused>>

\* The parts of the index invariant the steps below need.
LEMMA IndexFacts ==
    ASSUME IndexInv
    PROVE  /\ TokenInv
           /\ balances \in [Wallets -> Nat]
           /\ frozenTokens \in [Wallets -> Nat]
           /\ totalSupply \in Int
           /\ indexedSupply \in Int
           /\ tokenBalances \in Entities
           /\ \A w \in Wallets : /\ tokenBalances[w].value \in Int
                                 /\ tokenBalances[w].frozen \in Int
                                 /\ tokenBalances[w].isFrozen <=> w \in frozen
           /\ indexedPaused = paused
  BY DEF IndexInv, TokenInv, TokenTypeOK, Entities, TokenBalanceEntities, IndexedFlagsAgree

\* Handlers that leave the flags of a token alone, beside transactions that do,
\* keep them in agreement.
LEMMA KeptFlags ==
    ASSUME IndexInv, FlagsKept
    PROVE  FlagsMove
  BY IndexFacts DEF FlagsKept, FlagsMove

\* How one update of the ledger moves the balances.
LEMMA UpdateMoves ==
    ASSUME IndexInv, NEW from \in Wallets \cup {None}, NEW to \in Wallets \cup {None},
           NEW a \in Nat, Update(from, to, a)
    PROVE  /\ \A w \in Wallets : balances'[w] - balances[w]
                 = (IF w = to THEN a ELSE 0) - (IF w = from THEN a ELSE 0)
           /\ totalSupply' = totalSupply + (IF from = None THEN a ELSE 0)
                                         - (IF to = None THEN a ELSE 0)
           /\ UNCHANGED paused
<1>1. balances \in [Wallets -> Nat] /\ totalSupply \in Int
  BY IndexFacts
<1>2. balances' = [w \in Wallets |-> balances[w]
                     - (IF w = from THEN a ELSE 0) + (IF w = to THEN a ELSE 0)]
  BY DEF Update
<1>3. ASSUME NEW w \in Wallets
      PROVE  balances'[w] - balances[w]
                = (IF w = to THEN a ELSE 0) - (IF w = from THEN a ELSE 0)
  <2>1. balances'[w] = balances[w] - (IF w = from THEN a ELSE 0) + (IF w = to THEN a ELSE 0)
    BY <1>2
  <2> QED
    BY <1>1, <2>1
<1> QED
  BY <1>1, <1>3 DEF Update

\* What the entities become when an event of unfreezing is handled.
LEMMA TakingMoves ==
    ASSUME IndexInv, NEW from \in Wallets, NEW a \in Nat,
           frozenTokens' = FrozenAfterTaking(from, a)
    PROVE  LET u == UnfrozenByTaking(from, a) IN
           /\ u \in Entities
           /\ \A w \in Wallets :
                 /\ u[w].value = tokenBalances[w].value
                 /\ u[w].frozen - tokenBalances[w].frozen = frozenTokens'[w] - frozenTokens[w]
                 /\ u[w].isFrozen = tokenBalances[w].isFrozen
<1> DEFINE u == UnfrozenByTaking(from, a)
           x == a - Available(from)
<1>1. /\ frozenTokens \in [Wallets -> Nat]
      /\ balances \in [Wallets -> Nat]
      /\ tokenBalances \in Entities
      /\ \A w \in Wallets : tokenBalances[w].frozen \in Int
  BY IndexFacts
<1>2. Available(from) \in Int
  BY <1>1 DEF Available
<1>3. CASE a > Available(from)
  <2>1. x \in Int
    BY <1>2
  <2> HIDE DEF x
  <2>2. frozenTokens' = [frozenTokens EXCEPT ![from] = @ - x]
    BY <1>3 DEF FrozenAfterTaking, x
  <2> DEFINE d == DecreaseTokenBalanceFrozen(tokenBalances, from, x)
  <2>3. u = d
    BY <1>3 DEF UnfrozenByTaking, x
  <2>4. /\ d \in Entities
        /\ \A w \in Wallets :
              /\ d[w].value = tokenBalances[w].value
              /\ d[w].frozen = tokenBalances[w].frozen - (IF w = from THEN x ELSE 0)
              /\ d[w].isFrozen = tokenBalances[w].isFrozen
    BY <1>1, <2>1, DecreaseFrozenFacts
  <2> HIDE DEF d, u
  <2>5. \A w \in Wallets : frozenTokens'[w] = frozenTokens[w] - (IF w = from THEN x ELSE 0)
    BY <1>1, <2>1, <2>2
  <2>6. \A w \in Wallets :
           u[w].frozen - tokenBalances[w].frozen = frozenTokens'[w] - frozenTokens[w]
    BY <1>1, <2>1, <2>3, <2>4, <2>5
  <2> QED
    BY <2>3, <2>4, <2>6 DEF u
<1>4. CASE ~(a > Available(from))
  <2>1. u = tokenBalances /\ frozenTokens' = frozenTokens
    BY <1>4 DEF UnfrozenByTaking, FrozenAfterTaking
  <2> QED
    BY <1>1, <2>1
<1> QED
  BY <1>3, <1>4

MovesTogether ==
    /\ tokenBalances' \in Entities
    /\ ValuesMove
    /\ FrozenMoves
    /\ FlagsMove
    /\ SupplyMoves

\* A mint moves the index as the ledger.
LEMMA MintMoves ==
    ASSUME IndexInv, NEW to \in Wallets, NEW a \in Amounts, IndexedMint(to, a)
    PROVE  MovesTogether
<1> DEFINE r == IncreaseTokenBalanceValue(tokenBalances, to, a)
<1>1. /\ Update(None, to, a)
      /\ UNCHANGED <<frozen, frozenTokens>>
      /\ tokenBalances' = r
      /\ indexedSupply' = indexedSupply + a
      /\ UNCHANGED <<supplyRead, indexedPaused, followed>>
  BY DEF IndexedMint, Mint, HandleMintCompleted, custodianVars
<1>2. /\ \A w \in Wallets : balances'[w] - balances[w] = (IF w = to THEN a ELSE 0)
      /\ totalSupply' = totalSupply + a
      /\ UNCHANGED paused
  <2>1. /\ \A w \in Wallets : balances'[w] - balances[w]
             = (IF w = to THEN a ELSE 0) - (IF w = None THEN a ELSE 0)
        /\ totalSupply' = totalSupply + (IF None = None THEN a ELSE 0)
                                      - (IF to = None THEN a ELSE 0)
        /\ UNCHANGED paused
    BY <1>1, UpdateMoves
  <2> QED
    BY <2>1, IndexFacts
<1>3. /\ r \in Entities
      /\ \A w \in Wallets :
            /\ r[w].value = tokenBalances[w].value + (IF w = to THEN a ELSE 0)
            /\ r[w].frozen = tokenBalances[w].frozen
            /\ r[w].isFrozen = tokenBalances[w].isFrozen
  <2>1. tokenBalances \in Entities
    BY IndexFacts
  <2>2. a \in Int
    OBVIOUS
  <2> QED
    BY ONLY <2>1, <2>2, to \in Wallets, IncreaseValueFacts
<1> HIDE DEF r
<1>4. ValuesMove
  <2>1. ASSUME NEW w \in Wallets
        PROVE  tokenBalances'[w].value - tokenBalances[w].value = balances'[w] - balances[w]
    <3>1. /\ tokenBalances'[w].value = tokenBalances[w].value + (IF w = to THEN a ELSE 0)
          /\ tokenBalances[w].value \in Int
          /\ balances'[w] - balances[w] = (IF w = to THEN a ELSE 0)
      BY <1>1, <1>2, <1>3, IndexFacts
    <3> QED
      BY <3>1
  <2> QED
    BY <2>1 DEF ValuesMove
<1>5. FrozenMoves
  BY <1>1, <1>3, IndexFacts DEF FrozenMoves
<1>6. FlagsKept
  BY <1>1, <1>2, <1>3 DEF FlagsKept
<1>7. SupplyMoves
  <2>1. totalSupply \in Int /\ indexedSupply \in Int /\ a \in Int
    BY IndexFacts
  <2>2. /\ indexedSupply' = indexedSupply + a
        /\ totalSupply' = totalSupply + a
        /\ UNCHANGED <<supplyRead, followed>>
    BY <1>1, <1>2
  <2> QED
    BY ONLY <2>1, <2>2 DEF SupplyMoves
<1> QED
  BY <1>1, <1>3, <1>4, <1>5, <1>6, <1>7, KeptFlags DEF MovesTogether

\* A transfer handled after a possible unfreezing.
LEMMA TransferMoves ==
    ASSUME IndexInv, NEW from \in Wallets, NEW to \in Wallets, NEW a \in Nat,
           Update(from, to, a), UNCHANGED frozen,
           NEW u, u \in Entities,
           \A w \in Wallets :
              /\ u[w].value = tokenBalances[w].value
              /\ u[w].frozen - tokenBalances[w].frozen = frozenTokens'[w] - frozenTokens[w]
              /\ u[w].isFrozen = tokenBalances[w].isFrozen,
           Saved(HandleTransferCompleted(u, from, to, a))
    PROVE  MovesTogether
<1> DEFINE r == HandleTransferCompleted(u, from, to, a)
<1>1. /\ tokenBalances' = r
      /\ UNCHANGED <<indexedSupply, supplyRead, indexedPaused, followed>>
  BY DEF Saved
<1>2. /\ \A w \in Wallets : balances'[w] - balances[w]
            = (IF w = to THEN a ELSE 0) - (IF w = from THEN a ELSE 0)
      /\ totalSupply' = totalSupply
      /\ UNCHANGED paused
  BY UpdateMoves, IndexFacts
<1>3. /\ r \in Entities
      /\ \A w \in Wallets :
            /\ r[w].value = u[w].value - (IF w = from THEN a ELSE 0)
                                       + (IF w = to THEN a ELSE 0)
            /\ r[w].frozen = u[w].frozen
            /\ r[w].isFrozen = u[w].isFrozen
  <2>1. a \in Int
    OBVIOUS
  <2> QED
    BY <2>1, TransferCompletedFacts
<1> HIDE DEF r
<1>4. ValuesMove
  BY <1>1, <1>2, <1>3, IndexFacts DEF ValuesMove
<1>5. FrozenMoves
  BY <1>1, <1>3 DEF FrozenMoves
<1>6. FlagsKept
  BY <1>1, <1>2, <1>3 DEF FlagsKept
<1>7. SupplyMoves
  <2>1. totalSupply' = totalSupply /\ UNCHANGED <<indexedSupply, supplyRead, followed>>
    BY <1>1, <1>2
  <2> QED
    BY ONLY <2>1 DEF SupplyMoves
<1> QED
  BY <1>1, <1>3, <1>4, <1>5, <1>6, <1>7, KeptFlags DEF MovesTogether

\* So does a transfer.
LEMMA IndexedTransferMoves ==
    ASSUME IndexInv, NEW from \in Wallets, NEW to \in Wallets, NEW a \in Amounts,
           IndexedTransfer(from, to, a)
    PROVE  MovesTogether
<1>1. /\ Update(from, to, a)
      /\ UNCHANGED <<frozen, frozenTokens>>
      /\ Saved(HandleTransferCompleted(tokenBalances, from, to, a))
  BY DEF IndexedTransfer, Transfer, custodianVars
<1>2. /\ tokenBalances \in Entities
      /\ \A w \in Wallets :
            /\ tokenBalances[w].frozen - tokenBalances[w].frozen
                  = frozenTokens'[w] - frozenTokens[w]
  BY <1>1, IndexFacts
<1>3. a \in Nat
  OBVIOUS
<1> QED
  BY <1>1, <1>2, <1>3, TransferMoves

\* So does a forced transfer, of frozen tokens too.
LEMMA IndexedForcedTransferMoves ==
    ASSUME IndexInv, NEW from \in Wallets, NEW to \in Wallets, NEW a \in Amounts,
           IndexedForcedTransfer(from, to, a)
    PROVE  MovesTogether
<1> DEFINE u == UnfrozenByTaking(from, a)
<1>1. /\ Update(from, to, a)
      /\ UNCHANGED frozen
      /\ frozenTokens' = FrozenAfterTaking(from, a)
      /\ Saved(HandleTransferCompleted(u, from, to, a))
  BY DEF IndexedForcedTransfer, ForcedTransfer
<1>2. a \in Nat
  OBVIOUS
<1>3. /\ u \in Entities
      /\ \A w \in Wallets :
            /\ u[w].value = tokenBalances[w].value
            /\ u[w].frozen - tokenBalances[w].frozen = frozenTokens'[w] - frozenTokens[w]
            /\ u[w].isFrozen = tokenBalances[w].isFrozen
  BY <1>1, <1>2, TakingMoves
<1> HIDE DEF u
<1> QED
  BY <1>1, <1>2, <1>3, TransferMoves

\* So does a burn, of frozen tokens too.
LEMMA IndexedBurnMoves ==
    ASSUME IndexInv, NEW from \in Wallets, NEW a \in Amounts, IndexedBurn(from, a)
    PROVE  MovesTogether
<1> DEFINE u == UnfrozenByTaking(from, a)
           r == DecreaseTokenBalanceValue(u, from, a)
<1>1. /\ Update(from, None, a)
      /\ UNCHANGED frozen
      /\ frozenTokens' = FrozenAfterTaking(from, a)
      /\ tokenBalances' = r
      /\ indexedSupply' = indexedSupply - a
      /\ UNCHANGED <<supplyRead, indexedPaused, followed>>
  BY DEF IndexedBurn, Burn, HandleBurnCompleted
<1>2. a \in Nat /\ a \in Int
  OBVIOUS
<1>3. /\ u \in Entities
      /\ \A w \in Wallets :
            /\ u[w].value = tokenBalances[w].value
            /\ u[w].frozen - tokenBalances[w].frozen = frozenTokens'[w] - frozenTokens[w]
            /\ u[w].isFrozen = tokenBalances[w].isFrozen
  BY <1>1, <1>2, TakingMoves
<1> HIDE DEF u
<1>4. /\ r \in Entities
      /\ \A w \in Wallets :
            /\ r[w].value = u[w].value - (IF w = from THEN a ELSE 0)
            /\ r[w].frozen = u[w].frozen
            /\ r[w].isFrozen = u[w].isFrozen
  BY <1>2, <1>3, DecreaseValueFacts
<1> HIDE DEF r
<1>5. /\ \A w \in Wallets : balances'[w] - balances[w] = 0 - (IF w = from THEN a ELSE 0)
      /\ totalSupply' = totalSupply - a
      /\ UNCHANGED paused
  <2>1. /\ \A w \in Wallets : balances'[w] - balances[w]
             = (IF w = None THEN a ELSE 0) - (IF w = from THEN a ELSE 0)
        /\ totalSupply' = totalSupply + (IF from = None THEN a ELSE 0)
                                      - (IF None = None THEN a ELSE 0)
        /\ UNCHANGED paused
    BY <1>1, <1>2, UpdateMoves
  <2> QED
    BY <2>1, <1>2, IndexFacts
<1>6. ValuesMove
  BY <1>1, <1>2, <1>3, <1>4, <1>5, IndexFacts DEF ValuesMove
<1>7. FrozenMoves
  BY <1>1, <1>3, <1>4 DEF FrozenMoves
<1>8. FlagsKept
  BY <1>1, <1>3, <1>4, <1>5 DEF FlagsKept
<1>9. SupplyMoves
  <2>1. totalSupply \in Int /\ indexedSupply \in Int /\ a \in Int
    BY <1>2, IndexFacts
  <2>2. /\ indexedSupply' = indexedSupply - a
        /\ totalSupply' = totalSupply - a
        /\ UNCHANGED <<supplyRead, followed>>
    BY <1>1, <1>5
  <2> QED
    BY ONLY <2>1, <2>2 DEF SupplyMoves
<1> QED
  BY <1>1, <1>4, <1>6, <1>7, <1>8, <1>9, KeptFlags DEF MovesTogether

\* What the events of a recovery make of the entities.
LEMMA RecoveryFacts ==
    ASSUME IndexInv, NEW l \in Wallets, NEW n \in Wallets,
           frozen' = IF l \in frozen THEN (frozen \cup {n}) \ {l} ELSE frozen \ {n}
    PROVE  LET r == RecoveryEvents(l, n) IN
           /\ r \in Entities
           /\ \A w \in Wallets :
                 /\ r[w].value = tokenBalances[w].value
                       - (IF w = l THEN balances[l] ELSE 0) + (IF w = n THEN balances[l] ELSE 0)
                 /\ r[w].frozen = tokenBalances[w].frozen
                       - (IF w = l THEN frozenTokens[l] ELSE 0)
                       + (IF w = n THEN frozenTokens[l] ELSE 0)
                 /\ r[w].isFrozen <=> w \in frozen'
<1> DEFINE a == balances[l]
           f == frozenTokens[l]
           moved == HandleTransferCompleted(tokenBalances, l, n, a)
           d == DecreaseTokenBalanceFrozen(moved, l, f)
           migrated == IncreaseTokenBalanceFrozen(d, n, f)
           partial == IF f > 0 THEN migrated ELSE moved
           both == FreezeOrUnfreezeTokenBalance(
                      FreezeOrUnfreezeTokenBalance(partial, n, TRUE), l, FALSE)
           one == FreezeOrUnfreezeTokenBalance(partial, n, FALSE)
           r == RecoveryEvents(l, n)
<1>1. /\ a \in Nat /\ f \in Nat /\ a \in Int /\ f \in Int
      /\ tokenBalances \in Entities
      /\ \A w \in Wallets : /\ tokenBalances[w].value \in Int
                            /\ tokenBalances[w].frozen \in Int
                            /\ tokenBalances[w].isFrozen <=> w \in frozen
  BY IndexFacts
<1>2. r = IF l \in frozen THEN both ELSE IF n \in frozen THEN one ELSE partial
  BY DEF RecoveryEvents
<1> HIDE DEF a, r
<1>3. /\ moved \in Entities
      /\ \A w \in Wallets :
            /\ moved[w].value = tokenBalances[w].value
                  - (IF w = l THEN a ELSE 0) + (IF w = n THEN a ELSE 0)
            /\ moved[w].frozen = tokenBalances[w].frozen
            /\ moved[w].isFrozen = tokenBalances[w].isFrozen
  <2>1. tokenBalances \in Entities /\ a \in Int
    BY <1>1
  <2> QED
    BY ONLY <2>1, l \in Wallets, n \in Wallets, TransferCompletedFacts
<1> HIDE DEF f, moved
<1>4. /\ d \in Entities
      /\ \A w \in Wallets :
            /\ d[w].value = moved[w].value
            /\ d[w].frozen = moved[w].frozen - (IF w = l THEN f ELSE 0)
            /\ d[w].isFrozen = moved[w].isFrozen
  BY <1>1, <1>3, DecreaseFrozenFacts
<1> HIDE DEF d
<1>5. /\ migrated \in Entities
      /\ \A w \in Wallets :
            /\ migrated[w].value = d[w].value
            /\ migrated[w].frozen = d[w].frozen + (IF w = n THEN f ELSE 0)
            /\ migrated[w].isFrozen = d[w].isFrozen
  BY <1>1, <1>4, IncreaseFrozenFacts
<1> HIDE DEF migrated
<1> DEFINE Amounted(p) ==
             \A w \in Wallets :
                /\ p[w].value = tokenBalances[w].value
                      - (IF w = l THEN a ELSE 0) + (IF w = n THEN a ELSE 0)
                /\ p[w].frozen = tokenBalances[w].frozen
                      - (IF w = l THEN f ELSE 0) + (IF w = n THEN f ELSE 0)
<1>6. /\ partial \in Entities
      /\ Amounted(partial)
      /\ \A w \in Wallets : partial[w].isFrozen = tokenBalances[w].isFrozen
  <2>1. CASE f > 0
    BY <2>1, <1>3, <1>4, <1>5
  <2>2. CASE ~(f > 0)
    <3>1. f = 0
      BY <2>2, <1>1
    <3> QED
      BY <3>1, <2>2, <1>1, <1>3
  <2> QED
    BY <2>1, <2>2
<1> HIDE DEF partial
<1>7. CASE l \in frozen
  <2> DEFINE q == FreezeOrUnfreezeTokenBalance(partial, n, TRUE)
  <2>1. /\ q \in Entities
        /\ q[n].isFrozen = TRUE
        /\ \A w \in Wallets : /\ q[w].value = partial[w].value
                              /\ q[w].frozen = partial[w].frozen
                              /\ w # n => q[w].isFrozen = partial[w].isFrozen
    BY ONLY <1>6, n \in Wallets, TRUE \in BOOLEAN, FlagFacts
  <2> DEFINE p == FreezeOrUnfreezeTokenBalance(q, l, FALSE)
  <2>2. both = p
    OBVIOUS
  <2> HIDE DEF q, both
  <2>3. /\ p \in Entities
        /\ p[l].isFrozen = FALSE
        /\ \A w \in Wallets : /\ p[w].value = q[w].value
                              /\ p[w].frozen = q[w].frozen
                              /\ w # l => p[w].isFrozen = q[w].isFrozen
    BY <2>1, FlagFacts
  <2> HIDE DEF p
  <2>4. r = p /\ frozen' = (frozen \cup {n}) \ {l}
    BY <1>2, <1>7, <2>2
  <2>5. \A w \in Wallets : r[w].isFrozen <=> w \in frozen'
    BY <2>1, <2>3, <2>4, <1>1, <1>6
  <2>6. Amounted(p)
    BY <2>1, <2>3, <1>6
  <2> QED
    BY <2>3, <2>4, <2>5, <2>6 DEF a, f, r
<1>8. CASE l \notin frozen /\ n \in frozen
  <2>1. /\ one \in Entities
        /\ one[n].isFrozen = FALSE
        /\ \A w \in Wallets : /\ one[w].value = partial[w].value
                              /\ one[w].frozen = partial[w].frozen
                              /\ w # n => one[w].isFrozen = partial[w].isFrozen
    BY <1>6, FlagFacts
  <2> HIDE DEF one
  <2>2. r = one /\ frozen' = frozen \ {n}
    BY <1>2, <1>8
  <2>3. \A w \in Wallets : r[w].isFrozen <=> w \in frozen'
    BY <2>1, <2>2, <1>1, <1>6
  <2>4. Amounted(one)
    BY <2>1, <1>6
  <2> QED
    BY <2>1, <2>2, <2>3, <2>4 DEF a, f, r
<1>9. CASE l \notin frozen /\ n \notin frozen
  <2>1. r = partial /\ frozen' = frozen
    BY <1>2, <1>9
  <2>2. \A w \in Wallets : r[w].isFrozen <=> w \in frozen'
    BY <2>1, <1>1, <1>6
  <2> QED
    BY <2>1, <2>2, <1>6 DEF a, f, r
<1> QED
  BY <1>7, <1>8, <1>9

\* A recovery moves the index too, unless it overwrites a partial freeze; then
\* the index shows more frozen than there is.
LEMMA RecoverTokensMoves ==
    ASSUME IndexInv, NEW l \in Wallets, NEW n \in Wallets, IndexedRecoverTokens(l, n)
    PROVE  /\ tokenBalances' \in Entities
           /\ ValuesMove
           /\ OverwritesFreeze(l, n) \/ FrozenMoves
           /\ \A w \in Wallets : tokenBalances'[w].frozen >= frozenTokens'[w]
           /\ FlagsMove
           /\ SupplyMoves
<1> DEFINE a == balances[l]
           f == frozenTokens[l]
           r == RecoveryEvents(l, n)
<1>1. /\ Update(l, n, a)
      /\ frozenTokens' = IF f > 0
                         THEN [[frozenTokens EXCEPT ![l] = 0] EXCEPT ![n] = f]
                         ELSE frozenTokens
      /\ frozen' = IF l \in frozen THEN (frozen \cup {n}) \ {l} ELSE frozen \ {n}
      /\ tokenBalances' = r
      /\ UNCHANGED <<indexedSupply, supplyRead, indexedPaused, followed>>
  BY DEF IndexedRecoverTokens, RecoverTokens, Saved
<1>2. /\ a \in Nat /\ f \in Nat
      /\ frozenTokens \in [Wallets -> Nat]
      /\ totalSupply \in Int /\ indexedSupply \in Int
      /\ indexedPaused = paused
      /\ \A w \in Wallets : /\ tokenBalances[w].value \in Int
                            /\ tokenBalances[w].frozen \in Int
                            /\ tokenBalances[w].frozen >= frozenTokens[w]
  BY IndexFacts DEF IndexInv, IndexNeverUnderstates
<1>3. /\ r \in Entities
      /\ \A w \in Wallets :
            /\ r[w].value = tokenBalances[w].value
                  - (IF w = l THEN a ELSE 0) + (IF w = n THEN a ELSE 0)
            /\ r[w].frozen = tokenBalances[w].frozen
                  - (IF w = l THEN f ELSE 0) + (IF w = n THEN f ELSE 0)
            /\ r[w].isFrozen <=> w \in frozen'
  BY <1>1, RecoveryFacts
<1> HIDE DEF a, f, r
<1>4. /\ \A w \in Wallets : balances'[w] - balances[w]
            = (IF w = n THEN a ELSE 0) - (IF w = l THEN a ELSE 0)
      /\ totalSupply' = totalSupply + (IF l = None THEN a ELSE 0)
                                    - (IF n = None THEN a ELSE 0)
      /\ UNCHANGED paused
  BY <1>1, <1>2, UpdateMoves
<1>5. ValuesMove
  BY <1>1, <1>2, <1>3, <1>4 DEF ValuesMove
<1>6. \A w \in Wallets : frozenTokens'[w] =
         IF f > 0 THEN IF w = n THEN f ELSE IF w = l THEN 0 ELSE frozenTokens[w]
         ELSE frozenTokens[w]
  BY <1>1, <1>2
<1>7. f = frozenTokens[l]
  BY DEF f
<1>8. OverwritesFreeze(l, n) \/ FrozenMoves
  <2> SUFFICES ASSUME l = n \/ f = 0 \/ frozenTokens[n] = 0 PROVE FrozenMoves
    BY <1>2, <1>7 DEF OverwritesFreeze
  <2> QED
    BY <1>1, <1>2, <1>3, <1>6, <1>7 DEF FrozenMoves
<1>9. \A w \in Wallets : tokenBalances'[w].frozen >= frozenTokens'[w]
  BY <1>1, <1>2, <1>3, <1>6, <1>7
<1>10. FlagsMove
  BY <1>1, <1>2, <1>3, <1>4 DEF FlagsMove
<1>11. SupplyMoves
  BY <1>1, <1>2, <1>4 DEF SupplyMoves
<1> QED
  BY <1>1, <1>3, <1>5, <1>8, <1>9, <1>10, <1>11

\* Switches of the token and of the registry.
LEMMA IndexedSetAddressFrozenMoves ==
    ASSUME IndexInv, NEW account \in Wallets, NEW f \in BOOLEAN,
           IndexedSetAddressFrozen(account, f)
    PROVE  MovesTogether
<1> DEFINE r == FreezeOrUnfreezeTokenBalance(tokenBalances, account, f)
<1>1. /\ frozen' = IF f THEN frozen \cup {account} ELSE frozen \ {account}
      /\ tokenBalances' = r
      /\ UNCHANGED <<indexedSupply, supplyRead, indexedPaused, followed>>
      /\ UNCHANGED <<balances, totalSupply, frozenTokens, paused>>
  BY DEF IndexedSetAddressFrozen, SetAddressFrozen, Saved, ledgerVars
<1>2. tokenBalances \in Entities
  BY IndexFacts
<1>3. /\ r \in Entities
      /\ r[account].isFrozen = f
      /\ \A w \in Wallets : /\ r[w].value = tokenBalances[w].value
                            /\ r[w].frozen = tokenBalances[w].frozen
                            /\ w # account => r[w].isFrozen = tokenBalances[w].isFrozen
  BY <1>2, FlagFacts
<1> HIDE DEF r
<1>4. ValuesMove /\ FrozenMoves
  BY <1>1, <1>3, IndexFacts DEF ValuesMove, FrozenMoves
<1>5. FlagsMove
  <2>1. CASE f
    <3>1. frozen' = frozen \cup {account} /\ r[account].isFrozen
      BY <2>1, <1>1, <1>3
    <3> QED
      BY <3>1, <1>1, <1>3, IndexFacts DEF FlagsMove
  <2>2. CASE ~f
    <3>1. frozen' = frozen \ {account} /\ ~r[account].isFrozen
      BY <2>2, <1>1, <1>3
    <3> QED
      BY <3>1, <1>1, <1>3, IndexFacts DEF FlagsMove
  <2> QED
    BY <2>1, <2>2
<1>6. SupplyMoves
  BY <1>1, IndexFacts DEF SupplyMoves
<1> QED
  BY <1>1, <1>3, <1>4, <1>5, <1>6 DEF MovesTogether

\* So do partial freezes and their ends.
LEMMA IndexedPartialFreezeMoves ==
    ASSUME IndexInv, NEW account \in Wallets, NEW a \in Amounts,
           IndexedFreezePartialTokens(account, a) \/ IndexedUnfreezePartialTokens(account, a)
    PROVE  MovesTogether
<1> DEFINE x == IF IndexedFreezePartialTokens(account, a) THEN a ELSE 0 - a
<1>1. /\ UNCHANGED <<indexedSupply, supplyRead, indexedPaused, followed>>
      /\ UNCHANGED <<balances, totalSupply, frozen, paused>>
  BY DEF IndexedFreezePartialTokens, IndexedUnfreezePartialTokens, FreezePartialTokens,
         UnfreezePartialTokens, Saved, ledgerVars
<1>2. tokenBalances \in Entities /\ a \in Int /\ x \in Int
  BY IndexFacts
<1>3. /\ tokenBalances' \in Entities
      /\ \A w \in Wallets :
            /\ tokenBalances'[w].value = tokenBalances[w].value
            /\ tokenBalances'[w].frozen = tokenBalances[w].frozen + (IF w = account THEN x ELSE 0)
            /\ tokenBalances'[w].isFrozen = tokenBalances[w].isFrozen
      /\ frozenTokens' = [frozenTokens EXCEPT ![account] = @ + x]
  <2>1. CASE IndexedFreezePartialTokens(account, a)
    <3> DEFINE r == IncreaseTokenBalanceFrozen(tokenBalances, account, a)
    <3>1. /\ r \in Entities
          /\ \A w \in Wallets :
                /\ r[w].value = tokenBalances[w].value
                /\ r[w].frozen = tokenBalances[w].frozen + (IF w = account THEN a ELSE 0)
                /\ r[w].isFrozen = tokenBalances[w].isFrozen
      BY ONLY <1>2, account \in Wallets, IncreaseFrozenFacts
    <3>2. /\ tokenBalances' = r
          /\ frozenTokens' = [frozenTokens EXCEPT ![account] = @ + a]
          /\ x = a
      BY <2>1 DEF IndexedFreezePartialTokens, FreezePartialTokens, Saved
    <3> HIDE DEF r, x
    <3> QED
      BY <3>1, <3>2
  <2>2. CASE ~IndexedFreezePartialTokens(account, a)
    <3> DEFINE r == DecreaseTokenBalanceFrozen(tokenBalances, account, a)
    <3>1. /\ r \in Entities
          /\ \A w \in Wallets :
                /\ r[w].value = tokenBalances[w].value
                /\ r[w].frozen = tokenBalances[w].frozen - (IF w = account THEN a ELSE 0)
                /\ r[w].isFrozen = tokenBalances[w].isFrozen
      BY ONLY <1>2, account \in Wallets, DecreaseFrozenFacts
    <3>2. /\ tokenBalances' = r
          /\ frozenTokens' = [frozenTokens EXCEPT ![account] = @ - a]
          /\ x = 0 - a
      BY <2>2 DEF IndexedUnfreezePartialTokens, UnfreezePartialTokens, Saved
    <3> HIDE DEF r, x
    <3>3. frozenTokens[account] - a = frozenTokens[account] + x
      BY <3>2, <1>2, IndexFacts
    <3>4. \A w \in Wallets : tokenBalances[w].frozen \in Int
      BY IndexFacts
    <3>5. \A w \in Wallets :
             r[w].frozen = tokenBalances[w].frozen + (IF w = account THEN x ELSE 0)
      BY <3>1, <3>2, <3>4, <1>2
    <3>6. frozenTokens' = [frozenTokens EXCEPT ![account] = @ + x]
      BY <3>2, <3>3
    <3> QED
      BY <3>1, <3>2, <3>5, <3>6
  <2> QED
    BY <2>1, <2>2
<1> HIDE DEF x
<1>4. ValuesMove
  BY <1>1, <1>3, IndexFacts DEF ValuesMove
<1>5. FrozenMoves
  <2>1. \A w \in Wallets : frozenTokens'[w] = frozenTokens[w] + (IF w = account THEN x ELSE 0)
    BY <1>2, <1>3, IndexFacts
  <2> QED
    BY <2>1, <1>2, <1>3, IndexFacts DEF FrozenMoves
<1>6. FlagsKept
  BY <1>1, <1>3 DEF FlagsKept
<1>7. SupplyMoves
  BY <1>1, IndexFacts DEF SupplyMoves
<1> QED
  BY <1>3, <1>4, <1>5, <1>6, <1>7, KeptFlags DEF MovesTogether

\* So do freezes, pauses and what happens in the registry, which move nothing.
LEMMA QuietMoves ==
    ASSUME IndexInv, IndexedSwitch \/ IndexedRegistryStep
    PROVE  MovesTogether
<1>1. /\ UNCHANGED <<tokenBalances, indexedSupply, supplyRead, followed>>
      /\ UNCHANGED <<balances, totalSupply, frozen, frozenTokens>>
  BY DEF IndexedSwitch, Pause, Unpause, HandlePaused, IndexedRegistryStep, RegistryStep,
         RecoverWallet, ForgetWallets, ChangeEligibility, Saved, ledgerVars, custodianVars
<1>2. indexedPaused' = paused'
  <2>1. CASE IndexedSwitch
    BY <2>1 DEF IndexedSwitch, Pause, Unpause, HandlePaused
  <2>2. CASE IndexedRegistryStep
    BY <2>2, IndexFacts DEF IndexedRegistryStep, RegistryStep, RecoverWallet, ForgetWallets,
                            ChangeEligibility, Saved
  <2> QED
    BY <2>1, <2>2
<1> QED
  BY <1>1, <1>2, IndexFacts
  DEF MovesTogether, ValuesMove, FrozenMoves, FlagsMove, SupplyMoves

\* What no event reports takes tokens from the ledger only.
LEMMA UnreportedBurnMoves ==
    ASSUME IndexInv, UnreportedBurn
    PROVE  /\ tokenBalances' \in Entities
           /\ \A w \in Wallets : tokenBalances'[w].value = tokenBalances[w].value
           /\ \A w \in Wallets : balances'[w] <= balances[w]
           /\ totalSupply' <= totalSupply
           /\ FrozenMoves
           /\ FlagsMove
           /\ UNCHANGED <<indexedSupply, supplyRead, followed>>
<1> DEFINE Goal == /\ tokenBalances' \in Entities
                   /\ \A w \in Wallets : tokenBalances'[w].value = tokenBalances[w].value
                   /\ \A w \in Wallets : balances'[w] <= balances[w]
                   /\ totalSupply' <= totalSupply
                   /\ FrozenMoves
                   /\ FlagsMove
                   /\ UNCHANGED <<indexedSupply, supplyRead, followed>>
<1>1. ASSUME NEW from \in Wallets, NEW a \in Nat, Update(from, None, a)
      PROVE  /\ \A w \in Wallets : balances'[w] <= balances[w]
             /\ totalSupply' <= totalSupply
             /\ UNCHANGED paused
  <2>1. /\ \A w \in Wallets : balances'[w] = balances[w]
             - (IF w = from THEN a ELSE 0) + (IF w = None THEN a ELSE 0)
        /\ totalSupply' = totalSupply + (IF from = None THEN a ELSE 0)
                                      - (IF None = None THEN a ELSE 0)
        /\ UNCHANGED paused
    BY <1>1 DEF Update
  <2> QED
    BY <2>1, <1>1, IndexFacts
<1>2. ASSUME NEW w \in Wallets, NEW a \in Nat, IndexedRedeem(w, a)
      PROVE  Goal
  <2>1. /\ Update(w, None, a)
        /\ UNCHANGED <<frozen, frozenTokens, tokenBalances>>
        /\ UNCHANGED <<indexedSupply, supplyRead, indexedPaused, followed>>
    BY <1>2 DEF IndexedRedeem, Redeem, Saved, custodianVars
  <2>2. /\ \A x \in Wallets : balances'[x] <= balances[x]
        /\ totalSupply' <= totalSupply
        /\ UNCHANGED paused
    BY <2>1, <1>1
  <2>3. FrozenMoves /\ FlagsMove
    BY <2>1, <2>2, IndexFacts DEF FrozenMoves, FlagsMove
  <2> QED
    BY <2>1, <2>2, <2>3, IndexFacts
<1>3. ASSUME NEW w \in Wallets, NEW a \in Amounts, IndexedForcedBurn(w, a)
      PROVE  Goal
  <2> DEFINE u == UnfrozenByTaking(w, a)
  <2>1. /\ Update(w, None, a)
        /\ UNCHANGED frozen
        /\ frozenTokens' = FrozenAfterTaking(w, a)
        /\ tokenBalances' = u
        /\ UNCHANGED <<indexedSupply, supplyRead, indexedPaused, followed>>
        /\ a \in Nat
    BY <1>3 DEF IndexedForcedBurn, ForcedTransfer, Saved
  <2>2. /\ \A x \in Wallets : balances'[x] <= balances[x]
        /\ totalSupply' <= totalSupply
        /\ UNCHANGED paused
    BY <2>1, <1>1
  <2>3. /\ u \in Entities
        /\ \A x \in Wallets :
              /\ u[x].value = tokenBalances[x].value
              /\ u[x].frozen - tokenBalances[x].frozen = frozenTokens'[x] - frozenTokens[x]
              /\ u[x].isFrozen = tokenBalances[x].isFrozen
    BY <2>1, TakingMoves
  <2> HIDE DEF u
  <2>4. FrozenMoves
    BY <2>1, <2>3 DEF FrozenMoves
  <2>5. FlagsKept
    BY <2>1, <2>2, <2>3 DEF FlagsKept
  <2> QED
    BY <2>1, <2>2, <2>3, <2>4, <2>5, KeptFlags
<1>4. \A w \in Wallets : balances[w] \in Nat
  BY IndexFacts
<1> HIDE DEF Goal
<1>5. Goal
  BY <1>2, <1>3, <1>4 DEF UnreportedBurn
<1> QED
  BY <1>5 DEF Goal

-----------------------------------------------------------------------------
(* The invariant.                                                          *)

\* Every step that reports its burns moves the index as the ledger, but for a
\* recovery of tokens.
LEMMA ReportedMoves ==
    ASSUME IndexInv, ReportedStep
    PROVE  \/ MovesTogether
           \/ \E l, n \in Wallets : IndexedRecoverTokens(l, n)
<1>1. ASSUME NEW from \in Wallets, NEW to \in Wallets, NEW a \in Amounts,
             IndexedTransfer(from, to, a) \/ IndexedForcedTransfer(from, to, a)
      PROVE  MovesTogether
  BY <1>1, IndexedTransferMoves, IndexedForcedTransferMoves
<1> QED
  BY <1>1, MintMoves, IndexedBurnMoves, IndexedSetAddressFrozenMoves,
     IndexedPartialFreezeMoves, QuietMoves DEF ReportedStep

\* What is left to show of a step: the index has not fallen behind.
LEMMA MovedInv ==
    ASSUME IndexInv, TokenInv',
           tokenBalances' \in Entities,
           \A w \in Wallets : /\ tokenBalances'[w].value >= balances'[w]
                              /\ tokenBalances'[w].frozen >= frozenTokens'[w],
           FlagsMove,
           indexedSupply' \in Int, supplyRead' \in Int, followed' \in BOOLEAN,
           ~followed' => supplyRead' = 0,
           indexedSupply' >= totalSupply' + supplyRead'
    PROVE  IndexInv'
<1>1. indexedPaused' \in BOOLEAN
  BY DEF FlagsMove, TokenInv, TokenTypeOK
<1>2. IndexedFlagsAgree'
  BY DEF IndexedFlagsAgree, FlagsMove, Entities
<1>3. IndexNeverUnderstates'
  BY DEF IndexNeverUnderstates
<1> QED
  BY <1>1, <1>2, <1>3 DEF IndexInv

\* Values and frozen amounts that move with the ledger do not fall behind it.
LEMMA MovesKeepAhead ==
    ASSUME IndexInv, TokenInv', tokenBalances' \in Entities, ValuesMove, FrozenMoves
    PROVE  \A w \in Wallets : /\ tokenBalances'[w].value >= balances'[w]
                              /\ tokenBalances'[w].frozen >= frozenTokens'[w]
<1>1. \A w \in Wallets : /\ tokenBalances[w].value \in Int
                         /\ tokenBalances[w].frozen \in Int
                         /\ balances[w] \in Nat
                         /\ frozenTokens[w] \in Nat
                         /\ tokenBalances[w].value >= balances[w]
                         /\ tokenBalances[w].frozen >= frozenTokens[w]
  BY IndexFacts DEF IndexInv, IndexNeverUnderstates
<1>2. \A w \in Wallets : /\ tokenBalances'[w].value \in Int
                         /\ tokenBalances'[w].frozen \in Int
                         /\ balances'[w] \in Nat
                         /\ frozenTokens'[w] \in Nat
  BY DEF Entities, TokenBalanceEntities, TokenInv, TokenTypeOK
<1> QED
  BY <1>1, <1>2 DEF ValuesMove, FrozenMoves

\* The parts of the index invariant that are about the supply.
LEMMA SupplyFacts ==
    ASSUME IndexInv
    PROVE  /\ indexedSupply \in Int /\ supplyRead \in Int /\ totalSupply \in Int
           /\ followed \in BOOLEAN
           /\ ~followed => supplyRead = 0
           /\ indexedSupply >= totalSupply + supplyRead
  BY IndexFacts DEF IndexInv, IndexNeverUnderstates

\* An indexed supply that moves as the ledger's stays no less than it.
LEMMA SupplyMovesKeeps ==
    ASSUME IndexInv, TokenInv', SupplyMoves, indexedSupply' \in Int
    PROVE  /\ supplyRead' \in Int /\ followed' \in BOOLEAN
           /\ ~followed' => supplyRead' = 0
           /\ indexedSupply' >= totalSupply' + supplyRead'
<1>1. totalSupply' \in Int
  BY DEF TokenInv, TokenTypeOK
<1> QED
  BY <1>1, SupplyFacts DEF SupplyMoves

\* The handlers only ever add integers to the indexed supply.
LEMMA IndexedSupplyInt ==
    ASSUME IndexInv, ReportedStep
    PROVE  indexedSupply' \in Int
<1>1. indexedSupply \in Int
  BY IndexFacts
<1>2. ASSUME NEW w \in Wallets, NEW a \in Amounts, IndexedMint(w, a) \/ IndexedBurn(w, a)
      PROVE  indexedSupply' \in Int
  BY <1>1, <1>2 DEF IndexedMint, HandleMintCompleted, IndexedBurn, HandleBurnCompleted
<1>3. ASSUME NEW from \in Wallets, NEW to \in Wallets, NEW a \in Amounts,
             IndexedTransfer(from, to, a) \/ IndexedForcedTransfer(from, to, a)
      PROVE  indexedSupply' \in Int
  BY <1>1, <1>3 DEF IndexedTransfer, IndexedForcedTransfer, Saved
<1>4. ASSUME NEW w \in Wallets, NEW a \in Amounts,
             IndexedFreezePartialTokens(w, a) \/ IndexedUnfreezePartialTokens(w, a)
      PROVE  indexedSupply' \in Int
  BY <1>1, <1>4 DEF IndexedFreezePartialTokens, IndexedUnfreezePartialTokens, Saved
<1>5. ASSUME IndexedSwitch \/ IndexedRegistryStep
      PROVE  indexedSupply' \in Int
  BY <1>1, <1>5 DEF IndexedSwitch, HandlePaused, IndexedRegistryStep, Saved
<1>6. ASSUME NEW l \in Wallets, NEW n \in Wallets, IndexedRecoverTokens(l, n)
      PROVE  indexedSupply' \in Int
  BY <1>1, <1>6 DEF IndexedRecoverTokens, Saved
<1>7. ASSUME NEW w \in Wallets, NEW f \in BOOLEAN, IndexedSetAddressFrozen(w, f)
      PROVE  indexedSupply' \in Int
  BY <1>1, <1>7 DEF IndexedSetAddressFrozen, Saved
<1> QED
  BY <1>2, <1>3, <1>4, <1>5, <1>6, <1>7 DEF ReportedStep

\* Every transaction with its handlers keeps the invariant of the index.
LEMMA IndexStepInv == IndexInv /\ [IndexedNext]_indexedVars => IndexInv'
<1> SUFFICES ASSUME IndexInv, [IndexedNext]_indexedVars PROVE IndexInv'
  OBVIOUS
<1>1. TokenInv'
  <2>1. TokenInv /\ [TokenNext]_tokenVars
    BY IndexedStepIsTokenStep DEF IndexInv, indexedVars
  <2> QED
    BY <2>1, TokenStepInv
<1>2. ASSUME MovesTogether, ReportedStep
      PROVE  IndexInv'
  BY <1>1, <1>2, IndexedSupplyInt, MovesKeepAhead, SupplyMovesKeeps, MovedInv
  DEF MovesTogether
<1>3. ASSUME NEW l \in Wallets, NEW n \in Wallets, IndexedRecoverTokens(l, n), ReportedStep
      PROVE  IndexInv'
  <2>1. /\ tokenBalances' \in Entities
        /\ ValuesMove
        /\ \A w \in Wallets : tokenBalances'[w].frozen >= frozenTokens'[w]
        /\ FlagsMove
        /\ SupplyMoves
    BY <1>3, RecoverTokensMoves
  <2>2. \A w \in Wallets : tokenBalances'[w].value >= balances'[w]
    <3>1. \A w \in Wallets : /\ tokenBalances[w].value \in Int
                             /\ balances[w] \in Nat
                             /\ tokenBalances[w].value >= balances[w]
      BY IndexFacts DEF IndexInv, IndexNeverUnderstates
    <3>2. \A w \in Wallets : tokenBalances'[w].value \in Int /\ balances'[w] \in Nat
      BY <1>1, <2>1 DEF Entities, TokenBalanceEntities, TokenInv, TokenTypeOK
    <3> QED
      BY <2>1, <3>1, <3>2 DEF ValuesMove
  <2>3. /\ indexedSupply' \in Int /\ supplyRead' \in Int /\ followed' \in BOOLEAN
        /\ ~followed' => supplyRead' = 0
        /\ indexedSupply' >= totalSupply' + supplyRead'
    BY <1>1, <1>3, <2>1, IndexedSupplyInt, SupplyMovesKeeps
  <2> QED
    BY <1>1, <2>1, <2>2, <2>3, MovedInv
<1>4. CASE UnreportedBurn
  <2>1. /\ tokenBalances' \in Entities
        /\ \A w \in Wallets : tokenBalances'[w].value = tokenBalances[w].value
        /\ \A w \in Wallets : balances'[w] <= balances[w]
        /\ totalSupply' <= totalSupply
        /\ FrozenMoves
        /\ FlagsMove
        /\ UNCHANGED <<indexedSupply, supplyRead, followed>>
    BY <1>4, UnreportedBurnMoves
  <2>2. \A w \in Wallets : /\ tokenBalances[w].value \in Int
                           /\ tokenBalances[w].frozen \in Int
                           /\ balances[w] \in Nat
                           /\ frozenTokens[w] \in Nat
                           /\ tokenBalances[w].value >= balances[w]
                           /\ tokenBalances[w].frozen >= frozenTokens[w]
    BY IndexFacts DEF IndexInv, IndexNeverUnderstates
  <2>3. /\ totalSupply' \in Int
        /\ \A w \in Wallets : /\ tokenBalances'[w].frozen \in Int
                              /\ balances'[w] \in Nat
                              /\ frozenTokens'[w] \in Nat
    BY <1>1, <2>1 DEF Entities, TokenBalanceEntities, TokenInv, TokenTypeOK
  <2>4. \A w \in Wallets : /\ tokenBalances'[w].value >= balances'[w]
                           /\ tokenBalances'[w].frozen >= frozenTokens'[w]
    BY <2>1, <2>2, <2>3 DEF FrozenMoves
  <2>5. /\ indexedSupply' \in Int /\ supplyRead' \in Int /\ followed' \in BOOLEAN
        /\ ~followed' => supplyRead' = 0
        /\ indexedSupply' >= totalSupply' + supplyRead'
    BY <2>1, <2>3, SupplyFacts
  <2> QED
    BY <1>1, <2>1, <2>4, <2>5, MovedInv
<1>5. CASE FetchToken
  <2>1. /\ UNCHANGED <<balances, frozenTokens, frozen, paused, totalSupply>>
        /\ UNCHANGED <<tokenBalances, indexedPaused>>
        /\ supplyRead' = totalSupply
        /\ indexedSupply' = totalSupply + indexedSupply
        /\ followed' = TRUE
    BY <1>5 DEF FetchToken, tokenVars, ledgerVars, custodianVars
  <2>2. FlagsMove /\ tokenBalances' \in Entities
    BY <2>1, IndexFacts DEF FlagsMove
  <2>3. /\ indexedSupply' \in Int /\ supplyRead' \in Int
        /\ indexedSupply' >= totalSupply' + supplyRead'
    <3>1. supplyRead = 0
      BY <1>5, SupplyFacts DEF FetchToken
    <3> QED
      BY <3>1, <2>1, SupplyFacts
  <2>4. \A w \in Wallets : /\ tokenBalances'[w].value >= balances'[w]
                           /\ tokenBalances'[w].frozen >= frozenTokens'[w]
    BY <2>1 DEF IndexInv, IndexNeverUnderstates
  <2> QED
    BY <1>1, <2>1, <2>2, <2>3, <2>4, MovedInv
<1>6. CASE UNCHANGED indexedVars
  <2>1. UNCHANGED indexVars /\ UNCHANGED <<balances, frozenTokens, frozen, paused, totalSupply>>
    BY <1>6 DEF indexedVars, tokenVars, ledgerVars, custodianVars
  <2>2. /\ tokenBalances' \in Entities
        /\ FlagsMove
        /\ \A w \in Wallets : /\ tokenBalances'[w].value >= balances'[w]
                              /\ tokenBalances'[w].frozen >= frozenTokens'[w]
    BY <2>1, IndexFacts DEF FlagsMove, indexVars, IndexInv, IndexNeverUnderstates
  <2>3. /\ indexedSupply' \in Int /\ supplyRead' \in Int /\ followed' \in BOOLEAN
        /\ ~followed' => supplyRead' = 0
        /\ indexedSupply' >= totalSupply' + supplyRead'
    BY <2>1, SupplyFacts DEF indexVars
  <2> QED
    BY <1>1, <2>2, <2>3, MovedInv
<1> QED
  BY <1>2, <1>3, <1>4, <1>5, <1>6, ReportedMoves DEF IndexedNext

\* A new token and its index satisfy it.
LEMMA IndexInitInv == IndexedInit => IndexInv
<1> SUFFICES ASSUME IndexedInit PROVE IndexInv
  OBVIOUS
<1>1. TokenInv
  BY TokenInitInv DEF IndexedInit
<1>2. /\ balances = [w \in Wallets |-> 0]
      /\ frozenTokens = [w \in Wallets |-> 0]
      /\ frozen = {}
      /\ totalSupply = 0
      /\ tokenBalances = [w \in Wallets |-> NoTokenBalance]
      /\ indexedSupply = 0
      /\ supplyRead = 0
  BY DEF IndexedInit, TokenInit
<1>3. indexedPaused = paused /\ indexedPaused \in BOOLEAN /\ followed \in BOOLEAN
  BY Zenon DEF IndexedInit, TokenInit
<1>4. /\ NoTokenBalance \in TokenBalanceEntities
      /\ UpdateAvailableAmount(NoTokenBalance) = NoTokenBalance
      /\ NoTokenBalance.value = 0 /\ NoTokenBalance.frozen = 0
      /\ NoTokenBalance.isFrozen = FALSE
  BY DEF NoTokenBalance, TokenBalanceEntities, UpdateAvailableAmount
<1> HIDE DEF NoTokenBalance
<1>5. \A w \in Wallets : tokenBalances[w] = NoTokenBalance
  BY <1>2
<1>6. tokenBalances \in Entities
  BY <1>2, <1>4, <1>5 DEF Entities
<1>7. IndexNeverUnderstates
  BY <1>2, <1>4, <1>5 DEF IndexNeverUnderstates
<1>8. IndexedFlagsAgree
  BY <1>2, <1>3, <1>4, <1>5 DEF IndexedFlagsAgree
<1>9. indexedSupply \in Int /\ supplyRead \in Int
  BY <1>2
<1> QED
  BY <1>1, <1>2, <1>3, <1>6, <1>7, <1>8, <1>9 DEF IndexInv

-----------------------------------------------------------------------------
(* The supply and the balances of the index.                               *)

IndexedValues == [w \in Wallets |-> tokenBalances[w].value]

ValuesTyped ==
    /\ IndexedValues \in [Wallets -> Int]
    /\ \A w \in Wallets : IndexedValues[w] = tokenBalances[w].value
    /\ SumFunction(IndexedValues) \in Int
    /\ balances \in [Wallets -> Int]
    /\ totalSupply = SumFunction(balances) /\ totalSupply \in Int

\* The values of the index are numbers.
LEMMA IndexedValuesFacts == IndexInv => ValuesTyped
<1> SUFFICES ASSUME IndexInv PROVE ValuesTyped
  OBVIOUS
<1>1. /\ IndexedValues \in [Wallets -> Int]
      /\ \A w \in Wallets : IndexedValues[w] = tokenBalances[w].value
  BY DEF IndexedValues, IndexInv, Entities, TokenBalanceEntities
<1>2. balances \in [Wallets -> Int] /\ totalSupply \in Int
  BY DEF IndexInv, TokenInv, TokenTypeOK
<1> QED
  BY <1>1, <1>2, SumIsInteger DEF IndexInv, TokenInv, SupplyIsSum, ValuesTyped

\* An index that shows nothing adds up.
LEMMA AddsUpInit == IndexedInit => IndexAddsUp
<1> SUFFICES ASSUME IndexedInit PROVE IndexAddsUp
  OBVIOUS
<1>1. IndexedValues = [w \in Wallets |-> 0]
  BY DEF IndexedInit, IndexedValues, NoTokenBalance
<1> QED
  BY <1>1, SumOfZeros DEF IndexedInit, IndexAddsUp, IndexedValues

\* The values and the supply of the index move with the ledger's, whose supply
\* is the sum of its balances, or neither moves.
LEMMA AddsUpStep ==
    ASSUME IndexInv, ValuesTyped, ValuesTyped', indexedSupply' \in Int,
           IndexAddsUp, [IndexedNext]_indexedVars
    PROVE  IndexAddsUp'
<1>1. /\ IndexedValues \in [Wallets -> Int]
      /\ \A w \in Wallets : IndexedValues[w] = tokenBalances[w].value
      /\ SumFunction(IndexedValues) \in Int
      /\ balances \in [Wallets -> Int]
      /\ totalSupply = SumFunction(balances) /\ totalSupply \in Int
  BY DEF ValuesTyped
<1>2. /\ IndexedValues' \in [Wallets -> Int]
      /\ \A w \in Wallets : IndexedValues'[w] = tokenBalances'[w].value
      /\ SumFunction(IndexedValues') \in Int
      /\ balances' \in [Wallets -> Int]
      /\ totalSupply' = SumFunction(balances') /\ totalSupply' \in Int
  BY DEF ValuesTyped
<1>3. /\ indexedSupply = supplyRead + SumFunction(IndexedValues)
      /\ indexedSupply \in Int /\ supplyRead \in Int
      /\ ~followed => supplyRead = 0
  BY DEF IndexAddsUp, IndexedValues, IndexInv
<1>4. SUFFICES indexedSupply' = supplyRead' + SumFunction(IndexedValues')
  BY DEF IndexAddsUp, IndexedValues
<1>5. ASSUME ValuesMove, SupplyMoves
      PROVE  indexedSupply' = supplyRead' + SumFunction(IndexedValues')
  <2>1. \A w \in Wallets : IndexedValues'[w] - IndexedValues[w] = balances'[w] - balances[w]
    BY <1>1, <1>2, <1>5 DEF ValuesMove
  <2>2. SumFunction(IndexedValues') - SumFunction(IndexedValues)
           = SumFunction(balances') - SumFunction(balances)
    BY <1>1, <1>2, <2>1, SumsMoveTogether
  <2>3. /\ indexedSupply' - totalSupply' = indexedSupply - totalSupply
        /\ supplyRead' = supplyRead
    BY <1>5 DEF SupplyMoves
  <2>4. totalSupply' - totalSupply = SumFunction(IndexedValues') - SumFunction(IndexedValues)
    BY <1>1, <1>2, <2>2
  <2>5. /\ indexedSupply' \in Int /\ totalSupply' \in Int /\ totalSupply \in Int
        /\ SumFunction(IndexedValues') \in Int /\ SumFunction(IndexedValues) \in Int
    BY <1>1, <1>2
  <2>6. indexedSupply' = indexedSupply + (totalSupply' - totalSupply)
    BY <1>3, <2>3, <2>5
  <2> DEFINE v == SumFunction(IndexedValues)
  <2> DEFINE u == SumFunction(IndexedValues')
  <2>7. totalSupply' - totalSupply = u - v /\ indexedSupply = supplyRead + v
    BY <1>3, <2>4
  <2>8. u \in Int /\ v \in Int
    BY <2>5
  <2> HIDE DEF u, v
  <2>9. indexedSupply' = supplyRead + u
    <3>1. supplyRead \in Int
      BY <1>3
    <3>2. indexedSupply' = (supplyRead + v) + (u - v)
      BY <2>6, <2>7
    <3> QED
      BY ONLY <2>8, <3>1, <3>2
  <2> QED
    BY <2>3, <2>9 DEF u
<1>6. ASSUME \A w \in Wallets : tokenBalances'[w].value = tokenBalances[w].value
      PROVE  SumFunction(IndexedValues') = SumFunction(IndexedValues)
  <2>1. IndexedValues' = IndexedValues
    BY <1>6 DEF IndexedValues
  <2> QED
    BY <2>1
<1>7. CASE ReportedStep
  <2>1. CASE MovesTogether
    BY <1>5, <2>1 DEF MovesTogether
  <2>2. ASSUME NEW l \in Wallets, NEW n \in Wallets, IndexedRecoverTokens(l, n)
        PROVE  indexedSupply' = supplyRead' + SumFunction(IndexedValues')
    BY <1>5, <2>2, RecoverTokensMoves
  <2> QED
    BY <1>7, <2>1, <2>2, ReportedMoves
<1>8. CASE UnreportedBurn
  BY <1>3, <1>6, <1>8, UnreportedBurnMoves
<1>9. CASE FetchToken
  BY <1>1, <1>3, <1>6, <1>9 DEF FetchToken
<1>10. CASE UNCHANGED indexedVars
  BY <1>3, <1>6, <1>10 DEF indexedVars, indexVars
<1> QED
  BY <1>7, <1>8, <1>9, <1>10 DEF IndexedNext

-----------------------------------------------------------------------------
(* The theorems.                                                           *)

\* The invariant holds in every state of every run of the token and its index.
THEOREM IndexInvariant == IndexedSpec => []IndexInv
<1> QED
  BY IndexInitInv, IndexStepInv, PTL DEF IndexedSpec

\* The entities and the token have their types.
THEOREM IndexTypesHold == IndexedSpec => []IndexTypeOK
<1>1. IndexInv => IndexTypeOK
  BY DEF IndexInv, IndexTypeOK, TokenInv, Entities
<1> QED
  BY <1>1, IndexInvariant, PTL

\* However many redemptions, forced burns and overwritten freezes the index
\* misses, it never shows less than there is.
THEOREM IndexErrsUpwards == IndexedSpec => []IndexNeverUnderstates
<1>1. IndexInv => IndexNeverUnderstates
  BY DEF IndexInv
<1> QED
  BY <1>1, IndexInvariant, PTL

\* What the handlers of different events add up never parts: the indexed supply
\* is the sum of the indexed balances and of what the creation block had minted.
THEOREM IndexedSupplyIsSum == IndexedSpec => []IndexAddsUp
<1>1. IndexInv /\ IndexInv' /\ ValuesTyped /\ ValuesTyped' /\ IndexAddsUp
         /\ [IndexedNext]_indexedVars => IndexAddsUp'
  BY AddsUpStep DEF IndexInv
<1> QED
  BY <1>1, AddsUpInit, IndexInvariant, IndexedValuesFacts, PTL DEF IndexedSpec

\* The freezes and the pause of the index are those of the token, and the
\* available amounts are those of its own entities.
THEOREM FlagsOfIndexAreExact == IndexedSpec => []IndexedFlagsAgree
<1>1. IndexInv => IndexedFlagsAgree
  BY DEF IndexInv
<1> QED
  BY <1>1, IndexInvariant, PTL

\* But for the burns no event reports and the recoveries that overwrite a
\* freeze, every step moves the index exactly as it moves the ledger.
THEOREM IndexMovesExactly == IndexedSpec => IndexMovesWithLedger
<1> DEFINE A == /\ \/ UnreportedBurn /\ \A w \in Wallets :
                                          tokenBalances'[w].value = tokenBalances[w].value
                   \/ ValuesMove
                /\ \/ \E l, n \in Wallets : OverwritesFreeze(l, n) /\ IndexedRecoverTokens(l, n)
                   \/ FrozenMoves
<1>1. IndexInv /\ [IndexedNext]_indexedVars => [A]_indexedVars
  <2> SUFFICES ASSUME IndexInv, IndexedNext PROVE A
    OBVIOUS
  <2>1. CASE ReportedStep
    <3>1. CASE MovesTogether
      BY <3>1 DEF MovesTogether
    <3>2. ASSUME NEW l \in Wallets, NEW n \in Wallets, IndexedRecoverTokens(l, n)
          PROVE  A
      BY <3>2, RecoverTokensMoves
    <3> QED
      BY <2>1, <3>1, <3>2, ReportedMoves
  <2>2. CASE UnreportedBurn
    BY <2>2, UnreportedBurnMoves
  <2>3. CASE FetchToken
    <3>1. UNCHANGED <<tokenBalances, balances, frozenTokens>>
      BY <2>3 DEF FetchToken, tokenVars, ledgerVars, custodianVars
    <3> QED
      BY <3>1, IndexFacts DEF ValuesMove, FrozenMoves
  <2> QED
    BY <2>1, <2>2, <2>3 DEF IndexedNext
<1> QED
  BY <1>1, IndexInvariant, PTL
  DEF IndexedSpec, IndexMovesWithLedger, ValuesMove, FrozenMoves

=============================================================================
