--------------------------- MODULE SubgraphToken ---------------------------
(***************************************************************************)
(* A token beside its index: the TokenBalance, Token and TokenPausable     *)
(* entities the subgraph keeps from the token's events.  Every transaction *)
(* of the token emits its events, in order, and the handlers of these      *)
(* events run in that order; Graph Node commits the entities block by      *)
(* block, so a transaction and its handlers are one step here.             *)
(*                                                                         *)
(* The token is indexed from the block of its creation on.  fetchToken     *)
(* reads totalSupply() from the state at the end of that block, and the    *)
(* handlers then also run on the events of that same block: followed       *)
(* becomes TRUE at its end.                                                *)
(***************************************************************************)
EXTENDS SMARTToken

CONSTANT MaxDrift       \* bound on what the index may come to overstate

ASSUME DriftAssumption == MaxDrift \in Nat

VARIABLES
    tokenBalances,      \* TokenBalance entities, one per wallet
    indexedSupply,      \* Token.totalSupplyExact
    supplyRead,         \* what fetchToken read from totalSupply()
    indexedPaused,      \* TokenPausable.paused
    followed            \* the block of the token's creation is over

indexVars == <<tokenBalances, indexedSupply, supplyRead, indexedPaused, followed>>
indexedVars == <<tokenVars, indexVars>>

TokenBalanceEntities == [value : Int, frozen : Int, isFrozen : BOOLEAN, available : Int]

\* fetchTokenBalance creates an entity that is missing.
NoTokenBalance == [value |-> 0, frozen |-> 0, isFrozen |-> FALSE, available |-> 0]

IndexTypeOK ==
    /\ TokenTypeOK
    /\ tokenBalances \in [Wallets -> TokenBalanceEntities]
    /\ indexedSupply \in Int
    /\ supplyRead \in Int
    /\ indexedPaused \in BOOLEAN
    /\ followed \in BOOLEAN

IndexedInit ==
    /\ TokenInit
    /\ tokenBalances = [w \in Wallets |-> NoTokenBalance]
    /\ indexedSupply = 0
    /\ supplyRead = 0
    /\ indexedPaused = FALSE
    /\ followed = FALSE

-----------------------------------------------------------------------------
(* Writes on the entities.                                                 *)

UpdateAvailableAmount(balance) ==
    [balance EXCEPT !.available =
        IF balance.isFrozen THEN 0 ELSE balance.value - balance.frozen]

IncreaseTokenBalanceValue(bs, account, a) ==
    [bs EXCEPT ![account] = UpdateAvailableAmount([bs[account] EXCEPT !.value = @ + a])]

DecreaseTokenBalanceValue(bs, account, a) ==
    [bs EXCEPT ![account] = UpdateAvailableAmount([bs[account] EXCEPT !.value = @ - a])]

IncreaseTokenBalanceFrozen(bs, account, a) ==
    [bs EXCEPT ![account] = UpdateAvailableAmount([bs[account] EXCEPT !.frozen = @ + a])]

DecreaseTokenBalanceFrozen(bs, account, a) ==
    [bs EXCEPT ![account] = UpdateAvailableAmount([bs[account] EXCEPT !.frozen = @ - a])]

FreezeOrUnfreezeTokenBalance(bs, account, freeze) ==
    [bs EXCEPT ![account] = UpdateAvailableAmount([bs[account] EXCEPT !.isFrozen = freeze])]

-----------------------------------------------------------------------------
(* The handlers.                                                           *)

\* Mutant: the sender's entity, read before the recipient's is written, is
\* saved last; for a transfer to oneself the increase is lost.
HandleTransferStale(bs, from, to, a) ==
    [IncreaseTokenBalanceValue(bs, to, a) EXCEPT
        ![from] = UpdateAvailableAmount([bs[from] EXCEPT !.value = @ - a])]

HandleTransferCompleted(bs, from, to, a) ==
    IncreaseTokenBalanceValue(DecreaseTokenBalanceValue(bs, from, a), to, a)

HandleMintCompleted(to, a) ==
    /\ indexedSupply' = indexedSupply + a
    /\ tokenBalances' = IncreaseTokenBalanceValue(tokenBalances, to, a)
    /\ UNCHANGED <<supplyRead, indexedPaused, followed>>

\* Mutant: the supply is not decreased.
HandleBurnOfBalance(bs, from, a) ==
    /\ tokenBalances' = DecreaseTokenBalanceValue(bs, from, a)
    /\ UNCHANGED <<indexedSupply, supplyRead, indexedPaused, followed>>

HandleBurnCompleted(bs, from, a) ==
    /\ indexedSupply' = indexedSupply - a
    /\ tokenBalances' = DecreaseTokenBalanceValue(bs, from, a)
    /\ UNCHANGED <<supplyRead, indexedPaused, followed>>

\* The last of a transaction's handlers leaves the entities as bs.
Saved(bs) ==
    /\ tokenBalances' = bs
    /\ UNCHANGED <<indexedSupply, supplyRead, indexedPaused, followed>>

HandlePaused(p) ==
    /\ indexedPaused' = p
    /\ UNCHANGED <<tokenBalances, indexedSupply, supplyRead, followed>>

\* Mutant: the event carries the whole amount moved.
UnfrozenWholeAmount(w, a) ==
    IF a > Available(w) THEN DecreaseTokenBalanceFrozen(tokenBalances, w, a)
    ELSE tokenBalances

\* TokensUnfrozen comes before the event of the update that took from the
\* frozen amount, and only if it did.
UnfrozenByTaking(w, a) ==
    IF a > Available(w)
    THEN DecreaseTokenBalanceFrozen(tokenBalances, w, a - Available(w))
    ELSE tokenBalances

\* Mutant: the handler of AddressFrozen does not see the unfreezing of the
\* replacement.
RecoveryUnseenUnfreeze(l, n) ==
    LET moved == HandleTransferCompleted(tokenBalances, l, n, balances[l])
        migrated == IncreaseTokenBalanceFrozen(
                        DecreaseTokenBalanceFrozen(moved, l, frozenTokens[l]), n, frozenTokens[l])
        partial == IF frozenTokens[l] > 0 THEN migrated ELSE moved
    IN IF l \in frozen
       THEN FreezeOrUnfreezeTokenBalance(
                FreezeOrUnfreezeTokenBalance(partial, n, TRUE), l, FALSE)
       ELSE partial

\* The events of a recovery: TransferCompleted, the partial freeze leaving one
\* wallet and arriving at the other, the flag of one or both.
RecoveryEvents(l, n) ==
    LET moved == HandleTransferCompleted(tokenBalances, l, n, balances[l])
        migrated == IncreaseTokenBalanceFrozen(
                        DecreaseTokenBalanceFrozen(moved, l, frozenTokens[l]), n, frozenTokens[l])
        partial == IF frozenTokens[l] > 0 THEN migrated ELSE moved
    IN IF l \in frozen
       THEN FreezeOrUnfreezeTokenBalance(
                FreezeOrUnfreezeTokenBalance(partial, n, TRUE), l, FALSE)
       ELSE IF n \in frozen THEN FreezeOrUnfreezeTokenBalance(partial, n, FALSE)
       ELSE partial

-----------------------------------------------------------------------------
(* Transactions of the token with the handlers of their events.            *)

IndexedMint(to, a) == Mint(to, a) /\ HandleMintCompleted(to, a)

IndexedTransfer(from, to, a) ==
    /\ Transfer(from, to, a)
    /\ Saved(HandleTransferCompleted(tokenBalances, from, to, a))

\* Nothing handles Redeemed, and a burn by a forced transfer to the zero
\* address has no event but that of its unfreezing.
RoomForDrift(a) == indexedSupply - totalSupply + a <= MaxDrift

IndexedRedeem(w, a) ==
    /\ RoomForDrift(a)
    /\ Redeem(w, a)
    /\ Saved(tokenBalances)

IndexedForcedBurn(from, a) ==
    /\ RoomForDrift(a)
    /\ ForcedTransfer(from, None, a)
    /\ Saved(UnfrozenByTaking(from, a))

IndexedForcedTransfer(from, to, a) ==
    /\ ForcedTransfer(from, to, a)
    /\ Saved(HandleTransferCompleted(UnfrozenByTaking(from, a), from, to, a))

IndexedBurn(w, a) ==
    /\ Burn(w, a)
    /\ HandleBurnCompleted(UnfrozenByTaking(w, a), w, a)

\* A recovery onto a wallet with a partial freeze: the token overwrites the
\* amount, the index adds to it.
OverwritesFreeze(l, n) == l # n /\ frozenTokens[l] > 0 /\ frozenTokens[n] > 0

IndexedRecoverTokens(l, n) ==
    /\ OverwritesFreeze(l, n) => tokenBalances[n].frozen <= MaxDrift
    /\ RecoverTokens(l, n)
    /\ Saved(RecoveryEvents(l, n))

IndexedSetAddressFrozen(w, freeze) ==
    /\ SetAddressFrozen(w, freeze)
    /\ Saved(FreezeOrUnfreezeTokenBalance(tokenBalances, w, freeze))

IndexedFreezePartialTokens(w, a) ==
    /\ FreezePartialTokens(w, a)
    /\ Saved(IncreaseTokenBalanceFrozen(tokenBalances, w, a))

IndexedUnfreezePartialTokens(w, a) ==
    /\ UnfreezePartialTokens(w, a)
    /\ Saved(DecreaseTokenBalanceFrozen(tokenBalances, w, a))

IndexedSwitch == (Pause \/ Unpause) /\ HandlePaused(~paused)

\* What the registry does is no event of the token.
IndexedRegistryStep == RegistryStep /\ Saved(tokenBalances)

\* The creation block ends: Token.totalSupply starts from what totalSupply()
\* says by then, and the mints and burns of the block are counted on top.
FetchToken ==
    /\ ~followed
    /\ totalSupply <= MaxDrift
    /\ followed' = TRUE
    /\ supplyRead' = totalSupply
    /\ indexedSupply' = totalSupply + indexedSupply
    /\ UNCHANGED <<tokenVars, tokenBalances, indexedPaused>>

UnreportedBurn ==
    \/ \E w \in Wallets, a \in Amounts : IndexedRedeem(w, a)
    \/ \E w \in Wallets : IndexedRedeem(w, balances[w])
    \/ \E w \in Wallets, a \in Amounts : IndexedForcedBurn(w, a)

ReportedStep ==
    \/ \E to \in Wallets, a \in Amounts : IndexedMint(to, a)
    \/ \E from, to \in Wallets, a \in Amounts :
          IndexedTransfer(from, to, a) \/ IndexedForcedTransfer(from, to, a)
    \/ \E w \in Wallets, a \in Amounts : IndexedBurn(w, a)
    \/ \E l, n \in Wallets : IndexedRecoverTokens(l, n)
    \/ \E w \in Wallets, f \in BOOLEAN : IndexedSetAddressFrozen(w, f)
    \/ \E w \in Wallets, a \in Amounts :
          IndexedFreezePartialTokens(w, a) \/ IndexedUnfreezePartialTokens(w, a)
    \/ IndexedSwitch
    \/ IndexedRegistryStep

IndexedNext ==
    \/ ReportedStep
    \/ UnreportedBurn
    \/ FetchToken

IndexedSpec == IndexedInit /\ [][IndexedNext]_indexedVars

-----------------------------------------------------------------------------
(* Properties.                                                             *)

\* The index of a token never shows a wallet less than it holds or than is
\* frozen of it, and never less supply than there is and than the creation
\* block counted twice: what it misses (redemptions, forced burns, overwritten
\* freezes) only makes it overstate.
IndexNeverUnderstates ==
    /\ \A w \in Wallets : /\ tokenBalances[w].value >= balances[w]
                          /\ tokenBalances[w].frozen >= frozenTokens[w]
    /\ indexedSupply >= totalSupply + supplyRead

\* The supply and the holders' balances are kept by different handlers, and
\* they never part: they differ by what the creation block had minted at its
\* end, which is counted twice.
IndexAddsUp ==
    indexedSupply = supplyRead + SumFunction([w \in Wallets |-> tokenBalances[w].value])

\* The flags of the index are those of the token after any mix of freezes and
\* recoveries, which move the flag of one wallet and may clear the other's, and
\* available is what the flag and the amounts of the entity say.
IndexedFlagsAgree ==
    /\ indexedPaused = paused
    /\ \A w \in Wallets :
          /\ tokenBalances[w].isFrozen <=> w \in frozen
          /\ tokenBalances[w] = UpdateAvailableAmount(tokenBalances[w])

\* Every step moves the indexed value and the indexed frozen amount of each
\* wallet by exactly what the ledger moves them, whatever they have come to
\* differ by, but for a burn that no event reports, which leaves the indexed
\* values as they are, and a recovery that overwrites what is frozen on the
\* replacement.
IndexMovesWithLedger ==
    [][/\ \/ UnreportedBurn /\ \A w \in Wallets : tokenBalances'[w].value = tokenBalances[w].value
          \/ \A w \in Wallets :
                tokenBalances'[w].value - tokenBalances[w].value = balances'[w] - balances[w]
       /\ (\E l, n \in Wallets : OverwritesFreeze(l, n) /\ IndexedRecoverTokens(l, n))
          \/ \A w \in Wallets :
                tokenBalances'[w].frozen - tokenBalances[w].frozen
                   = frozenTokens'[w] - frozenTokens[w]
      ]_indexedVars

\* "Token Lifecycle: Mint, burn, and redemption events": what is minted,
\* burned and redeemed reaches the indexed supply.
SupplyIndexFollowsLifecycle ==
    [][indexedSupply' - indexedSupply = totalSupply' - totalSupply \/ ~followed]_indexedVars
=============================================================================
