----------------------------- MODULE SMARTBond -----------------------------
(***************************************************************************)
(* A bond: a token with a cap and a maturity date, each unit of which is   *)
(* redeemed at face value in an underlying asset once the issuer has       *)
(* closed the bond by mature.  What the bond adds is conjoined to the      *)
(* token's transactions: the cap and the yield schedule stop mints,        *)
(* maturity stops every movement between wallets, and a redemption pays.   *)
(***************************************************************************)
EXTENDS SMARTToken

CONSTANTS
    Cap,            \* _cap: the largest supply a mint may reach
    FaceValue,      \* _faceValue: underlying asset per whole bond
    Unit,           \* 10 ** decimals(): base units of a whole bond
    MaturityDate,   \* _maturityDate
    YieldDates,     \* start dates of the yield schedules that may be set
    MaxTime,        \* bound on the clock
    RefusalLimits,  \* limits of the underlying asset's transfers, see refusedFrom
    MaxUnderlying,  \* bound on the underlying asset funded into the bond
    MaxIssued       \* bound on the bonds in circulation and redeemed, together

ASSUME BondAssumption ==
    /\ None \notin Nat
    /\ Cap \in Nat
    /\ FaceValue \in Nat \ {0}
    /\ Unit \in Nat \ {0}
    /\ MaturityDate \in Nat \ {0}
    /\ YieldDates \subseteq Nat
    /\ MaxTime \in Nat
    /\ RefusalLimits \subseteq Nat
    /\ MaxUnderlying \in Nat
    /\ MaxIssued \in Nat

VARIABLES
    isMatured,      \* set by mature, never reset
    now,            \* block.timestamp
    underlying,     \* underlyingAssetBalance()
    bondRedeemed,   \* bonds redeemed per wallet
    paidOut,        \* underlying asset paid to redeemers so far
    yieldStart,     \* startDate of the yield schedule, None while none is set
    refusedFrom     \* the least amount of the underlying asset that the asset
                    \* refuses to transfer from the bond to a wallet

issueVars == <<isMatured, yieldStart>>
paymentVars == <<underlying, bondRedeemed, paidOut>>
worldVars == <<now, refusedFrom>>
bondVars == <<issueVars, worldVars, paymentVars>>
vars == <<tokenVars, bondVars>>

BondTypeOK ==
    /\ TokenTypeOK
    /\ isMatured \in BOOLEAN
    /\ now \in Nat
    /\ underlying \in Nat
    /\ bondRedeemed \in [Wallets -> Nat]
    /\ paidOut \in Nat
    /\ yieldStart \in Nat \cup {None}
    /\ refusedFrom \in [Wallets -> Nat]

BondInit ==
    /\ TokenInit
    /\ isMatured = FALSE
    /\ now = 0
    /\ underlying = 0
    /\ bondRedeemed = [w \in Wallets |-> 0]
    /\ paidOut = 0
    /\ yieldStart = None
    /\ refusedFrom \in [Wallets -> RefusalLimits]

-----------------------------------------------------------------------------
(* What the bonds are worth.                                               *)

\* Mutant: rounded up.
UnderlyingRoundedUp(a) == (a * FaceValue + Unit - 1) \div Unit

\* Bonds are worth whole base units of the underlying asset, rounded down.
UnderlyingFor(a) == (a * FaceValue) \div Unit

TotalUnderlyingNeeded == UnderlyingFor(totalSupply)

TotalRedeemed == SumFunction(bondRedeemed)

YieldStarted == yieldStart # None /\ yieldStart <= now

-----------------------------------------------------------------------------
(* The token's transactions, with the bond's hooks.                        *)

BondMint(to, a) ==
    /\ totalSupply + TotalRedeemed + a <= MaxIssued
    /\ totalSupply + a <= Cap
    /\ ~YieldStarted
    /\ Mint(to, a)
    /\ UNCHANGED bondVars

\* _beforeTransfer lets nothing move between wallets after maturity, whoever
\* asks; a burn is not a transfer.
MayMove(to) == isMatured => to = None

BondTransfer(from, to, a) ==
    /\ MayMove(to)
    /\ Transfer(from, to, a)
    /\ UNCHANGED bondVars

BondForcedTransfer(from, to, a) ==
    /\ MayMove(to)
    /\ ForcedTransfer(from, to, a)
    /\ UNCHANGED bondVars

BondBurn(w, a) == Burn(w, a) /\ UNCHANGED bondVars

BondRecoverTokens(l, n) ==
    /\ MayMove(n)
    /\ RecoverTokens(l, n)
    /\ UNCHANGED bondVars

\* Mutant: the last unit is never paid out.
CanPayStrictly(a) == underlying > UnderlyingFor(a)

CanPay(a) == underlying >= UnderlyingFor(a)

\* Whether the underlying asset's own transfer goes through.  A SMART asset
\* refuses every amount while it is paused, while the wallet is unverified or
\* frozen or the bond is, and what is frozen of the bond's balance.
AssetAccepts(w, a) == UnderlyingFor(a) < refusedFrom[w]

\* redeem, or redeemAll with the whole balance.
CanRedeemBonds(w, a) ==
    /\ isMatured
    /\ a > 0
    /\ w \notin frozen
    /\ Available(w) >= a
    /\ CanPay(a)
    /\ CanUpdate(w, a)
    /\ AssetAccepts(w, a)

RedeemBonds(w, a) ==
    /\ CanRedeemBonds(w, a)
    /\ Redeem(w, a)
    /\ bondRedeemed' = [bondRedeemed EXCEPT ![w] = @ + a]
    /\ underlying' = underlying - UnderlyingFor(a)
    /\ paidOut' = paidOut + UnderlyingFor(a)
    /\ UNCHANGED <<issueVars, worldVars>>

-----------------------------------------------------------------------------
(* The issuer's transactions, and the world's.                             *)

Mature ==
    /\ now >= MaturityDate
    /\ ~isMatured
    /\ underlying >= TotalUnderlyingNeeded
    /\ isMatured' = TRUE
    /\ UNCHANGED <<tokenVars, yieldStart, worldVars, paymentVars>>

\* A schedule is set once, and nothing asks that its start lie ahead.
SetYieldSchedule(date) ==
    /\ yieldStart = None
    /\ yieldStart' = date
    /\ UNCHANGED <<tokenVars, isMatured, worldVars, paymentVars>>

\* recoverERC20 of the underlying asset: the only way the issuer gets it back,
\* and the bond consults nothing but the balance.
RecoverERC20(a) ==
    /\ underlying >= a
    /\ underlying' = underlying - a
    /\ UNCHANGED <<tokenVars, issueVars, worldVars, bondRedeemed, paidOut>>

\* Anyone may send underlying asset to the bond.
Fund(a) ==
    /\ underlying + a <= MaxUnderlying
    /\ underlying' = underlying + a
    /\ UNCHANGED <<tokenVars, issueVars, worldVars, bondRedeemed, paidOut>>

Tick ==
    /\ now < MaxTime
    /\ now' = now + 1
    /\ UNCHANGED <<tokenVars, issueVars, paymentVars, refusedFrom>>

\* The underlying asset is paused, frozen or unfrozen, and its registry changes.
ChangeRefusals(limits) ==
    /\ refusedFrom' = limits
    /\ UNCHANGED <<tokenVars, issueVars, paymentVars, now>>

\* What can leave a matured bond without cover: the issuer takes underlying
\* asset out, or mints more bonds.
IssuerStep ==
    \/ \E a \in Amounts : RecoverERC20(a)
    \/ \E to \in Wallets, a \in Amounts : BondMint(to, a)

HolderStep ==
    \/ \E from, to \in Wallets, a \in Amounts : BondTransfer(from, to, a)
    \/ \E w \in Wallets, a \in Amounts : RedeemBonds(w, a)
    \/ \E w \in Wallets : RedeemBonds(w, balances[w])

BondCustodialStep ==
    \/ \E from \in Wallets, to \in Wallets \cup {None}, a \in Amounts :
          BondForcedTransfer(from, to, a)
    \/ \E w \in Wallets, a \in Amounts : BondBurn(w, a)
    \/ \E l, n \in Wallets : BondRecoverTokens(l, n)

BondNext ==
    \/ IssuerStep
    \/ HolderStep
    \/ BondCustodialStep
    \/ (SwitchStep \/ RegistryStep) /\ UNCHANGED bondVars
    \/ Mature
    \/ \E d \in YieldDates : SetYieldSchedule(d)
    \/ \E a \in Amounts : Fund(a)
    \/ Tick
    \/ \E limits \in [Wallets -> RefusalLimits] : ChangeRefusals(limits)

BondSpec == BondInit /\ [][BondNext]_vars

-----------------------------------------------------------------------------
(* Properties.                                                             *)

Covered == underlying >= TotalUnderlyingNeeded

\* A matured bond holds enough to redeem every bond in circulation, through
\* any sequence of redemptions of any sizes, each rounded down, and of burns;
\* only the issuer, by a withdrawal or by a mint, can end that.
CoverLostOnlyToIssuer ==
    [][isMatured' /\ ~Covered' => (isMatured /\ ~Covered) \/ IssuerStep]_vars

\* Redeeming in small parts never pays more than redeeming in one go: what has
\* been paid out is at most what the redeemed bonds are worth together.
PartsNeverPayMore == paidOut <= UnderlyingFor(TotalRedeemed)

\* While a matured, unpaused bond is covered, only a freeze or the underlying
\* asset can hold up a holder: whatever is not frozen can be redeemed as soon
\* as the asset accepts the payment, before or after whoever else redeems.
CoveredHoldersCanRedeem ==
    isMatured /\ Covered /\ ~paused =>
        \A w \in Wallets \ frozen : \A a \in 1 .. Available(w) :
            AssetAccepts(w, a) => CanRedeemBonds(w, a)

\* The supply respects the cap, burns and mints taking turns.
SupplyWithinCap == totalSupply <= Cap
=============================================================================
