---------------------- MODULE SMARTFixedYieldSchedule ----------------------
(***************************************************************************)
(* The fixed yield schedule of a token: it pays each holder, per completed *)
(* period, a rate on the balance the holder had at the end of the period.  *)
(* Holders claim when they like, from a fund that anyone tops up and its   *)
(* administrator may empty.  The token keeps moving meanwhile and answers  *)
(* for the past (SMARTHistoricalBalances); its Yield extension refuses     *)
(* mints once the schedule has started.                                    *)
(***************************************************************************)
EXTENDS SMARTHistoricalBalances

CONSTANTS
    StartDate,          \* _startDate
    EndDate,            \* _endDate
    Interval,           \* _interval
    Basis,              \* yieldBasisPerUnit, the face value for a bond
    Rate,               \* _rate
    RateBasisPoints,    \* RATE_BASIS_POINTS
    MaxFunds,           \* bound on the underlying asset topped up
    MaxTrace            \* bound on the checkpoints of a wallet

ASSUME ScheduleAssumption ==
    /\ StartDate \in Nat \ {0}
    /\ EndDate \in Nat /\ EndDate > StartDate
    /\ Interval \in Nat \ {0}
    /\ Basis \in Nat
    /\ Rate \in Nat \ {0}
    /\ RateBasisPoints \in Nat \ {0}
    /\ MaxFunds \in Nat
    /\ MaxTrace \in Nat

VARIABLES
    lastClaimedPeriod,  \* _lastClaimedPeriod
    totalClaimed,       \* _totalClaimed
    funds,              \* underlying asset held by the schedule
    schedulePaused,     \* Pausable of the schedule
    paid                \* underlying asset each holder has received

claimVars == <<lastClaimedPeriod, totalClaimed, paid>>
scheduleVars == <<claimVars, funds, schedulePaused>>
vars == <<historyVars, scheduleVars>>

ScheduleInit ==
    /\ HistoryInit
    /\ lastClaimedPeriod = [w \in Wallets |-> 0]
    /\ totalClaimed = 0
    /\ funds = 0
    /\ schedulePaused = FALSE
    /\ paid = [w \in Wallets |-> 0]

-----------------------------------------------------------------------------
(* Periods, numbered from 1.                                               *)

TotalPeriods == ((EndDate - StartDate) \div Interval) + 1

\* The last period is cut short by the end of the schedule.
PeriodEnd(p) ==
    IF StartDate + p * Interval > EndDate THEN EndDate ELSE StartDate + p * Interval

CurrentPeriod ==
    IF now < StartDate THEN 0
    ELSE IF now >= EndDate THEN TotalPeriods
    ELSE ((now - StartDate) \div Interval) + 1

\* Mutant: a period completes one second after its end.
LastCompletedLater ==
    IF now <= StartDate THEN 0
    ELSE IF now >= EndDate THEN TotalPeriods
    ELSE (now - StartDate - 1) \div Interval

LastCompletedPeriod ==
    IF now <= StartDate THEN 0
    ELSE IF now >= EndDate THEN TotalPeriods
    ELSE (now - StartDate) \div Interval

-----------------------------------------------------------------------------
(* What is owed.                                                           *)

\* Mutant: rounded up.
YieldRoundedUp(amount) ==
    (amount * Basis * Rate + RateBasisPoints - 1) \div RateBasisPoints

YieldOf(amount) == (amount * Basis * Rate) \div RateBasisPoints

\* Mutant: paid on the balance of the moment of the claim.
YieldOnCurrentBalance(w, p) == YieldOf(balances[w])

YieldForPeriod(w, p) == YieldOf(BalanceOfAt(w, PeriodEnd(p)))

YieldForPeriods(w, periods) == SumFunction([p \in periods |-> YieldForPeriod(w, p)])

\* Mutant: the last claimed period is claimed again.
UnclaimedFromLast(w) == lastClaimedPeriod[w] .. LastCompletedPeriod

UnclaimedPeriods(w) == lastClaimedPeriod[w] + 1 .. LastCompletedPeriod

Owed(w) == YieldForPeriods(w, UnclaimedPeriods(w))

TotalYieldAccrued ==
    SumFunction([p \in 1 .. LastCompletedPeriod |-> YieldOf(TotalSupplyAt(PeriodEnd(p)))])

TotalUnclaimedYield ==
    IF TotalYieldAccrued <= totalClaimed THEN 0 ELSE TotalYieldAccrued - totalClaimed

\* The estimate shown to a holder: what is owed, and the part of the current
\* period that has elapsed on the balance of the moment.
CurrentPeriodAmount(w) ==
    IF CurrentPeriod > 0 /\ now < EndDate
    THEN LET periodStart == IF CurrentPeriod = 1 THEN StartDate ELSE PeriodEnd(CurrentPeriod - 1)
         IN (balances[w] * Basis * Rate * (now - periodStart)) \div (Interval * RateBasisPoints)
    ELSE 0

CalculateAccruedYield(w) == Owed(w) + CurrentPeriodAmount(w)

\* Every end of a completed period must have passed for the token to answer.
PeriodsReadable == \A p \in 1 .. LastCompletedPeriod : CanLookup(PeriodEnd(p))

-----------------------------------------------------------------------------
(* Transactions of the schedule.                                           *)

CanClaimYield(w) ==
    /\ ~schedulePaused
    /\ UnclaimedPeriods(w) # {}
    /\ PeriodsReadable
    /\ Owed(w) > 0
    /\ funds >= Owed(w)

ClaimYield(w) ==
    /\ CanClaimYield(w)
    /\ lastClaimedPeriod' = [lastClaimedPeriod EXCEPT ![w] = LastCompletedPeriod]
    /\ totalClaimed' = totalClaimed + Owed(w)
    /\ funds' = funds - Owed(w)
    /\ paid' = [paid EXCEPT ![w] = @ + Owed(w)]
    /\ UNCHANGED <<historyVars, schedulePaused>>

TopUpUnderlyingAsset(a) ==
    /\ ~schedulePaused
    /\ funds + a <= MaxFunds
    /\ funds' = funds + a
    /\ UNCHANGED <<historyVars, claimVars, schedulePaused>>

\* Of any amount, or of everything there is.
WithdrawUnderlyingAsset(a) ==
    /\ ~schedulePaused
    /\ a > 0
    /\ a <= funds
    /\ funds' = funds - a
    /\ UNCHANGED <<historyVars, claimVars, schedulePaused>>

SetPaused(p) ==
    /\ schedulePaused # p
    /\ schedulePaused' = p
    /\ UNCHANGED <<historyVars, claimVars, funds>>

-----------------------------------------------------------------------------
(* The token, whose Yield extension refuses mints from the start on.       *)

CanMint == now < StartDate

TokenStep ==
    \/ \E to \in Wallets, a \in Amounts : CanMint /\ Mint(to, a)
    \/ \E from \in Wallets, a \in Amounts : Burn(from, a)
    \/ \E from, to \in Wallets, a \in Amounts : Transfer(from, to, a)

ScheduleNext ==
    \/ \E w \in Wallets : ClaimYield(w)
    \/ \E a \in Amounts : TopUpUnderlyingAsset(a) \/ WithdrawUnderlyingAsset(a)
    \/ WithdrawUnderlyingAsset(funds)
    \/ \E p \in BOOLEAN : SetPaused(p)
    \/ /\ TokenStep \/ Tick
       /\ \A w \in Wallets : Len(balanceCheckpoints'[w]) <= MaxTrace
       /\ UNCHANGED scheduleVars

ScheduleSpec == ScheduleInit /\ [][ScheduleNext]_vars

-----------------------------------------------------------------------------
(* Properties.                                                             *)

\* A holder has received exactly the yield of the periods claimed, each once,
\* as it is still computed now, whatever has moved since and however the
\* claims were spread over time.
PaidOncePerPeriod ==
    \A w \in Wallets : paid[w] = YieldForPeriods(w, 1 .. lastClaimedPeriod[w])

\* totalUnclaimedYield, which the issuer funds the schedule by, covers all
\* that the holders can still claim, although it rounds once per period and
\* each claim rounds by itself.
UnclaimedCoversHolders ==
    PeriodsReadable => TotalUnclaimedYield >= SumFunction([w \in Wallets |-> Owed(w)])

\* A transfer, a burn or another holder's claim never takes away what a holder
\* is owed for completed periods: it shrinks only by being paid.
OwedShrinksOnlyWhenPaid ==
    [][PeriodsReadable =>
          \A w \in Wallets : Owed(w)' + paid'[w] >= Owed(w) + paid[w]]_vars

\* The estimate of what a holder has accrued never falls while the holder only
\* waits: at the end of a period the pro rata part it counted is replaced by at
\* least as much, whatever the roundings.  At the second a period ends, and
\* before the start, the contract gives none, as its call reverts; the formula
\* has a value there too, which keeps the order from one side to the other.
AccruedNeverFallsByWaiting ==
    [][\A w \in Wallets :
          UNCHANGED <<balances[w], lastClaimedPeriod[w]>>
            => CalculateAccruedYield(w)' >= CalculateAccruedYield(w)]_vars

\* "A rate of 500 means 5% yield per _interval": no holder is paid more than
\* the rate on the largest possible balance for the time the schedule has run.
RateIsPerInterval ==
    \A w \in Wallets :
        paid[w] * RateBasisPoints * Interval
            <= MaxCheckpoint * Basis * Rate * (PeriodEnd(TotalPeriods) - StartDate)
=============================================================================
