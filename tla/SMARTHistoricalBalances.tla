---------------------- MODULE SMARTHistoricalBalances ----------------------
(***************************************************************************)
(* The HistoricalBalances extension: after every update of the ledger its  *)
(* hooks record the balances that changed and the total supply in traces   *)
(* of checkpoints, which answer what a wallet held at any past time.  Many *)
(* transactions share a block, hence a time.                               *)
(*                                                                         *)
(* The ledger is the ERC20 one, with every update it accepts: who may move *)
(* what is the matter of SMARTToken.                                       *)
(***************************************************************************)
EXTENDS Checkpoints, FiniteSets, Functions

CONSTANTS
    Wallets,        \* token holders
    None,           \* the zero address
    Amounts,        \* the amounts updates are tried with
    MaxCheckpoint,  \* type(uint208).max, the largest value of a checkpoint
    MaxTime         \* bound on the clock

ASSUME HistoryAssumption ==
    /\ IsFiniteSet(Wallets)
    /\ None \notin Wallets
    /\ Amounts \subseteq Nat
    /\ MaxCheckpoint \in Nat
    /\ MaxTime \in Nat

VARIABLES
    now,                        \* clock(), which is block.timestamp
    balances,                   \* ERC20 balances
    totalSupply,                \* ERC20 total supply
    balanceCheckpoints,         \* _balanceCheckpoints
    totalSupplyCheckpoints      \* _totalSupplyCheckpoints

historyVars == <<now, balances, totalSupply, balanceCheckpoints, totalSupplyCheckpoints>>

HistoryInit ==
    /\ now = 0
    /\ balances = [w \in Wallets |-> 0]
    /\ totalSupply = 0
    /\ balanceCheckpoints = [w \in Wallets |-> << >>]
    /\ totalSupplyCheckpoints = << >>

-----------------------------------------------------------------------------
(* Reading the past.                                                       *)

\* Times that have not passed yet revert with FutureLookup.
CanLookup(t) == t < now

BalanceOfAt(w, t) == UpperLookup(balanceCheckpoints[w], t)

TotalSupplyAt(t) == UpperLookup(totalSupplyCheckpoints, t)

-----------------------------------------------------------------------------
(* Updates of the ledger with the hooks that record them.                  *)

\* _writeCheckpointAdd and _writeCheckpointSubtract start from the trace, not
\* from the ledger.
Added(trace, a) == Push(trace, now, Latest(trace) + a)
Subtracted(trace, a) == Push(trace, now, Latest(trace) - a)

Mint(to, a) ==
    /\ Latest(totalSupplyCheckpoints) + a <= MaxCheckpoint
    /\ balances' = [balances EXCEPT ![to] = @ + a]
    /\ totalSupply' = totalSupply + a
    /\ totalSupplyCheckpoints' = Added(totalSupplyCheckpoints, a)
    /\ balanceCheckpoints' = [balanceCheckpoints EXCEPT ![to] = Added(@, a)]
    /\ UNCHANGED now

Burn(from, a) ==
    /\ balances[from] >= a
    /\ balances' = [balances EXCEPT ![from] = @ - a]
    /\ totalSupply' = totalSupply - a
    /\ totalSupplyCheckpoints' = Subtracted(totalSupplyCheckpoints, a)
    /\ balanceCheckpoints' = [balanceCheckpoints EXCEPT ![from] = Subtracted(@, a)]
    /\ UNCHANGED now

\* Mutant: both traces are read before either is written.
TransferStaleRead(from, to, a) ==
    /\ balances[from] >= a
    /\ balances' = [[balances EXCEPT ![from] = @ - a] EXCEPT ![to] = @ + a]
    /\ balanceCheckpoints' =
          [w \in Wallets |-> IF w = to THEN Added(balanceCheckpoints[w], a)
                             ELSE IF w = from THEN Subtracted(balanceCheckpoints[w], a)
                             ELSE balanceCheckpoints[w]]
    /\ UNCHANGED <<now, totalSupply, totalSupplyCheckpoints>>

Transfer(from, to, a) ==
    /\ balances[from] >= a
    /\ balances' = [[balances EXCEPT ![from] = @ - a] EXCEPT ![to] = @ + a]
    /\ balanceCheckpoints' = [[balanceCheckpoints EXCEPT ![from] = Subtracted(@, a)]
                                                  EXCEPT ![to] = Added(@, a)]
    /\ UNCHANGED <<now, totalSupply, totalSupplyCheckpoints>>

Tick ==
    /\ now < MaxTime
    /\ now' = now + 1
    /\ UNCHANGED <<balances, totalSupply, balanceCheckpoints, totalSupplyCheckpoints>>

HistoryNext ==
    \/ \E to \in Wallets, a \in Amounts : Mint(to, a)
    \/ \E from \in Wallets, a \in Amounts : Burn(from, a)
    \/ \E from, to \in Wallets, a \in Amounts : Transfer(from, to, a)
    \/ Tick

HistorySpec == HistoryInit /\ [][HistoryNext]_historyVars

-----------------------------------------------------------------------------
(* Properties.                                                             *)

\* The traces, which compute their own running values, and the ledger, which
\* is written by ERC20, never drift apart, a transfer to oneself included.
TracesFollowLedger ==
    /\ \A w \in Wallets : Latest(balanceCheckpoints[w]) = balances[w]
    /\ Latest(totalSupplyCheckpoints) = totalSupply

\* What is answered about a past time never changes, however many updates
\* share a block: a yield computed twice on the same past is the same yield.
PastNeverChanges ==
    [][\A t \in 0 .. now - 1 :
          /\ TotalSupplyAt(t)' = TotalSupplyAt(t)
          /\ \A w \in Wallets : BalanceOfAt(w, t)' = BalanceOfAt(w, t)]_historyVars

=============================================================================
