------------------- MODULE SMARTHistoricalBalancesProofs -------------------
(***************************************************************************)
(* The past a token answers for never changes, adds up and fits the width  *)
(* of a checkpoint, for any number of holders and any sequence of updates. *)
(* The yield schedule pays on that past: each completed period once to     *)
(* each holder, never more in total than it publishes as unclaimed, and    *)
(* shows a holder who waits an estimate that never falls.                  *)
(***************************************************************************)
EXTENDS SMARTFixedYieldSchedule, DataLemmas

USE HistoryAssumption

-----------------------------------------------------------------------------
(* Traces.                                                                 *)

\* The values a checkpoint can hold.
Values == 0 .. MaxCheckpoint

\* The traces recorded by a time.
TracesBy(time) ==
    {trace \in TracesOf(Values) : \A k \in DOMAIN trace : trace[k].at <= time}

\* What a trace is made of.
LEMMA EntriesFit ==
    ASSUME NEW trace \in TracesOf(Values), NEW k \in DOMAIN trace
    PROVE  trace[k] \in [at : Nat, value : Values]
<1> DEFINE S == [at : Nat, value : Values]
<1>1. trace \in Seq(S)
  BY DEF TracesOf
<1> HIDE DEF S
<1>2. trace[k] \in S
  BY <1>1
<1> QED
  BY <1>2 DEF S

\* What is pushed is the latest value.
LEMMA PushFacts ==
    ASSUME NEW at \in Nat, NEW trace \in TracesBy(at), NEW v \in Values
    PROVE  /\ Push(trace, at, v) \in TracesBy(at)
           /\ Latest(Push(trace, at, v)) = v
<1> DEFINE entry == [at |-> at, value |-> v]
           pushed == Push(trace, at, v)
<1>1. /\ trace \in Seq([at : Nat, value : Values]) /\ entry \in [at : Nat, value : Values]
      /\ \A k \in DOMAIN trace : trace[k].at <= at
  BY DEF TracesOf, TracesBy
<1>2. CASE trace # << >> /\ trace[Len(trace)].at = at
  <2>1. pushed = [trace EXCEPT ![Len(trace)] = entry]
    BY <1>2 DEF Push
  <2>2. Len(trace) \in DOMAIN trace
    BY <1>1, <1>2
  <2>3. pushed \in Seq([at : Nat, value : Values]) /\ Len(pushed) = Len(trace)
    <3> DEFINE S == [at : Nat, value : Values]
    <3>1. trace \in Seq(S) /\ entry \in S /\ Len(trace) \in 1 .. Len(trace)
      BY <1>1, <2>2
    <3> HIDE DEF S, entry
    <3>2. /\ [trace EXCEPT ![Len(trace)] = entry] \in Seq(S)
          /\ Len([trace EXCEPT ![Len(trace)] = entry]) = Len(trace)
      BY <3>1, ExceptSeq
    <3> QED
      BY <2>1, <3>2 DEF S
  <2>4. pushed # << >> /\ pushed[Len(pushed)] = entry
    BY <1>1, <2>1, <2>2, <2>3
  <2>5. \A k \in DOMAIN pushed : pushed[k].at <= at
    BY <1>1, <2>1
  <2> QED
    BY <2>3, <2>4, <2>5 DEF TracesOf, TracesBy, Latest
<1>3. CASE ~(trace # << >> /\ trace[Len(trace)].at = at)
  <2>1. pushed = Append(trace, entry)
    BY <1>3 DEF Push
  <2>2. pushed \in Seq([at : Nat, value : Values]) /\ pushed # << >> /\ pushed[Len(pushed)] = entry
    BY <1>1, <2>1
  <2>3. \A k \in DOMAIN pushed : pushed[k].at <= at
    BY <1>1, <2>1
  <2> QED
    BY <2>2, <2>3 DEF TracesOf, TracesBy, Latest
<1> QED
  BY <1>2, <1>3

\* What is pushed now leaves what is answered about every earlier time.
LEMMA PushKeepsPast ==
    ASSUME NEW trace \in TracesOf(Values), NEW at \in Nat, NEW v \in Values,
           NEW t \in Int, t < at
    PROVE  UpperLookup(Push(trace, at, v), t) = UpperLookup(trace, t)
<1> DEFINE entry == [at |-> at, value |-> v]
           pushed == Push(trace, at, v)
           Last(tr) == {k \in DOMAIN tr :
                          /\ tr[k].at <= t
                          /\ \A j \in DOMAIN tr : tr[j].at <= t => j <= k}
<1>1. trace \in Seq([at : Nat, value : Values])
  BY DEF TracesOf
<1>2. /\ DOMAIN trace \subseteq DOMAIN pushed
      /\ \A k \in DOMAIN pushed :
            pushed[k].at <= t => k \in DOMAIN trace /\ pushed[k] = trace[k]
      /\ \A k \in DOMAIN trace : trace[k].at <= t => pushed[k] = trace[k]
  <2>1. CASE trace # << >> /\ trace[Len(trace)].at = at
    <3>1. pushed = [trace EXCEPT ![Len(trace)] = entry]
      BY <2>1 DEF Push
    <3>2. DOMAIN pushed = DOMAIN trace
      BY <3>1
    <3>3. \A k \in DOMAIN trace : pushed[k] = IF k = Len(trace) THEN entry ELSE trace[k]
      BY <3>1
    <3>4. entry.at > t /\ trace[Len(trace)].at > t
      BY <2>1
    <3>5. \A k \in DOMAIN pushed : pushed[k].at <= t => k # Len(trace)
      BY <3>2, <3>3, <3>4
    <3>6. \A k \in DOMAIN trace : trace[k].at <= t => k # Len(trace)
      <4>1. ~(trace[Len(trace)].at <= t)
        BY <2>1
      <4> QED
        BY <4>1
    <3> QED
      BY <3>2, <3>3, <3>5, <3>6
  <2>2. CASE ~(trace # << >> /\ trace[Len(trace)].at = at)
    <3>1. pushed = Append(trace, entry)
      BY <2>2 DEF Push
    <3>2. DOMAIN pushed = 1 .. Len(trace) + 1 /\ DOMAIN trace = 1 .. Len(trace)
      BY <1>1, <3>1
    <3>3. /\ \A k \in 1 .. Len(trace) : pushed[k] = trace[k]
          /\ pushed[Len(trace) + 1] = entry
      BY <1>1, <3>1
    <3>4. entry.at > t
      OBVIOUS
    <3> QED
      BY <1>1, <3>2, <3>3, <3>4
  <2> QED
    BY <2>1, <2>2
<1>7. pushed = Push(trace, at, v)
  OBVIOUS
<1> HIDE DEF pushed
<1>3. Last(pushed) = Last(trace)
  BY <1>2
<1>4. \A k \in Last(trace) : pushed[k].value = trace[k].value
  BY <1>2
<1>5. {pushed[k].value : k \in Last(pushed)} = {trace[k].value : k \in Last(trace)}
  BY <1>3, <1>4
<1>6. ValuesAt(pushed, t) = ValuesAt(trace, t)
  BY <1>5, Zenon DEF ValuesAt
<1> QED
  <2>1. UpperLookup(pushed, t) = UpperLookup(trace, t)
    BY <1>6 DEF UpperLookup
  <2> QED
    BY <1>7, <2>1

\* The value a trace ends with, and the values it ever had, fit a checkpoint.
LEMMA LookupFits ==
    ASSUME NEW trace \in TracesOf(Values)
    PROVE  /\ Latest(trace) \in Values
           /\ \A t \in Int : UpperLookup(trace, t) \in Values
<1>1. trace \in Seq([at : Nat, value : Values])
  BY DEF TracesOf
<1>2. \A k \in DOMAIN trace : trace[k] \in [at : Nat, value : Values]
  BY EntriesFit
<1>3. 0 \in Values
  BY DEF Values
<1>4. Latest(trace) \in Values
  <2>1. CASE trace = << >>
    BY <1>3, <2>1 DEF Latest
  <2>2. CASE trace # << >>
    <3>1. Len(trace) \in DOMAIN trace
      BY <1>1, <2>2
    <3> QED
      BY <1>2, <2>2, <3>1 DEF Latest
  <2> QED
    BY <2>1, <2>2
<1>5. ASSUME NEW t \in Int PROVE UpperLookup(trace, t) \in Values
  <2>1. ValuesAt(trace, t) \subseteq Values
    BY <1>2 DEF ValuesAt
  <2> QED
    BY <1>3, <2>1 DEF UpperLookup
<1> QED
  BY <1>4, <1>5

\* Asked about a time by which all was recorded, a trace answers its latest value.
LEMMA LookupOfPresent ==
    ASSUME NEW time \in Nat, NEW trace \in TracesBy(time)
    PROVE  UpperLookup(trace, time) = Latest(trace)
<1> DEFINE last == {k \in DOMAIN trace :
                       /\ trace[k].at <= time
                       /\ \A j \in DOMAIN trace : trace[j].at <= time => j <= k}
<1>1. trace \in Seq([at : Nat, value : Values]) /\ \A k \in DOMAIN trace : trace[k].at <= time
  BY DEF TracesOf, TracesBy
<1>2. last = {k \in DOMAIN trace : \A j \in DOMAIN trace : j <= k}
  BY <1>1
<1>3. ValuesAt(trace, time) = {trace[k].value : k \in last}
  BY DEF ValuesAt
<1> HIDE DEF last
<1>4. CASE trace = << >>
  <2>1. last = {}
    BY <1>1, <1>2, <1>4
  <2> QED
    BY <1>3, <1>4, <2>1 DEF UpperLookup, Latest
<1>5. CASE trace # << >>
  <2>1. last = {Len(trace)}
    BY <1>1, <1>2, <1>5
  <2>2. ValuesAt(trace, time) = {trace[Len(trace)].value}
    BY <1>3, <2>1
  <2> QED
    BY <1>5, <2>2 DEF UpperLookup, Latest
<1> QED
  BY <1>4, <1>5

\* What was recorded by a time was recorded by any later one.
LEMMA RecordedLater ==
    ASSUME NEW t \in Int, NEW u \in Int, t <= u, NEW trace \in TracesBy(t)
    PROVE  trace \in TracesBy(u)
<1>1. trace \in Seq([at : Nat, value : Values]) /\ \A k \in DOMAIN trace : trace[k].at <= t
  BY DEF TracesOf, TracesBy
<1>2. \A k \in DOMAIN trace : trace[k] \in [at : Nat, value : Values]
  <2>1. trace \in TracesOf(Values)
    BY DEF TracesBy
  <2> QED
    BY <2>1, EntriesFit
<1>3. \A k \in DOMAIN trace : trace[k].at <= u
  BY <1>1, <1>2
<1> QED
  BY <1>1, <1>3 DEF TracesOf, TracesBy

-----------------------------------------------------------------------------
(* The hooks.                                                              *)

\* The past balances add up to the past supply.
PastAddsUp ==
    \A t \in 0 .. now - 1 :
        TotalSupplyAt(t) = SumFunction([w \in Wallets |-> BalanceOfAt(w, t)])

\* The ledger adds up and fits a checkpoint, every trace was recorded by now and
\* ends in the ledger's value, and the past adds up as the ledger does.
HistoryInv ==
    /\ now \in Nat
    /\ balances \in [Wallets -> Nat]
    /\ totalSupply = SumFunction(balances)
    /\ totalSupply <= MaxCheckpoint
    /\ balanceCheckpoints \in [Wallets -> TracesBy(now)]
    /\ totalSupplyCheckpoints \in TracesBy(now)
    /\ TracesFollowLedger
    /\ PastAddsUp

\* What a hook writes to a trace, seen from the ledger and from the past.
LEMMA RecordFacts ==
    ASSUME now \in Nat, NEW trace \in TracesBy(now), NEW a \in Nat
    PROVE  /\ Latest(trace) \in Values
           /\ Latest(trace) + a \in Values =>
                 /\ Added(trace, a) \in TracesBy(now)
                 /\ Latest(Added(trace, a)) = Latest(trace) + a
                 /\ \A t \in 0 .. now - 1 :
                       UpperLookup(Added(trace, a), t) = UpperLookup(trace, t)
           /\ Latest(trace) - a \in Values =>
                 /\ Subtracted(trace, a) \in TracesBy(now)
                 /\ Latest(Subtracted(trace, a)) = Latest(trace) - a
                 /\ \A t \in 0 .. now - 1 :
                       UpperLookup(Subtracted(trace, a), t) = UpperLookup(trace, t)
<1>1. trace \in TracesOf(Values)
  BY DEF TracesBy
<1>2. \A t \in 0 .. now - 1 : t \in Int /\ t < now
  OBVIOUS
<1>3. Latest(trace) \in Values
  BY <1>1, LookupFits
<1>4. ASSUME NEW v \in Values
      PROVE  /\ Push(trace, now, v) \in TracesBy(now)
             /\ Latest(Push(trace, now, v)) = v
             /\ \A t \in 0 .. now - 1 : UpperLookup(Push(trace, now, v), t) = UpperLookup(trace, t)
  BY <1>1, <1>2, PushFacts, PushKeepsPast
<1> DEFINE more == Latest(trace) + a
           less == Latest(trace) - a
<1> HIDE DEF more, less
<1>5. more \in Values => /\ Push(trace, now, more) \in TracesBy(now)
                         /\ Latest(Push(trace, now, more)) = more
                         /\ \A t \in 0 .. now - 1 :
                               UpperLookup(Push(trace, now, more), t) = UpperLookup(trace, t)
  BY <1>4
<1>6. less \in Values => /\ Push(trace, now, less) \in TracesBy(now)
                         /\ Latest(Push(trace, now, less)) = less
                         /\ \A t \in 0 .. now - 1 :
                               UpperLookup(Push(trace, now, less), t) = UpperLookup(trace, t)
  BY <1>4
<1> QED
  BY <1>3, <1>5, <1>6 DEF Added, Subtracted, more, less

\* Two maps of traces answer alike about every past time.
SameBalances(cps, cps2) ==
    \A w \in Wallets : \A t \in 0 .. now - 1 :
        UpperLookup(cps2[w], t) = UpperLookup(cps[w], t)

\* The same past in a state and after a step.
SamePast ==
    /\ \A t \in 0 .. now - 1 : UpperLookup(totalSupplyCheckpoints', t)
                                 = UpperLookup(totalSupplyCheckpoints, t)
    /\ SameBalances(balanceCheckpoints, balanceCheckpoints')

\* One write to the trace of one wallet.
LEMMA WriteFacts ==
    ASSUME NEW cps \in [Wallets -> TracesBy(now)],
           NEW x \in Wallets, NEW trace \in TracesBy(now),
           \A t \in 0 .. now - 1 : UpperLookup(trace, t) = UpperLookup(cps[x], t),
           NEW cps2, cps2 = [cps EXCEPT ![x] = trace]
    PROVE  /\ cps2 \in [Wallets -> TracesBy(now)]
           /\ cps2[x] = trace
           /\ \A w \in Wallets \ {x} : cps2[w] = cps[w]
           /\ SameBalances(cps, cps2)
<1>1. /\ cps2 \in [Wallets -> TracesBy(now)]
      /\ cps2[x] = trace
      /\ \A w \in Wallets \ {x} : cps2[w] = cps[w]
  OBVIOUS
<1>2. SameBalances(cps, cps2)
  <2> SUFFICES ASSUME NEW w \in Wallets, NEW t \in 0 .. now - 1
               PROVE  UpperLookup(cps2[w], t) = UpperLookup(cps[w], t)
    BY DEF SameBalances
  <2>1. CASE w = x
    BY <2>1, <1>1
  <2>2. CASE w # x
    BY <2>2, <1>1
  <2> QED
    BY <2>1, <2>2
<1> QED
  BY <1>1, <1>2

\* A step within a time that keeps the past keeps it adding up.
LEMMA PastKeepsAddingUp ==
    ASSUME PastAddsUp, SamePast, now \in Nat, now' = now
    PROVE  PastAddsUp'
<1> SUFFICES ASSUME NEW t \in 0 .. now - 1
             PROVE  UpperLookup(totalSupplyCheckpoints', t)
                       = SumFunction([w \in Wallets |-> UpperLookup(balanceCheckpoints'[w], t)])
  BY DEF PastAddsUp, TotalSupplyAt, BalanceOfAt, UpperLookup, ValuesAt
<1>1. [w \in Wallets |-> UpperLookup(balanceCheckpoints'[w], t)]
         = [w \in Wallets |-> UpperLookup(balanceCheckpoints[w], t)]
  BY DEF SamePast, SameBalances
<1>2. UpperLookup(totalSupplyCheckpoints', t) = UpperLookup(totalSupplyCheckpoints, t)
  BY DEF SamePast
<1>3. UpperLookup(totalSupplyCheckpoints, t)
         = SumFunction([w \in Wallets |-> UpperLookup(balanceCheckpoints[w], t)])
  BY DEF PastAddsUp, TotalSupplyAt, BalanceOfAt
<1> QED
  BY <1>1, <1>2, <1>3

\* Balances that add up to what fits a checkpoint fit one each.
LEMMA BalancesFit ==
    ASSUME NEW b \in [Wallets -> Nat], SumFunction(b) <= MaxCheckpoint
    PROVE  \A w \in Wallets : b[w] \in Values /\ b[w] <= SumFunction(b)
<1>1. SumFunction(b) \in Nat
  BY SumIsNatural
<1>2. \A w \in Wallets : b[w] <= SumFunction(b)
  BY SummandBelowSum
<1> QED
  BY <1>1, <1>2 DEF Values

\* What the invariant says of the traces and the ledger.
LEMMA HistoryFacts ==
    ASSUME HistoryInv
    PROVE  /\ now \in Nat /\ balances \in [Wallets -> Nat]
           /\ totalSupply \in Nat /\ totalSupply = SumFunction(balances)
           /\ totalSupply <= MaxCheckpoint
           /\ balanceCheckpoints \in [Wallets -> TracesBy(now)]
           /\ totalSupplyCheckpoints \in TracesBy(now)
           /\ \A w \in Wallets : Latest(balanceCheckpoints[w]) = balances[w]
           /\ Latest(totalSupplyCheckpoints) = totalSupply
           /\ PastAddsUp
<1>1. SumFunction(balances) \in Nat
  BY SumIsNatural DEF HistoryInv
<1> QED
  BY <1>1 DEF HistoryInv, TracesFollowLedger

\* One wallet's balance and the supply move together by d.
LEMMA LedgerMoves ==
    ASSUME HistoryInv, NEW w \in Wallets, NEW d \in Int, totalSupply + d <= MaxCheckpoint,
           NEW b \in [Wallets -> Nat], b[w] = balances[w] + d,
           \A x \in Wallets \ {w} : b[x] = balances[x]
    PROVE  /\ SumFunction(b) = totalSupply + d
           /\ totalSupply + d \in Values
           /\ \A x \in Wallets : b[x] \in Values
<1>1. /\ balances \in [Wallets -> Nat] /\ balances \in [Wallets -> Int]
      /\ totalSupply = SumFunction(balances) /\ totalSupply \in Nat
  BY HistoryFacts
<1>2. /\ b \in [Wallets -> Nat] /\ b \in [Wallets -> Int] /\ b[w] = balances[w] + d
      /\ \A x \in Wallets \ {w} : b[x] = balances[x]
  BY <1>1
<1>0. IsFiniteSet(Wallets) /\ w \in Wallets /\ d \in Int
  OBVIOUS
<1>3. SumFunction(b) = SumFunction(balances) - balances[w] + b[w]
  BY ONLY <1>0, <1>1, <1>2, SumChanged
<1>4. SumFunction(b) = totalSupply + d
  BY ONLY <1>0, <1>1, <1>2, <1>3
<1>5. SumFunction(b) \in Nat
  BY ONLY <1>0, <1>2, SumIsNatural
<1>6. totalSupply + d \in Values
  BY <1>4, <1>5 DEF Values
<1>7. SumFunction(b) <= MaxCheckpoint
  BY <1>4
<1>8. \A x \in Wallets : b[x] \in Values
  BY ONLY <1>2, <1>7, BalancesFit, HistoryAssumption
<1> QED
  BY <1>2, <1>4, <1>6, <1>8

\* A step of one time keeps the invariant if it keeps its parts.
LEMMA HistoryInvAgain ==
    ASSUME HistoryInv, SamePast, now' = now,
           balances' \in [Wallets -> Nat], totalSupply' = SumFunction(balances'),
           totalSupply' <= MaxCheckpoint,
           balanceCheckpoints' \in [Wallets -> TracesBy(now)],
           totalSupplyCheckpoints' \in TracesBy(now),
           \A w \in Wallets : Latest(balanceCheckpoints'[w]) = balances'[w],
           Latest(totalSupplyCheckpoints') = totalSupply'
    PROVE  HistoryInv'
<1>1. PastAddsUp'
  BY PastKeepsAddingUp DEF HistoryInv
<1>2. TracesFollowLedger'
  BY DEF TracesFollowLedger, Latest
<1>3. now' \in Nat
  BY DEF HistoryInv
<1>4. balanceCheckpoints' \in [Wallets -> TracesBy(now')] /\ totalSupplyCheckpoints' \in TracesBy(now')
  OBVIOUS
<1> QED
  BY <1>1, <1>2, <1>3, <1>4 DEF HistoryInv, TracesBy, TracesOf, Values

\* A mint writes the traces of the recipient and of the supply.
LEMMA MintKeeps ==
    ASSUME HistoryInv, NEW to \in Wallets, NEW a \in Nat, Mint(to, a)
    PROVE  HistoryInv' /\ SamePast
<1>1. /\ now \in Nat /\ balances \in [Wallets -> Nat] /\ totalSupply \in Nat
      /\ balanceCheckpoints \in [Wallets -> TracesBy(now)]
      /\ totalSupplyCheckpoints \in TracesBy(now)
      /\ \A w \in Wallets : Latest(balanceCheckpoints[w]) = balances[w]
      /\ Latest(totalSupplyCheckpoints) = totalSupply
  BY HistoryFacts
<1>2. /\ now' = now /\ totalSupply' = totalSupply + a
      /\ totalSupply + a <= MaxCheckpoint
      /\ balances' = [balances EXCEPT ![to] = balances[to] + a]
      /\ totalSupplyCheckpoints' = Added(totalSupplyCheckpoints, a)
      /\ balanceCheckpoints' =
            [balanceCheckpoints EXCEPT ![to] = Added(balanceCheckpoints[to], a)]
  BY <1>1 DEF Mint
<1>3. /\ balances' \in [Wallets -> Nat]
      /\ balances'[to] = balances[to] + a
      /\ \A w \in Wallets \ {to} : balances'[w] = balances[w]
      /\ SumFunction(balances') = totalSupply + a
      /\ totalSupply + a \in Values
      /\ balances'[to] \in Values
  <2>1. /\ balances' \in [Wallets -> Nat] /\ balances'[to] = balances[to] + a
        /\ \A w \in Wallets \ {to} : balances'[w] = balances[w]
    BY <1>1, <1>2
  <2>2. a \in Int /\ totalSupply + a <= MaxCheckpoint /\ HistoryInv /\ to \in Wallets
    BY <1>2
  <2>3. /\ SumFunction(balances') = totalSupply + a /\ totalSupply + a \in Values
        /\ balances'[to] \in Values
    BY ONLY <2>1, <2>2, LedgerMoves
  <2> QED
    BY <2>1, <2>3
<1>4. /\ balanceCheckpoints' \in [Wallets -> TracesBy(now)]
      /\ Latest(balanceCheckpoints'[to]) = balances[to] + a
      /\ \A w \in Wallets \ {to} : balanceCheckpoints'[w] = balanceCheckpoints[w]
      /\ SameBalances(balanceCheckpoints, balanceCheckpoints')
  <2> DEFINE trace == Added(balanceCheckpoints[to], a)
  <2>1. balanceCheckpoints[to] \in TracesBy(now) /\ Latest(balanceCheckpoints[to]) + a \in Values
    BY <1>1, <1>3
  <2>2. /\ trace \in TracesBy(now)
        /\ Latest(trace) = balances[to] + a
        /\ \A t \in 0 .. now - 1 : UpperLookup(trace, t) = UpperLookup(balanceCheckpoints[to], t)
    BY <1>1, <2>1, RecordFacts
  <2>3. balanceCheckpoints' = [balanceCheckpoints EXCEPT ![to] = trace]
    BY <1>2
  <2> HIDE DEF trace
  <2> QED
    BY <1>1, <2>2, <2>3, WriteFacts
<1>5. \A w \in Wallets : Latest(balanceCheckpoints'[w]) = balances'[w]
  BY <1>1, <1>3, <1>4
<1>6. /\ totalSupplyCheckpoints' \in TracesBy(now)
      /\ Latest(totalSupplyCheckpoints') = totalSupply'
      /\ \A t \in 0 .. now - 1 : UpperLookup(totalSupplyCheckpoints', t)
                                 = UpperLookup(totalSupplyCheckpoints, t)
  BY <1>1, <1>2, <1>3, RecordFacts
<1>7. SamePast
  BY <1>4, <1>6 DEF SamePast
<1>8. HistoryInv'
  BY <1>2, <1>3, <1>4, <1>5, <1>6, <1>7, HistoryInvAgain
<1> QED
  BY <1>7, <1>8

\* A burn writes the traces of the holder and of the supply.
LEMMA BurnKeeps ==
    ASSUME HistoryInv, NEW from \in Wallets, NEW a \in Nat, Burn(from, a)
    PROVE  HistoryInv' /\ SamePast
<1>1. /\ now \in Nat /\ balances \in [Wallets -> Nat] /\ totalSupply \in Nat
      /\ totalSupply <= MaxCheckpoint
      /\ balanceCheckpoints \in [Wallets -> TracesBy(now)]
      /\ totalSupplyCheckpoints \in TracesBy(now)
      /\ \A w \in Wallets : Latest(balanceCheckpoints[w]) = balances[w]
      /\ Latest(totalSupplyCheckpoints) = totalSupply
  BY HistoryFacts
<1>2. /\ now' = now /\ totalSupply' = totalSupply - a
      /\ balances[from] >= a
      /\ balances' = [balances EXCEPT ![from] = balances[from] - a]
      /\ totalSupplyCheckpoints' = Subtracted(totalSupplyCheckpoints, a)
      /\ balanceCheckpoints' =
            [balanceCheckpoints EXCEPT ![from] = Subtracted(balanceCheckpoints[from], a)]
  BY <1>1 DEF Burn
<1>3. /\ balances' \in [Wallets -> Nat]
      /\ balances'[from] = balances[from] - a
      /\ \A w \in Wallets \ {from} : balances'[w] = balances[w]
      /\ SumFunction(balances') = totalSupply - a
      /\ totalSupply - a \in Values
      /\ balances'[from] \in Values
  <2> DEFINE d == 0 - a
  <2>1. /\ balances' \in [Wallets -> Nat]
        /\ \A w \in Wallets \ {from} : balances'[w] = balances[w]
        /\ balances'[from] = balances[from] - a
    BY <1>1, <1>2
  <2>2. d \in Int /\ balances[from] - a = balances[from] + d /\ totalSupply - a = totalSupply + d
    BY <1>1
  <2> HIDE DEF d
  <2>3. totalSupply + d <= MaxCheckpoint /\ balances'[from] = balances[from] + d
        /\ HistoryInv /\ from \in Wallets
    BY <1>1, <2>1, <2>2
  <2>4. /\ SumFunction(balances') = totalSupply + d
        /\ totalSupply + d \in Values
        /\ balances'[from] \in Values
    BY ONLY <2>1, <2>2, <2>3, LedgerMoves
  <2> QED
    BY <2>1, <2>2, <2>4
<1>4. /\ balanceCheckpoints' \in [Wallets -> TracesBy(now)]
      /\ Latest(balanceCheckpoints'[from]) = balances[from] - a
      /\ \A w \in Wallets \ {from} : balanceCheckpoints'[w] = balanceCheckpoints[w]
      /\ SameBalances(balanceCheckpoints, balanceCheckpoints')
  <2> DEFINE trace == Subtracted(balanceCheckpoints[from], a)
  <2>1. balanceCheckpoints[from] \in TracesBy(now) /\ Latest(balanceCheckpoints[from]) - a \in Values
    BY <1>1, <1>3
  <2>2. /\ trace \in TracesBy(now)
        /\ Latest(trace) = balances[from] - a
        /\ \A t \in 0 .. now - 1 : UpperLookup(trace, t) = UpperLookup(balanceCheckpoints[from], t)
    BY <1>1, <2>1, RecordFacts
  <2>3. balanceCheckpoints' = [balanceCheckpoints EXCEPT ![from] = trace]
    BY <1>2
  <2> HIDE DEF trace
  <2> QED
    BY <1>1, <2>2, <2>3, WriteFacts
<1>5. \A w \in Wallets : Latest(balanceCheckpoints'[w]) = balances'[w]
  BY <1>1, <1>3, <1>4
<1>6. /\ totalSupplyCheckpoints' \in TracesBy(now)
      /\ Latest(totalSupplyCheckpoints') = totalSupply'
      /\ \A t \in 0 .. now - 1 : UpperLookup(totalSupplyCheckpoints', t)
                                 = UpperLookup(totalSupplyCheckpoints, t)
  BY <1>1, <1>2, <1>3, RecordFacts
<1>7. SamePast
  BY <1>4, <1>6 DEF SamePast
<1>8. totalSupply' <= MaxCheckpoint
  BY <1>1, <1>2
<1>9. HistoryInv'
  BY <1>2, <1>3, <1>4, <1>5, <1>6, <1>7, <1>8, HistoryInvAgain
<1> QED
  BY <1>7, <1>9

\* What a transfer leaves of the ledger, also when it is to oneself.
LEMMA TransferLedger ==
    ASSUME HistoryInv, NEW from \in Wallets, NEW to \in Wallets, NEW a \in Nat,
           balances[from] >= a, NEW b \in [Wallets -> Nat],
           \A w \in Wallets :
              b[w] = balances[w] - (IF w = from THEN a ELSE 0) + (IF w = to THEN a ELSE 0)
    PROVE  /\ SumFunction(b) = totalSupply
           /\ balances[from] - a \in Values
           /\ \A w \in Wallets : b[w] \in Values
<1> DEFINE middle == [balances EXCEPT ![from] = balances[from] - a]
<1>1. /\ balances \in [Wallets -> Nat] /\ balances \in [Wallets -> Int] /\ totalSupply \in Nat
      /\ totalSupply = SumFunction(balances) /\ totalSupply <= MaxCheckpoint
  BY HistoryFacts
<1>2. /\ middle \in [Wallets -> Nat] /\ middle \in [Wallets -> Int]
      /\ middle[from] = balances[from] - a
      /\ \A w \in Wallets \ {from} : middle[w] = balances[w]
  BY <1>1
<1>3. /\ b \in [Wallets -> Nat] /\ b \in [Wallets -> Int]
      /\ b[to] = middle[to] + a
      /\ \A w \in Wallets \ {to} : b[w] = middle[w]
  BY <1>1, <1>2
<1> HIDE DEF middle
<1>0. IsFiniteSet(Wallets) /\ from \in Wallets /\ to \in Wallets /\ a \in Nat
  OBVIOUS
<1>4. SumFunction(middle) = SumFunction(balances) - balances[from] + middle[from]
  BY ONLY <1>0, <1>1, <1>2, SumChanged
<1>5. SumFunction(b) = SumFunction(middle) - middle[to] + b[to]
  BY ONLY <1>0, <1>2, <1>3, SumChanged
<1>6. SumFunction(b) = totalSupply
  <2>1. SumFunction(middle) = totalSupply - a
    BY ONLY <1>0, <1>1, <1>2, <1>4
  <2> QED
    BY ONLY <1>0, <1>1, <1>2, <1>3, <1>5, <2>1
<1>7. SumFunction(b) <= MaxCheckpoint /\ SumFunction(balances) <= MaxCheckpoint
  BY ONLY <1>1, <1>6
<1>8. \A w \in Wallets : b[w] \in Values /\ balances[w] \in Values
  <2>1. \A w \in Wallets : b[w] \in Values
    BY ONLY <1>3, <1>7, BalancesFit, HistoryAssumption
  <2>2. \A w \in Wallets : balances[w] \in Values
    BY ONLY <1>1, <1>7, BalancesFit, HistoryAssumption
  <2> QED
    BY <2>1, <2>2
<1>9. balances[from] - a \in Values
  <2>1. balances[from] \in Values /\ balances[from] >= a /\ balances[from] \in Nat
    BY <1>1, <1>8
  <2> QED
    BY <2>1 DEF Values
<1> QED
  BY <1>6, <1>8, <1>9

\* A transfer writes two traces, or one twice when it is to oneself.
LEMMA TransferKeeps ==
    ASSUME HistoryInv, NEW from \in Wallets, NEW to \in Wallets, NEW a \in Nat,
           Transfer(from, to, a)
    PROVE  HistoryInv' /\ SamePast
<1>1. /\ now \in Nat /\ balances \in [Wallets -> Nat] /\ totalSupply \in Nat
      /\ totalSupply <= MaxCheckpoint
      /\ balanceCheckpoints \in [Wallets -> TracesBy(now)]
      /\ totalSupplyCheckpoints \in TracesBy(now)
      /\ \A w \in Wallets : Latest(balanceCheckpoints[w]) = balances[w]
      /\ Latest(totalSupplyCheckpoints) = totalSupply
  BY HistoryFacts
<1> DEFINE middle == [balanceCheckpoints EXCEPT
                         ![from] = Subtracted(balanceCheckpoints[from], a)]
<1>2. /\ now' = now /\ totalSupply' = totalSupply /\ balances[from] >= a
      /\ balances' = [[balances EXCEPT ![from] = @ - a] EXCEPT ![to] = @ + a]
      /\ totalSupplyCheckpoints' = totalSupplyCheckpoints
      /\ balanceCheckpoints' = [middle EXCEPT ![to] = Added(middle[to], a)]
  BY DEF Transfer
<1>3. /\ balances' \in [Wallets -> Nat]
      /\ \A w \in Wallets :
            balances'[w] = balances[w] - (IF w = from THEN a ELSE 0) + (IF w = to THEN a ELSE 0)
      /\ SumFunction(balances') = totalSupply
      /\ balances[from] - a \in Values
      /\ \A w \in Wallets : balances'[w] \in Values
  <2> HIDE DEF middle
  <2>1. /\ balances' \in [Wallets -> Nat]
        /\ \A w \in Wallets :
              balances'[w] = balances[w] - (IF w = from THEN a ELSE 0) + (IF w = to THEN a ELSE 0)
    BY <1>1, <1>2
  <2>2. /\ balances[from] >= a /\ HistoryInv
        /\ from \in Wallets /\ to \in Wallets /\ a \in Nat
    BY <1>2
  <2>3. /\ SumFunction(balances') = totalSupply
        /\ balances[from] - a \in Values
        /\ \A w \in Wallets : balances'[w] \in Values
    BY ONLY <2>1, <2>2, TransferLedger
  <2> QED
    BY <2>1, <2>3
<1>4. /\ middle \in [Wallets -> TracesBy(now)]
      /\ \A w \in Wallets : Latest(middle[w]) = balances[w] - (IF w = from THEN a ELSE 0)
      /\ SameBalances(balanceCheckpoints, middle)
  <2> DEFINE trace == Subtracted(balanceCheckpoints[from], a)
  <2>1. balanceCheckpoints[from] \in TracesBy(now) /\ Latest(balanceCheckpoints[from]) - a \in Values
    BY <1>1, <1>3
  <2>2. /\ trace \in TracesBy(now)
        /\ Latest(trace) = balances[from] - a
        /\ \A t \in 0 .. now - 1 : UpperLookup(trace, t) = UpperLookup(balanceCheckpoints[from], t)
    BY <1>1, <2>1, RecordFacts
  <2>3. middle = [balanceCheckpoints EXCEPT ![from] = trace]
    OBVIOUS
  <2> HIDE DEF trace, middle
  <2>4. /\ middle \in [Wallets -> TracesBy(now)]
        /\ middle[from] = trace
        /\ \A w \in Wallets \ {from} : middle[w] = balanceCheckpoints[w]
        /\ SameBalances(balanceCheckpoints, middle)
    BY <1>1, <2>2, <2>3, WriteFacts
  <2> QED
    BY <1>1, <2>2, <2>4
<1> HIDE DEF middle
<1>5. /\ balanceCheckpoints' \in [Wallets -> TracesBy(now)]
      /\ \A w \in Wallets : Latest(balanceCheckpoints'[w]) = balances'[w]
      /\ SameBalances(middle, balanceCheckpoints')
  <2> DEFINE trace == Added(middle[to], a)
  <2>1. /\ middle[to] \in TracesBy(now)
        /\ Latest(middle[to]) + a = balances'[to]
        /\ Latest(middle[to]) + a \in Values
    BY <1>1, <1>3, <1>4
  <2>2. /\ trace \in TracesBy(now)
        /\ Latest(trace) = balances'[to]
        /\ \A t \in 0 .. now - 1 : UpperLookup(trace, t) = UpperLookup(middle[to], t)
    BY <1>1, <2>1, RecordFacts
  <2>3. balanceCheckpoints' = [middle EXCEPT ![to] = trace]
    BY <1>2
  <2> HIDE DEF trace
  <2>4. /\ balanceCheckpoints' \in [Wallets -> TracesBy(now)]
        /\ balanceCheckpoints'[to] = trace
        /\ \A w \in Wallets \ {to} : balanceCheckpoints'[w] = middle[w]
        /\ SameBalances(middle, balanceCheckpoints')
    BY <1>4, <2>2, <2>3, WriteFacts
  <2>5. ASSUME NEW w \in Wallets PROVE Latest(balanceCheckpoints'[w]) = balances'[w]
    <3>1. CASE w = to
      BY <2>2, <2>4, <3>1
    <3>2. CASE w # to
      BY <1>1, <1>3, <1>4, <2>4, <3>2
    <3> QED
      BY <3>1, <3>2
  <2> QED
    BY <2>4, <2>5
<1>6. SameBalances(balanceCheckpoints, balanceCheckpoints')
  BY <1>4, <1>5 DEF SameBalances
<1>7. SamePast
  BY <1>2, <1>6 DEF SamePast
<1>8. HistoryInv'
  <2>1. totalSupply' = SumFunction(balances') /\ totalSupply' <= MaxCheckpoint
    BY <1>1, <1>2, <1>3
  <2>2. totalSupplyCheckpoints' \in TracesBy(now) /\ Latest(totalSupplyCheckpoints') = totalSupply'
    BY <1>1, <1>2
  <2> QED
    BY <1>2, <1>3, <1>5, <1>7, <2>1, <2>2, HistoryInvAgain
<1> QED
  BY <1>7, <1>8

\* The clock passes: the past gains the time that was the present, about which
\* every trace answers its latest value.
LEMMA TickKeeps ==
    ASSUME HistoryInv, Tick
    PROVE  HistoryInv' /\ SamePast
<1>1. /\ now \in Nat /\ balances \in [Wallets -> Nat] /\ totalSupply \in Nat
      /\ totalSupply = SumFunction(balances) /\ totalSupply <= MaxCheckpoint
      /\ balanceCheckpoints \in [Wallets -> TracesBy(now)]
      /\ totalSupplyCheckpoints \in TracesBy(now)
      /\ \A w \in Wallets : Latest(balanceCheckpoints[w]) = balances[w]
      /\ Latest(totalSupplyCheckpoints) = totalSupply
      /\ PastAddsUp
  BY HistoryFacts
<1>2. /\ now' = now + 1 /\ balances' = balances /\ totalSupply' = totalSupply
      /\ balanceCheckpoints' = balanceCheckpoints
      /\ totalSupplyCheckpoints' = totalSupplyCheckpoints
  BY DEF Tick
<1>3. SamePast
  BY <1>2 DEF SamePast, SameBalances
<1>4. TracesBy(now) \subseteq TracesBy(now + 1)
  <2>1. now \in Int /\ now + 1 \in Int /\ now <= now + 1
    BY <1>1
  <2> QED
    BY <2>1, RecordedLater
<1>5. /\ balanceCheckpoints' \in [Wallets -> TracesBy(now + 1)]
      /\ totalSupplyCheckpoints' \in TracesBy(now + 1)
  BY <1>1, <1>2, <1>4
<1>6. ASSUME NEW t \in 0 .. now
      PROVE  UpperLookup(totalSupplyCheckpoints, t)
                = SumFunction([w \in Wallets |-> UpperLookup(balanceCheckpoints[w], t)])
  <2>1. CASE t = now
    <3>1. UpperLookup(totalSupplyCheckpoints, t) = totalSupply
      BY <1>1, <2>1, LookupOfPresent
    <3>2. \A w \in Wallets : UpperLookup(balanceCheckpoints[w], t) = balances[w]
      BY <1>1, <2>1, LookupOfPresent
    <3>3. [w \in Wallets |-> UpperLookup(balanceCheckpoints[w], t)] = balances
      BY <1>1, <3>2
    <3> QED
      BY <1>1, <3>1, <3>3
  <2>2. CASE t # now
    <3>1. t \in 0 .. now - 1
      BY <1>1, <2>2
    <3> QED
      BY <1>1, <3>1 DEF PastAddsUp, TotalSupplyAt, BalanceOfAt
  <2> QED
    BY <2>1, <2>2
<1>7. PastAddsUp'
  <2> SUFFICES ASSUME NEW t \in 0 .. now' - 1
               PROVE  UpperLookup(totalSupplyCheckpoints', t)
                         = SumFunction([w \in Wallets |-> UpperLookup(balanceCheckpoints'[w], t)])
    BY DEF PastAddsUp, TotalSupplyAt, BalanceOfAt, UpperLookup, ValuesAt
  <2>1. t \in 0 .. now
    BY <1>1, <1>2
  <2> QED
    BY <1>2, <1>6, <2>1
<1>8. TracesFollowLedger'
  BY <1>1, <1>2 DEF TracesFollowLedger, Latest
<1>9. HistoryInv'
  <2>1. now' \in Nat /\ balances' \in [Wallets -> Nat]
        /\ totalSupply' = SumFunction(balances') /\ totalSupply' <= MaxCheckpoint
    BY <1>1, <1>2
  <2>2. /\ balanceCheckpoints' \in [Wallets -> TracesBy(now')]
        /\ totalSupplyCheckpoints' \in TracesBy(now')
    BY <1>2, <1>5
  <2> QED
    BY <1>7, <1>8, <2>1, <2>2 DEF HistoryInv, TracesBy, TracesOf, Values
<1> QED
  BY <1>3, <1>9

\* Nothing has been recorded, held or answered at first.
LEMMA HistoryInitInv == HistoryInit => HistoryInv
<1> SUFFICES ASSUME HistoryInit PROVE HistoryInv
  OBVIOUS
<1>1. << >> \in TracesBy(now)
  BY DEF TracesBy, TracesOf
<1>2. balances \in [Wallets -> Nat] /\ \A w \in Wallets : balances[w] = 0
  BY DEF HistoryInit
<1>3. /\ balanceCheckpoints \in [Wallets -> TracesBy(now)]
      /\ \A w \in Wallets : balanceCheckpoints[w] = << >>
  BY <1>1 DEF HistoryInit
<1>4. TracesFollowLedger
  BY <1>2, <1>3 DEF HistoryInit, TracesFollowLedger, Latest
<1>5. now = 0 /\ totalSupply = 0 /\ totalSupplyCheckpoints \in TracesBy(now)
  BY <1>1 DEF HistoryInit
<1>6. totalSupply = SumFunction(balances)
  BY SumOfZeros DEF HistoryInit
<1>7. PastAddsUp
  BY <1>5 DEF PastAddsUp
<1> QED
  BY <1>2, <1>3, <1>4, <1>5, <1>6, <1>7 DEF HistoryInv

\* Every step keeps the invariant and the past.
LEMMA HistoryStep ==
    ASSUME HistoryInv, [HistoryNext]_historyVars
    PROVE  HistoryInv' /\ SamePast
<1>1. CASE UNCHANGED historyVars
  <2>1. /\ now' = now /\ balances' = balances /\ totalSupply' = totalSupply
        /\ balanceCheckpoints' = balanceCheckpoints
        /\ totalSupplyCheckpoints' = totalSupplyCheckpoints
    BY <1>1 DEF historyVars
  <2>2. SamePast
    BY <2>1 DEF SamePast, SameBalances
  <2>3. HistoryInv'
    BY <2>1, <2>2, HistoryFacts, HistoryInvAgain
  <2> QED
    BY <2>2, <2>3
<1>2. CASE \E to \in Wallets, a \in Amounts : Mint(to, a)
  BY <1>2, MintKeeps
<1>3. CASE \E from \in Wallets, a \in Amounts : Burn(from, a)
  BY <1>3, BurnKeeps
<1>4. CASE \E from, to \in Wallets, a \in Amounts : Transfer(from, to, a)
  BY <1>4, TransferKeeps
<1>5. CASE Tick
  BY <1>5, TickKeeps
<1> QED
  BY <1>1, <1>2, <1>3, <1>4, <1>5 DEF HistoryNext

-----------------------------------------------------------------------------
(* The theorems about the history.                                         *)

\* The invariant holds in every state of every run of the ledger and its traces.
THEOREM HistoryInvariant == HistorySpec => []HistoryInv
<1>1. HistoryInv /\ [HistoryNext]_historyVars => HistoryInv'
  BY HistoryStep
<1> QED
  BY <1>1, HistoryInitInv, PTL DEF HistorySpec

\* The traces never drift from the ledger.
THEOREM TracesNeverDrift == HistorySpec => []TracesFollowLedger
<1>1. HistoryInv => TracesFollowLedger
  BY DEF HistoryInv
<1> QED
  BY <1>1, HistoryInvariant, PTL

\* The balances a token answers for any past time add up to the supply it
\* answers for that time.
THEOREM PastAlwaysAddsUp == HistorySpec => []PastAddsUp
<1>1. HistoryInv => PastAddsUp
  BY DEF HistoryInv
<1> QED
  BY <1>1, HistoryInvariant, PTL

\* Whatever a token has answered about the past it will answer again.
THEOREM PastIsFixed == HistorySpec => PastNeverChanges
<1> DEFINE Same == \A t \in 0 .. now - 1 :
                      /\ TotalSupplyAt(t)' = TotalSupplyAt(t)
                      /\ \A w \in Wallets : BalanceOfAt(w, t)' = BalanceOfAt(w, t)
<1>1. HistoryInv /\ [HistoryNext]_historyVars => [Same]_historyVars
  <2> SUFFICES ASSUME HistoryInv, [HistoryNext]_historyVars PROVE Same
    OBVIOUS
  <2>1. SamePast
    BY HistoryStep
  <2> QED
    BY <2>1 DEF SamePast, SameBalances, TotalSupplyAt, BalanceOfAt, UpperLookup, ValuesAt
<1> QED
  BY <1>1, HistoryInvariant, PTL DEF HistorySpec, PastNeverChanges

(***************************************************************************)
(* The yield schedule.                                                     *)
(***************************************************************************)

USE ScheduleAssumption

-----------------------------------------------------------------------------
(* Periods.                                                                *)

\* The periods completed by a time.
CompletedBy(t) ==
    IF t <= StartDate THEN 0
    ELSE IF t >= EndDate THEN TotalPeriods
    ELSE (t - StartDate) \div Interval

\* Periods end at a time, and their number is a number.
LEMMA PeriodTypes ==
    /\ \A p \in Nat : PeriodEnd(p) \in Nat
    /\ TotalPeriods \in Nat
    /\ \A t \in Nat : CompletedBy(t) \in Nat
<1>1. ASSUME NEW p \in Nat PROVE PeriodEnd(p) \in Nat
  <2>1. p * Interval \in Nat
    OBVIOUS
  <2> QED
    BY <2>1 DEF PeriodEnd
<1>2. ASSUME NEW x \in Nat PROVE x \div Interval \in Nat
  <2>1. x \div Interval \in Int /\ 0 <= x \div Interval
    <3>1. Interval * 0 <= x
      OBVIOUS
    <3> QED
      BY <3>1, DivisionBounds, QuotientAtMost
  <2> QED
    BY <2>1
<1>3. TotalPeriods \in Nat
  <2>1. EndDate - StartDate \in Nat
    OBVIOUS
  <2>2. (EndDate - StartDate) \div Interval \in Nat
    BY <1>2, <2>1
  <2> QED
    BY <2>2 DEF TotalPeriods
<1>4. ASSUME NEW t \in Nat PROVE CompletedBy(t) \in Nat
  <2>1. t > StartDate => t - StartDate \in Nat
    OBVIOUS
  <2>2. t > StartDate => (t - StartDate) \div Interval \in Nat
    BY <1>2, <2>1
  <2> QED
    BY <1>3, <2>2 DEF CompletedBy
<1> QED
  BY <1>1, <1>3, <1>4

\* A period that was completed stays completed.
LEMMA CompletedGrows ==
    ASSUME NEW t \in Nat, NEW u \in Nat, t <= u
    PROVE  CompletedBy(t) <= CompletedBy(u)
<1>1. CompletedBy(t) \in Nat /\ CompletedBy(u) \in Nat /\ TotalPeriods \in Nat
  BY PeriodTypes
<1>2. ASSUME NEW x \in Int, NEW y \in Int, x <= y
      PROVE  x \div Interval <= y \div Interval
  BY <1>2, QuotientsOrdered
<1>3. CASE t <= StartDate
  <2>1. CompletedBy(t) = 0
    BY <1>3 DEF CompletedBy
  <2> QED
    BY <1>1, <2>1
<1>4. CASE t > StartDate /\ u >= EndDate
  <2>1. CompletedBy(u) = TotalPeriods
    BY <1>4 DEF CompletedBy
  <2>2. CASE t >= EndDate
    BY <1>1, <1>4, <2>1, <2>2 DEF CompletedBy
  <2>3. CASE t < EndDate
    <3>1. CompletedBy(t) = (t - StartDate) \div Interval
      BY <1>4, <2>3 DEF CompletedBy
    <3>2. (t - StartDate) \div Interval <= (EndDate - StartDate) \div Interval
      BY <1>2, <2>3
    <3>3. (EndDate - StartDate) \div Interval \in Int
      BY DivisionBounds
    <3> HIDE DEF CompletedBy
    <3> QED
      BY <1>1, <2>1, <3>1, <3>2, <3>3 DEF TotalPeriods
  <2> QED
    BY <2>2, <2>3
<1>5. CASE t > StartDate /\ u < EndDate
  <2>1. /\ CompletedBy(t) = (t - StartDate) \div Interval
        /\ CompletedBy(u) = (u - StartDate) \div Interval
    BY <1>5 DEF CompletedBy
  <2>2. (t - StartDate) \div Interval <= (u - StartDate) \div Interval
    BY <1>2
  <2> QED
    BY <2>1, <2>2
<1> QED
  BY <1>3, <1>4, <1>5

-----------------------------------------------------------------------------
(* Yields.                                                                 *)

\* A balance earns a whole amount; two balances earn apart at most what they
\* earn together.
LEMMA YieldFacts ==
    /\ \A a \in Int : YieldOf(a) \in Int
    /\ \A a \in Nat : YieldOf(a) \in Nat
    /\ YieldOf(0) = 0
    /\ \A a, b \in Int : YieldOf(a) + YieldOf(b) <= YieldOf(a + b)
<1>1. \A a \in Int : a * Basis * Rate \in Int
  OBVIOUS
<1>2. \A a \in Int : YieldOf(a) \in Int
  BY <1>1, DivisionBounds DEF YieldOf
<1>3. ASSUME NEW a \in Nat PROVE YieldOf(a) \in Nat
  <2> DEFINE x == a * Basis * Rate
  <2>1. x \in Int /\ 0 <= x
    <3>1. a * Basis \in Nat
      OBVIOUS
    <3>2. (a * Basis) * Rate \in Nat
      BY <3>1
    <3> QED
      BY <3>2
  <2> HIDE DEF x
  <2>2. RateBasisPoints * 0 <= x
    BY <2>1
  <2>3. 0 <= x \div RateBasisPoints
    BY <2>1, <2>2, QuotientAtMost
  <2>4. 0 <= YieldOf(a)
    BY <2>3 DEF YieldOf, x
  <2> QED
    BY <1>2, <2>4
<1>4. YieldOf(0) = 0
  <2>1. 0 * Basis * Rate = 0
    OBVIOUS
  <2>2. 0 \div RateBasisPoints = 0
    OBVIOUS
  <2> QED
    BY <2>1, <2>2 DEF YieldOf
<1>5. ASSUME NEW a \in Int, NEW b \in Int
      PROVE  YieldOf(a) + YieldOf(b) <= YieldOf(a + b)
  <2> DEFINE x == a * Basis * Rate
             y == b * Basis * Rate
  <2>1. x \in Int /\ y \in Int
    BY <1>1
  <2>2. (a + b) * Basis * Rate = x + y
    <3>1. (a + b) * Basis = a * Basis + b * Basis
      OBVIOUS
    <3> DEFINE p == a * Basis
               q == b * Basis
    <3>2. p \in Int /\ q \in Int
      OBVIOUS
    <3> HIDE DEF p, q
    <3>3. (p + q) * Rate = p * Rate + q * Rate
      BY <3>2
    <3> QED
      BY <3>1, <3>3 DEF p, q
  <2> HIDE DEF x, y
  <2>3. (x \div RateBasisPoints) + (y \div RateBasisPoints) <= (x + y) \div RateBasisPoints
    BY <2>1, QuotientsOfParts
  <2> QED
    BY <2>2, <2>3 DEF YieldOf, x, y
<1> QED
  BY <1>2, <1>3, <1>4, <1>5

\* What each wallet and the supply earn in a period are whole amounts.
LEMMA PeriodYields ==
    ASSUME HistoryInv, NEW p \in Nat
    PROVE  /\ \A w \in Wallets : YieldForPeriod(w, p) \in Nat
           /\ YieldOf(TotalSupplyAt(PeriodEnd(p))) \in Nat
           /\ \A w \in Wallets : BalanceOfAt(w, PeriodEnd(p)) \in Nat
<1>1. PeriodEnd(p) \in Int
  BY PeriodTypes
<1>2. \A trace \in TracesBy(now) : UpperLookup(trace, PeriodEnd(p)) \in Values
  BY <1>1, LookupFits DEF TracesBy
<1>3. \A v \in Values : v \in Nat
  BY DEF Values
<1>4. \A w \in Wallets : BalanceOfAt(w, PeriodEnd(p)) \in Nat
  BY <1>2, <1>3 DEF HistoryInv, BalanceOfAt
<1>5. TotalSupplyAt(PeriodEnd(p)) \in Nat
  BY <1>2, <1>3 DEF HistoryInv, TotalSupplyAt
<1> QED
  BY <1>4, <1>5, YieldFacts DEF YieldForPeriod

\* The yield of periods is that of some and that of the rest.
LEMMA YieldSplits ==
    ASSUME HistoryInv, NEW w \in Wallets, NEW m \in Nat, NEW n \in Nat, m <= n
    PROVE  /\ YieldForPeriods(w, 1 .. m) \in Nat
           /\ YieldForPeriods(w, m + 1 .. n) \in Nat
           /\ YieldForPeriods(w, 1 .. n)
                 = YieldForPeriods(w, 1 .. m) + YieldForPeriods(w, m + 1 .. n)
<1> DEFINE h == [p \in Nat |-> YieldForPeriod(w, p)]
           f == [p \in 1 .. n |-> h[p]]
           a == [p \in 1 .. m |-> h[p]]
           b == [p \in m + 1 .. n |-> h[p]]
<1>1. h \in [Nat -> Nat] /\ h \in [Nat -> Int]
  BY PeriodYields
<1>2. m \in Nat /\ n \in Nat /\ m <= n
  OBVIOUS
<1>3. /\ f = [p \in 1 .. n |-> YieldForPeriod(w, p)]
      /\ a = [p \in 1 .. m |-> YieldForPeriod(w, p)]
      /\ b = [p \in m + 1 .. n |-> YieldForPeriod(w, p)]
  OBVIOUS
<1> HIDE DEF h
<1>4. a \in [1 .. m -> Nat] /\ b \in [m + 1 .. n -> Nat]
  BY <1>1
<1>5. /\ YieldForPeriods(w, 1 .. n) = SumFunction(f)
      /\ YieldForPeriods(w, 1 .. m) = SumFunction(a)
      /\ YieldForPeriods(w, m + 1 .. n) = SumFunction(b)
  BY <1>3 DEF YieldForPeriods
<1>6. SumFunction(f) = SumFunction(a) + SumFunction(b)
  BY ONLY <1>1, <1>2, SumOfIntervals
<1> HIDE DEF f, a, b
<1>7. IsFiniteSet(1 .. m) /\ IsFiniteSet(m + 1 .. n)
  BY <1>2, FS_Interval
<1>8. SumFunction(a) \in Nat
  BY ONLY <1>4, <1>7, SumIsNatural
<1>9. SumFunction(b) \in Nat
  BY ONLY <1>4, <1>7, SumIsNatural
<1> QED
  BY <1>5, <1>6, <1>8, <1>9

-----------------------------------------------------------------------------
(* Claims.                                                                 *)

\* The history's invariant, and that what each holder claimed lies in the past,
\* where it cannot change any more, and was paid exactly once.
ScheduleInv ==
    /\ HistoryInv
    /\ lastClaimedPeriod \in [Wallets -> Nat]
    /\ \A w \in Wallets : lastClaimedPeriod[w] <= LastCompletedPeriod
    /\ \A w \in Wallets : \A p \in 1 .. lastClaimedPeriod[w] : CanLookup(PeriodEnd(p))
    /\ paid \in [Wallets -> Nat]
    /\ totalClaimed = SumFunction(paid)
    /\ PaidOncePerPeriod

\* The token under a schedule is the ledger with its history, which may refuse
\* mints.
LEMMA ScheduleStepIsHistoryStep == [ScheduleNext]_vars => [HistoryNext]_historyVars
<1> SUFFICES ASSUME [ScheduleNext]_vars PROVE [HistoryNext]_historyVars
  OBVIOUS
<1>1. CASE \E w \in Wallets : ClaimYield(w)
  BY <1>1 DEF ClaimYield
<1>2. CASE \E a \in Amounts : TopUpUnderlyingAsset(a) \/ WithdrawUnderlyingAsset(a)
  BY <1>2 DEF TopUpUnderlyingAsset, WithdrawUnderlyingAsset
<1>3. CASE WithdrawUnderlyingAsset(funds)
  BY <1>3 DEF WithdrawUnderlyingAsset
<1>4. CASE \E p \in BOOLEAN : SetPaused(p)
  BY <1>4 DEF SetPaused
<1>5. CASE TokenStep \/ Tick
  BY <1>5 DEF TokenStep, HistoryNext
<1>6. CASE UNCHANGED vars
  BY <1>6 DEF vars
<1> QED
  BY <1>1, <1>2, <1>3, <1>4, <1>5, <1>6 DEF ScheduleNext

\* Time does not run backwards.
LEMMA TimePasses ==
    ASSUME HistoryInv, [HistoryNext]_historyVars
    PROVE  now \in Nat /\ now' \in Nat /\ now <= now'
BY DEF HistoryInv, HistoryNext, historyVars, Mint, Burn, Transfer, Tick

\* A step of the ledger keeps the yield of the periods that lie in the past, and
\* completes no fewer of them.
LEMMA PastYieldsStay ==
    ASSUME HistoryInv, [HistoryNext]_historyVars
    PROVE  /\ LastCompletedPeriod \in Nat /\ LastCompletedPeriod' \in Nat
           /\ LastCompletedPeriod <= LastCompletedPeriod'
           /\ \A p \in Nat : CanLookup(PeriodEnd(p)) =>
                 /\ CanLookup(PeriodEnd(p))'
                 /\ \A w \in Wallets : YieldForPeriod(w, p)' = YieldForPeriod(w, p)
<1>1. now \in Nat /\ now' \in Nat /\ now <= now' /\ SamePast
  BY TimePasses, HistoryStep
<1>2. LastCompletedPeriod = CompletedBy(now) /\ LastCompletedPeriod' = CompletedBy(now')
  BY DEF LastCompletedPeriod, CompletedBy, TotalPeriods
<1>3. CompletedBy(now) \in Nat /\ CompletedBy(now') \in Nat /\ CompletedBy(now) <= CompletedBy(now')
  BY <1>1, PeriodTypes, CompletedGrows
<1>4. ASSUME NEW p \in Nat, PeriodEnd(p) < now
      PROVE  /\ PeriodEnd(p) < now'
             /\ \A w \in Wallets : UpperLookup(balanceCheckpoints'[w], PeriodEnd(p))
                                      = UpperLookup(balanceCheckpoints[w], PeriodEnd(p))
  <2>1. PeriodEnd(p) \in Nat
    BY PeriodTypes
  <2>2. PeriodEnd(p) \in 0 .. now - 1
    BY <1>1, <1>4, <2>1
  <2>3. PeriodEnd(p) < now'
    BY <1>1, <1>4, <2>1
  <2> QED
    BY <1>1, <2>2, <2>3 DEF SamePast, SameBalances
<1>5. \A p \in Nat : CanLookup(PeriodEnd(p)) =>
         /\ CanLookup(PeriodEnd(p))'
         /\ \A w \in Wallets : YieldForPeriod(w, p)' = YieldForPeriod(w, p)
  BY <1>4 DEF CanLookup, YieldForPeriod, YieldOf, BalanceOfAt, PeriodEnd, UpperLookup, ValuesAt
<1> QED
  BY <1>2, <1>3, <1>5

\* What was paid stays what it should be while nobody claims.
LEMMA NoClaimKeeps ==
    ASSUME ScheduleInv, [HistoryNext]_historyVars, UNCHANGED claimVars
    PROVE  ScheduleInv'
<1>1. HistoryInv'
  BY HistoryStep DEF ScheduleInv
<1>2. /\ lastClaimedPeriod' = lastClaimedPeriod /\ paid' = paid /\ totalClaimed' = totalClaimed
      /\ lastClaimedPeriod \in [Wallets -> Nat] /\ paid \in [Wallets -> Nat]
      /\ totalClaimed = SumFunction(paid)
  BY DEF ScheduleInv, claimVars
<1>3. /\ LastCompletedPeriod \in Nat /\ LastCompletedPeriod' \in Nat
      /\ LastCompletedPeriod <= LastCompletedPeriod'
      /\ \A p \in Nat : CanLookup(PeriodEnd(p)) =>
            /\ CanLookup(PeriodEnd(p))'
            /\ \A w \in Wallets : YieldForPeriod(w, p)' = YieldForPeriod(w, p)
  BY PastYieldsStay DEF ScheduleInv
<1>4. ASSUME NEW w \in Wallets
      PROVE  /\ lastClaimedPeriod[w] \in Nat
             /\ lastClaimedPeriod[w] <= LastCompletedPeriod'
             /\ \A p \in 1 .. lastClaimedPeriod[w] : CanLookup(PeriodEnd(p))'
             /\ paid[w] = YieldForPeriods(w, 1 .. lastClaimedPeriod[w])'
  <2> DEFINE n == lastClaimedPeriod[w]
  <2>1. n \in Nat /\ n <= LastCompletedPeriod
    BY <1>2 DEF ScheduleInv
  <2>2. \A p \in 1 .. n : p \in Nat /\ CanLookup(PeriodEnd(p))
    BY <2>1 DEF ScheduleInv
  <2>3. \A p \in 1 .. n : YieldForPeriod(w, p)' = YieldForPeriod(w, p)
    BY <1>3, <2>2
  <2>4. n' = n
    BY <1>2
  <2>5. YieldForPeriods(w, 1 .. n)' = YieldForPeriods(w, 1 .. n)
    <3>1. YieldForPeriods(w, 1 .. n)' = SumFunction([p \in 1 .. n' |-> YieldForPeriod(w, p)'])
      BY DEF YieldForPeriods
    <3> HIDE DEF n
    <3>2. [p \in 1 .. n' |-> YieldForPeriod(w, p)'] = [p \in 1 .. n |-> YieldForPeriod(w, p)]
      BY <2>3, <2>4
    <3> QED
      BY <3>1, <3>2 DEF YieldForPeriods
  <2>6. paid[w] = YieldForPeriods(w, 1 .. n)
    BY DEF ScheduleInv, PaidOncePerPeriod
  <2>7. n <= LastCompletedPeriod'
    BY <1>3, <2>1
  <2> QED
    BY <1>3, <2>1, <2>2, <2>5, <2>6, <2>7
<1>5. PaidOncePerPeriod'
  BY <1>2, <1>4 DEF PaidOncePerPeriod
<1>6. /\ \A w \in Wallets : lastClaimedPeriod'[w] <= LastCompletedPeriod'
      /\ \A w \in Wallets : \A p \in 1 .. lastClaimedPeriod'[w] : CanLookup(PeriodEnd(p))'
  BY <1>2, <1>4
<1> QED
  BY <1>1, <1>2, <1>5, <1>6 DEF ScheduleInv

\* What is owed and what was paid is the yield of all completed periods.
LEMMA OwedAndPaid ==
    ASSUME ScheduleInv, NEW w \in Wallets
    PROVE  /\ Owed(w) \in Nat /\ paid[w] \in Nat
           /\ Owed(w) + paid[w] = YieldForPeriods(w, 1 .. LastCompletedPeriod)
           /\ YieldForPeriods(w, 1 .. LastCompletedPeriod) \in Nat
<1> DEFINE m == lastClaimedPeriod[w]
           n == LastCompletedPeriod
<1>1. now \in Nat /\ n = CompletedBy(now)
  BY DEF ScheduleInv, HistoryInv, LastCompletedPeriod, CompletedBy
<1>2. m \in Nat /\ n \in Nat /\ m <= n /\ HistoryInv
  BY <1>1, PeriodTypes DEF ScheduleInv
<1>3. Owed(w) = YieldForPeriods(w, m + 1 .. n) /\ paid[w] = YieldForPeriods(w, 1 .. m)
  BY DEF Owed, UnclaimedPeriods, ScheduleInv, PaidOncePerPeriod
<1> HIDE DEF m, n
<1>4. /\ YieldForPeriods(w, 1 .. m) \in Nat
      /\ YieldForPeriods(w, m + 1 .. n) \in Nat
      /\ YieldForPeriods(w, 1 .. n)
            = YieldForPeriods(w, 1 .. m) + YieldForPeriods(w, m + 1 .. n)
  BY <1>2, YieldSplits
<1> QED
  BY <1>3, <1>4 DEF n

\* A claim pays what is owed and no less, for periods that lie in the past.
LEMMA ClaimKeeps ==
    ASSUME ScheduleInv, NEW w \in Wallets, ClaimYield(w)
    PROVE  ScheduleInv'
<1> DEFINE n == LastCompletedPeriod
           owed == Owed(w)
<1>1. /\ lastClaimedPeriod' = [lastClaimedPeriod EXCEPT ![w] = n]
      /\ totalClaimed' = totalClaimed + owed
      /\ paid' = [paid EXCEPT ![w] = paid[w] + owed]
      /\ UNCHANGED historyVars
  BY DEF ClaimYield
<1>2. /\ lastClaimedPeriod \in [Wallets -> Nat] /\ paid \in [Wallets -> Nat]
      /\ totalClaimed = SumFunction(paid)
      /\ \A x \in Wallets : lastClaimedPeriod[x] <= n
      /\ \A x \in Wallets : \A p \in 1 .. lastClaimedPeriod[x] : CanLookup(PeriodEnd(p))
      /\ \A x \in Wallets : paid[x] = YieldForPeriods(x, 1 .. lastClaimedPeriod[x])
      /\ HistoryInv
  BY DEF ScheduleInv, PaidOncePerPeriod
<1>3. HistoryInv'
  BY <1>1, <1>2, HistoryStep
<1>4. /\ owed \in Nat /\ owed + paid[w] = YieldForPeriods(w, 1 .. n)
      /\ n \in Nat
  <2>1. owed \in Nat /\ owed + paid[w] = YieldForPeriods(w, 1 .. n)
    BY OwedAndPaid
  <2>2. n = CompletedBy(now) /\ now \in Nat
    BY <1>2 DEF LastCompletedPeriod, CompletedBy, HistoryInv
  <2>3. n \in Nat
    BY <2>2, PeriodTypes
  <2> QED
    BY <2>1, <2>3
<1>5. \A p \in 1 .. n : CanLookup(PeriodEnd(p))
  BY DEF ClaimYield, CanClaimYield, PeriodsReadable
<1>6. /\ \A x \in Wallets : \A p : YieldForPeriod(x, p)' = YieldForPeriod(x, p)
      /\ \A p : CanLookup(PeriodEnd(p))' <=> CanLookup(PeriodEnd(p))
      /\ LastCompletedPeriod' = n
  BY <1>1 DEF historyVars, YieldForPeriod, YieldOf, BalanceOfAt, UpperLookup, ValuesAt,
              CanLookup, PeriodEnd, LastCompletedPeriod, TotalPeriods
<1>7. \A x \in Wallets : \A S : YieldForPeriods(x, S)' = YieldForPeriods(x, S)
  <2> TAKE x \in Wallets
  <2> TAKE S
  <2>1. YieldForPeriods(x, S)' = SumFunction([p \in S |-> YieldForPeriod(x, p)'])
    BY DEF YieldForPeriods
  <2>2. [p \in S |-> YieldForPeriod(x, p)'] = [p \in S |-> YieldForPeriod(x, p)]
    BY <1>6
  <2> QED
    BY <2>1, <2>2 DEF YieldForPeriods
<1> HIDE DEF n, owed
<1>8. /\ lastClaimedPeriod' \in [Wallets -> Nat] /\ paid' \in [Wallets -> Nat]
      /\ lastClaimedPeriod'[w] = n /\ paid'[w] = paid[w] + owed
      /\ \A x \in Wallets \ {w} : lastClaimedPeriod'[x] = lastClaimedPeriod[x] /\ paid'[x] = paid[x]
  BY <1>1, <1>2, <1>4
<1>9. totalClaimed' = SumFunction(paid')
  <2>1. paid \in [Wallets -> Int] /\ paid' \in [Wallets -> Int] /\ IsFiniteSet(Wallets)
        /\ w \in Wallets
    BY <1>2, <1>8
  <2>2. SumFunction(paid') = SumFunction(paid) - paid[w] + paid'[w] /\ SumFunction(paid) \in Int
    BY ONLY <1>8, <2>1, SumChanged, SumIsInteger
  <2>3. paid[w] \in Int
    BY <2>1
  <2> QED
    BY ONLY <1>1, <1>2, <1>4, <1>8, <2>2, <2>3
<1>10. ASSUME NEW x \in Wallets
       PROVE  /\ lastClaimedPeriod'[x] <= LastCompletedPeriod'
              /\ \A p \in 1 .. lastClaimedPeriod'[x] : CanLookup(PeriodEnd(p))'
              /\ paid'[x] = YieldForPeriods(x, 1 .. lastClaimedPeriod'[x])
  <2>1. CASE x = w
    <3>1. lastClaimedPeriod'[x] <= LastCompletedPeriod'
      BY <1>4, <1>6, <1>8, <2>1
    <3>2. \A p \in 1 .. lastClaimedPeriod'[x] : CanLookup(PeriodEnd(p))'
      BY <1>5, <1>6, <1>8, <2>1 DEF n
    <3>3. paid'[x] = YieldForPeriods(x, 1 .. lastClaimedPeriod'[x])
      <4>1. paid[w] \in Nat
        BY <1>2
      <4> QED
        BY <1>4, <1>8, <2>1, <4>1
    <3> QED
      BY <3>1, <3>2, <3>3
  <2>2. CASE x # w
    BY <1>2, <1>6, <1>8, <2>2
  <2> QED
    BY <2>1, <2>2
<1>11. PaidOncePerPeriod'
  BY <1>7, <1>10 DEF PaidOncePerPeriod
<1> QED
  BY <1>3, <1>8, <1>9, <1>10, <1>11 DEF ScheduleInv

\* Every step of the schedule and of its token keeps the invariant.
LEMMA ScheduleStep == ScheduleInv /\ [ScheduleNext]_vars => ScheduleInv'
<1> SUFFICES ASSUME ScheduleInv, [ScheduleNext]_vars PROVE ScheduleInv'
  OBVIOUS
<1>1. [HistoryNext]_historyVars
  BY ScheduleStepIsHistoryStep
<1>2. (\E w \in Wallets : ClaimYield(w)) \/ UNCHANGED claimVars
  BY DEF ScheduleNext, TopUpUnderlyingAsset, WithdrawUnderlyingAsset, SetPaused, scheduleVars, vars
<1> QED
  BY <1>1, <1>2, ClaimKeeps, NoClaimKeeps

\* Nothing is claimed or paid at first.
LEMMA ScheduleInitInv == ScheduleInit => ScheduleInv
<1> SUFFICES ASSUME ScheduleInit PROVE ScheduleInv
  OBVIOUS
<1>1. HistoryInv /\ now = 0
  BY HistoryInitInv DEF ScheduleInit, HistoryInit
<1>2. /\ lastClaimedPeriod \in [Wallets -> Nat] /\ paid \in [Wallets -> Nat]
      /\ \A w \in Wallets : lastClaimedPeriod[w] = 0 /\ paid[w] = 0
  BY DEF ScheduleInit
<1>3. totalClaimed = SumFunction(paid)
  BY SumOfZeros DEF ScheduleInit
<1>4. LastCompletedPeriod = 0
  BY <1>1 DEF LastCompletedPeriod
<1>5. \A w \in Wallets : YieldForPeriods(w, 1 .. 0) = 0
  <2> TAKE w \in Wallets
  <2>1. [p \in 1 .. 0 |-> YieldForPeriod(w, p)] = [p \in 1 .. 0 |-> 0]
    OBVIOUS
  <2>2. IsFiniteSet(1 .. 0)
    BY FS_Interval
  <2>3. SumFunction([p \in 1 .. 0 |-> 0]) = 0
    BY ONLY <2>2, SumOfZeros
  <2> QED
    BY <2>1, <2>3 DEF YieldForPeriods
<1>6. PaidOncePerPeriod
  BY <1>2, <1>5 DEF PaidOncePerPeriod
<1> QED
  BY <1>1, <1>2, <1>3, <1>4, <1>6 DEF ScheduleInv

-----------------------------------------------------------------------------
(* The supply and its holders.                                             *)

\* In a period that lies in the past the holders earn apart at most what the
\* supply earns, whatever the roundings.
LEMMA PeriodWithinSupply ==
    ASSUME HistoryInv, NEW p \in Nat, CanLookup(PeriodEnd(p)),
           NEW q, q = [w \in Wallets |-> YieldForPeriod(w, p)]
    PROVE  SumFunction(q) <= YieldOf(TotalSupplyAt(PeriodEnd(p)))
<1> DEFINE t == PeriodEnd(p)
           held == [w \in Wallets |-> BalanceOfAt(w, t)]
           worth == [a \in Int |-> YieldOf(a)]
<1>1. TotalSupplyAt(t) = SumFunction(held)
  <2>1. t \in 0 .. now - 1
    <3>1. t \in Nat /\ t < now /\ now \in Nat
      BY PeriodTypes DEF CanLookup, HistoryInv
    <3> HIDE DEF t
    <3> QED
      BY <3>1
  <2> HIDE DEF t
  <2> QED
    BY <2>1 DEF HistoryInv, PastAddsUp
<1>2. held \in [Wallets -> Int] /\ q \in [Wallets -> Int]
  BY PeriodYields
<1>3. /\ worth \in [Int -> Int] /\ worth[0] = 0
      /\ \A a, b \in Int : worth[a] + worth[b] <= worth[a + b]
  <2>1. \A a \in Int : YieldOf(a) \in Int /\ worth[a] = YieldOf(a)
    BY YieldFacts
  <2>2. worth \in [Int -> Int]
    BY <2>1
  <2> HIDE DEF worth
  <2>3. worth[0] = 0
    <3>1. YieldOf(0) = 0
      BY YieldFacts
    <3>2. worth[0] = YieldOf(0)
      BY <2>1
    <3> QED
      BY ONLY <3>1, <3>2
  <2>4. ASSUME NEW a \in Int, NEW b \in Int PROVE worth[a] + worth[b] <= worth[a + b]
    <3>1. a + b \in Int
      OBVIOUS
    <3>2. worth[a] = YieldOf(a) /\ worth[b] = YieldOf(b) /\ worth[a + b] = YieldOf(a + b)
      BY <2>1, <3>1
    <3>3. YieldOf(a) + YieldOf(b) <= YieldOf(a + b)
      BY YieldFacts
    <3> QED
      BY <3>2, <3>3
  <2> QED
    BY <2>2, <2>3, <2>4
<1>4. \A w \in Wallets : q[w] = worth[held[w]]
  <2> TAKE w \in Wallets
  <2>1. held[w] \in Int /\ held[w] = BalanceOfAt(w, t)
    BY <1>2
  <2>2. worth[held[w]] = YieldOf(BalanceOfAt(w, t))
    BY <2>1
  <2> QED
    BY <2>2 DEF YieldForPeriod
<1>5. SumFunction(held) \in Int /\ \A a \in Int : worth[a] = YieldOf(a)
  BY <1>2, SumIsInteger
<1> HIDE DEF held, worth, t
<1>6. IsFiniteSet(Wallets)
  OBVIOUS
<1>7. SumFunction(q) <= worth[SumFunction(held)]
  BY ONLY <1>2, <1>3, <1>4, <1>6, ApartAtMostTogether
<1> QED
  BY <1>1, <1>5, <1>7 DEF t

\* What a holder earned in one period more.
LEMMA YieldOfOneMore ==
    ASSUME HistoryInv, NEW w \in Wallets, NEW m \in Nat
    PROVE  /\ YieldForPeriods(w, 1 .. m) \in Nat
           /\ YieldForPeriods(w, 1 .. m + 1) \in Nat
           /\ YieldForPeriod(w, m + 1) \in Nat
           /\ YieldForPeriods(w, 1 .. m + 1)
                 = YieldForPeriods(w, 1 .. m) + YieldForPeriod(w, m + 1)
<1> DEFINE h == [p \in Nat |-> YieldForPeriod(w, p)]
<1>1. h \in [Nat -> Int] /\ m \in Nat /\ m + 1 \in Nat
  BY PeriodYields
<1>2. h[m + 1] = YieldForPeriod(w, m + 1) /\ YieldForPeriod(w, m + 1) \in Nat
  BY <1>1, PeriodYields
<1>3. /\ [p \in 1 .. m + 1 |-> h[p]] = [p \in 1 .. m + 1 |-> YieldForPeriod(w, p)]
      /\ [p \in 1 .. m |-> h[p]] = [p \in 1 .. m |-> YieldForPeriod(w, p)]
  OBVIOUS
<1> HIDE DEF h
<1>4. SumFunction([p \in 1 .. m + 1 |-> h[p]]) = SumFunction([p \in 1 .. m |-> h[p]]) + h[m + 1]
  BY ONLY <1>1, SumOfOneMore
<1>5. YieldForPeriods(w, 1 .. m + 1) = YieldForPeriods(w, 1 .. m) + YieldForPeriod(w, m + 1)
  BY <1>2, <1>3, <1>4 DEF YieldForPeriods
<1>6. YieldForPeriods(w, 1 .. m) \in Nat
  BY YieldSplits
<1> QED
  BY <1>2, <1>5, <1>6

\* What all holders earned in periods that lie in the past, and what the supply
\* earned in them.
EarnedByHolders(n) == SumFunction([w \in Wallets |-> YieldForPeriods(w, 1 .. n)])
EarnedBySupply(n) == SumFunction([p \in 1 .. n |-> YieldOf(TotalSupplyAt(PeriodEnd(p)))])

\* One period more for both.
LEMMA EarnedOneMore ==
    ASSUME HistoryInv, NEW m \in Nat, CanLookup(PeriodEnd(m + 1)),
           EarnedByHolders(m) <= EarnedBySupply(m)
    PROVE  EarnedByHolders(m + 1) <= EarnedBySupply(m + 1)
<1> DEFINE f == [w \in Wallets |-> YieldForPeriods(w, 1 .. m)]
           e == [w \in Wallets |-> YieldForPeriods(w, 1 .. m + 1)]
           q == [w \in Wallets |-> YieldForPeriod(w, m + 1)]
           h == [p \in Nat |-> YieldOf(TotalSupplyAt(PeriodEnd(p)))]
<1>1. m + 1 \in Nat
  OBVIOUS
<1>2. /\ f \in [Wallets -> Int] /\ e \in [Wallets -> Int]
      /\ q \in [Wallets -> Int] /\ \A w \in Wallets : e[w] = f[w] + q[w]
  BY YieldOfOneMore
<1>3. IsFiniteSet(Wallets)
  OBVIOUS
<1>4. SumFunction(q) <= YieldOf(TotalSupplyAt(PeriodEnd(m + 1)))
  BY <1>1, PeriodWithinSupply
<1>5. h \in [Nat -> Int] /\ h[m + 1] = YieldOf(TotalSupplyAt(PeriodEnd(m + 1)))
  BY <1>1, PeriodYields
<1>6. /\ [p \in 1 .. m + 1 |-> h[p]] = [p \in 1 .. m + 1 |-> YieldOf(TotalSupplyAt(PeriodEnd(p)))]
      /\ [p \in 1 .. m |-> h[p]] = [p \in 1 .. m |-> YieldOf(TotalSupplyAt(PeriodEnd(p)))]
  OBVIOUS
<1>7. EarnedByHolders(m) = SumFunction(f) /\ EarnedByHolders(m + 1) = SumFunction(e)
  BY DEF EarnedByHolders
<1> HIDE DEF f, e, q, h
<1>8. SumFunction(e) = SumFunction(f) + SumFunction(q)
  BY ONLY <1>2, <1>3, SumsAdd
<1>9. m \in Nat
  OBVIOUS
<1>10. SumFunction([p \in 1 .. m + 1 |-> h[p]]) = SumFunction([p \in 1 .. m |-> h[p]]) + h[m + 1]
  BY ONLY <1>5, <1>9, SumOfOneMore
<1>11. EarnedBySupply(m + 1) = EarnedBySupply(m) + h[m + 1]
  BY <1>6, <1>10 DEF EarnedBySupply
<1>12. SumFunction(e) \in Int /\ SumFunction(f) \in Int /\ SumFunction(q) \in Int
  BY ONLY <1>2, <1>3, SumIsInteger
<1>13. EarnedBySupply(m) \in Int
  <2>1. [p \in 1 .. m |-> h[p]] \in [1 .. m -> Int]
    BY <1>5
  <2>2. IsFiniteSet(1 .. m)
    BY FS_Interval
  <2>3. SumFunction([p \in 1 .. m |-> h[p]]) \in Int
    BY ONLY <2>1, <2>2, SumIsInteger
  <2> QED
    BY <1>6, <2>3 DEF EarnedBySupply
<1>14. h[m + 1] \in Int /\ EarnedByHolders(m) <= EarnedBySupply(m)
  BY <1>1, <1>5
<1> QED
  BY ONLY <1>4, <1>5, <1>7, <1>8, <1>11, <1>12, <1>13, <1>14

\* And so for any number of periods.
LEMMA HoldersWithinSupply ==
    ASSUME HistoryInv, NEW n \in Nat, \A p \in 1 .. n : CanLookup(PeriodEnd(p))
    PROVE  EarnedByHolders(n) <= EarnedBySupply(n)
<1> DEFINE T == {m \in Nat : m <= n => EarnedByHolders(m) <= EarnedBySupply(m)}
<1>1. 0 \in T
  <2>1. 1 .. 0 = {}
    OBVIOUS
  <2>2. \A w \in Wallets : YieldForPeriods(w, 1 .. 0) = 0
    <3>1. [p \in {} |-> 0] = [p \in 1 .. 0 |-> 0]
      BY <2>1
    <3>2. IsFiniteSet(1 .. 0)
      BY FS_Interval
    <3>3. SumFunction([p \in 1 .. 0 |-> 0]) = 0
      BY ONLY <3>2, SumOfZeros
    <3> TAKE w \in Wallets
    <3>4. [p \in 1 .. 0 |-> YieldForPeriod(w, p)] = [p \in 1 .. 0 |-> 0]
      BY <2>1
    <3> QED
      BY <3>3, <3>4 DEF YieldForPeriods
  <2>3. EarnedByHolders(0) = 0
    <3>1. [w \in Wallets |-> YieldForPeriods(w, 1 .. 0)] = [w \in Wallets |-> 0]
      BY <2>2
    <3>2. SumFunction([w \in Wallets |-> 0]) = 0
      BY SumOfZeros
    <3> QED
      BY <3>1, <3>2 DEF EarnedByHolders
  <2>4. EarnedBySupply(0) = 0
    <3>1. IsFiniteSet(1 .. 0)
      BY FS_Interval
    <3>2. SumFunction([p \in 1 .. 0 |-> 0]) = 0
      BY ONLY <3>1, SumOfZeros
    <3>3. [p \in 1 .. 0 |-> YieldOf(TotalSupplyAt(PeriodEnd(p)))] = [p \in 1 .. 0 |-> 0]
      BY <2>1
    <3> QED
      BY <3>2, <3>3 DEF EarnedBySupply
  <2> QED
    BY <2>3, <2>4
<1>2. ASSUME NEW m \in T PROVE m + 1 \in T
  <2>1. m \in Nat /\ (m <= n => EarnedByHolders(m) <= EarnedBySupply(m))
    OBVIOUS
  <2>2. ASSUME m + 1 <= n PROVE EarnedByHolders(m + 1) <= EarnedBySupply(m + 1)
    <3>1. m <= n /\ m + 1 \in 1 .. n
      BY <2>1, <2>2
    <3>2. CanLookup(PeriodEnd(m + 1)) /\ EarnedByHolders(m) <= EarnedBySupply(m)
      BY <2>1, <3>1
    <3> HIDE DEF T
    <3> QED
      BY <2>1, <3>2, EarnedOneMore
  <2> QED
    BY <2>1, <2>2
<1>3. T \in SUBSET Nat
  OBVIOUS
<1> HIDE DEF T
<1>4. T = Nat
  BY ONLY <1>1, <1>2, <1>3, InductiveSetIsNat
<1> QED
  BY <1>4 DEF T

-----------------------------------------------------------------------------
(* Waiting.                                                                *)

\* What a balance earns pro rata in a part of a period.
Earning(b, elapsed) == (b * Basis * Rate * elapsed) \div (Interval * RateBasisPoints)

\* It grows with the time, to at most the yield of the whole period.
LEMMA PartOfYield ==
    ASSUME NEW b \in Nat, NEW e \in Nat, NEW f \in Nat, e <= f
    PROVE  /\ Earning(b, e) \in Nat
           /\ Earning(b, e) <= Earning(b, f)
           /\ f <= Interval => Earning(b, f) <= YieldOf(b)
<1> DEFINE x == b * Basis * Rate
           u == Interval * RateBasisPoints
<1>1. x \in Nat
  <2>1. b * Basis \in Nat
    OBVIOUS
  <2> HIDE DEF x
  <2>2. (b * Basis) * Rate \in Nat
    BY <2>1
  <2> QED
    BY <2>2 DEF x
<1>2. u \in Nat \ {0}
  OBVIOUS
<1>3. /\ Earning(b, e) = (x * e) \div u /\ Earning(b, f) = (x * f) \div u
      /\ YieldOf(b) = x \div RateBasisPoints
  BY DEF Earning, YieldOf
<1> HIDE DEF x
<1>4. x * e \in Nat /\ x * f \in Nat /\ x * e <= x * f
  <2>1. x * e \in Nat /\ x * f \in Nat /\ x * (f - e) \in Nat
    BY <1>1
  <2>2. x * f = x * e + x * (f - e)
    BY <1>1
  <2> QED
    BY <2>1, <2>2
<1> HIDE DEF u
<1>5. (x * e) \div u <= (x * f) \div u
  BY ONLY <1>2, <1>4, QuotientsOrdered, x * e \in Int, x * f \in Int
<1>6. 0 <= (x * e) \div u
  <2>1. u * 0 <= x * e
    BY <1>2, <1>4
  <2> QED
    BY <1>2, <1>4, <2>1, QuotientAtMost
<1>7. (x * e) \div u \in Int
  BY <1>2, <1>4, DivisionBounds
<1>8. ASSUME f <= Interval PROVE (x * f) \div u <= x \div RateBasisPoints
  <2> DEFINE q == (x * f) \div u
  <2>1. q \in Int /\ u * q <= x * f
    <3>1. \A y \in Nat : y \div u \in Int /\ u * (y \div u) <= y
      BY <1>2, DivisionBounds
    <3> QED
      BY ONLY <1>4, <3>1
  <2> HIDE DEF q
  <2>2. x * f <= x * Interval
    <3>1. x * Interval = x * f + x * (Interval - f)
      BY <1>1
    <3>2. x * (Interval - f) \in Nat /\ x * f \in Nat
      BY <1>1, <1>8
    <3> QED
      BY <3>1, <3>2
  <2>3. u * q = Interval * (RateBasisPoints * q)
    BY <2>1 DEF u
  <2> DEFINE r == RateBasisPoints * q
  <2>4. r \in Int /\ Interval * r <= Interval * x
    <3>1. r \in Int /\ Interval * r \in Int /\ x * Interval = Interval * x /\ Interval * x \in Int
      BY <1>1, <2>1
    <3> QED
      BY <1>4, <2>1, <2>2, <2>3, <3>1
  <2> HIDE DEF r
  <2>5. r <= x
    <3> SUFFICES ASSUME r >= x + 1 PROVE FALSE
      BY <1>1, <2>4
    <3>1. Interval * (r - x) > 0
      BY <1>1, <2>4
    <3>2. Interval * (r - x) = Interval * r - Interval * x
      BY <1>1, <2>4
    <3>3. Interval * r \in Int /\ Interval * x \in Int
      BY <1>1, <2>4
    <3> QED
      BY <2>4, <3>1, <3>2, <3>3
  <2>6. q <= x \div RateBasisPoints
    BY <1>1, <2>1, <2>5, QuotientAtMost DEF r
  <2> QED
    BY <2>6 DEF q
<1> QED
  BY <1>3, <1>5, <1>6, <1>7, <1>8

\* From one instant to the next a quotient stays or grows by one, which it does
\* at a multiple.
LEMMA NextQuotient ==
    ASSUME NEW x \in Nat, NEW u \in Nat \ {0}
    PROVE  /\ x \div u \in Nat /\ (x + 1) \div u \in Nat
           /\ u * (x \div u) \in Nat
           /\ u * (x \div u) <= x /\ x < u * (x \div u) + u
           /\ \/ (x + 1) \div u = x \div u
              \/ (x + 1) \div u = (x \div u) + 1 /\ x + 1 = u * (x \div u) + u
<1> DEFINE k == x \div u
           n == (x + 1) \div u
<1>1. k \in Int /\ u * k <= x /\ x < u * (k + 1)
  BY DivisionBounds
<1>2. n \in Int /\ u * n <= x + 1 /\ x + 1 < u * (n + 1)
  BY x + 1 \in Int, DivisionBounds
<1>3. 0 <= k /\ 0 <= n
  BY u * 0 <= x, u * 0 <= x + 1, x + 1 \in Int, QuotientAtMost
<1>4. k <= n
  BY x <= x + 1, x + 1 \in Int, QuotientsOrdered
<1> HIDE DEF k, n
<1>5. /\ u * (k + 1) = u * k + u /\ u * k \in Int
      /\ u * (n + 1) = u * n + u /\ u * n \in Int
  BY <1>1, <1>2
<1>6. u * k \in Nat
  BY <1>1, <1>3
<1>7. CASE n >= k + 1
  <2>1. u * n = u * k + u + u * (n - (k + 1))
    BY <1>1, <1>2
  <2>2. n - (k + 1) \in Nat /\ u * (n - (k + 1)) \in Nat
    BY <1>1, <1>2, <1>7
  <2>3. x + 1 <= u * k + u
    BY <1>1, <1>5
  <2>4. u * (n - (k + 1)) = 0 /\ x + 1 = u * k + u
    BY <1>1, <1>2, <1>5, <2>1, <2>2, <2>3
  <2>5. n - (k + 1) = 0
    BY <2>2, <2>4
  <2> QED
    BY <1>1, <1>2, <1>3, <1>5, <1>6, <2>4, <2>5 DEF k, n
<1> QED
  BY <1>1, <1>2, <1>3, <1>4, <1>5, <1>6, <1>7 DEF k, n

\* The period a time lies in, and what a balance shows for the part of it that
\* has elapsed.
PeriodAt(t) ==
    IF t < StartDate THEN 0
    ELSE IF t >= EndDate THEN TotalPeriods
    ELSE ((t - StartDate) \div Interval) + 1

AmountAt(t, b) ==
    IF PeriodAt(t) > 0 /\ t < EndDate
    THEN LET periodStart == IF PeriodAt(t) = 1 THEN StartDate ELSE PeriodEnd(PeriodAt(t) - 1)
         IN Earning(b, t - periodStart)
    ELSE 0

\* While the schedule runs, the current period is the one after those completed
\* and started where the last of them ended.
LEMMA WhileItRuns ==
    ASSUME NEW t \in Nat, StartDate <= t, t < EndDate,
           NEW k, k = (t - StartDate) \div Interval
    PROVE  /\ k \in Nat /\ Interval * k \in Nat
           /\ Interval * k <= t - StartDate /\ t - StartDate < Interval * k + Interval
           /\ CompletedBy(t) = k
           /\ \A b \in Nat : AmountAt(t, b) = Earning(b, (t - StartDate) - Interval * k)
<1> DEFINE x == t - StartDate
<1>1. x \in Nat
  OBVIOUS
<1>2. /\ k \in Nat /\ Interval * k \in Nat
      /\ Interval * k <= x /\ x < Interval * k + Interval
  BY <1>1, NextQuotient
<1>3. CompletedBy(t) = k
  <2>1. CASE t = StartDate
    <3>1. CompletedBy(t) = 0
      BY <2>1 DEF CompletedBy
    <3>2. x = 0
      BY <2>1
    <3>3. k = 0
      <4> SUFFICES ASSUME k >= 1 PROVE FALSE
        BY <1>2
      <4>1. Interval * k = Interval + Interval * (k - 1)
        BY <1>2
      <4>2. k - 1 \in Nat /\ Interval * (k - 1) \in Nat
        BY <1>2
      <4> QED
        BY <1>2, <3>2, <4>1, <4>2
    <3> QED
      BY <3>1, <3>3
  <2>2. CASE t # StartDate
    BY <2>2 DEF CompletedBy
  <2> QED
    BY <2>1, <2>2
<1>4. ASSUME NEW b \in Nat PROVE AmountAt(t, b) = Earning(b, x - Interval * k)
  <2>1. PeriodAt(t) = k + 1 /\ PeriodAt(t) > 0
    BY <1>2 DEF PeriodAt
  <2>2. CASE k = 0
    <3>1. AmountAt(t, b) = Earning(b, t - StartDate)
      BY <2>1, <2>2 DEF AmountAt
    <3>2. x - Interval * k = t - StartDate
      BY <1>1, <2>2
    <3> QED
      BY ONLY <3>1, <3>2
  <2>3. CASE k # 0
    <3>1. AmountAt(t, b) = Earning(b, t - PeriodEnd(k))
      <4>1. PeriodAt(t) # 1 /\ PeriodAt(t) - 1 = k
        BY <1>2, <2>1, <2>3
      <4> QED
        BY <2>1, <4>1 DEF AmountAt
    <3>2. k * Interval = Interval * k
      BY <1>2
    <3>3. PeriodEnd(k) = StartDate + Interval * k
      <4>1. ~(StartDate + k * Interval > EndDate)
        BY <1>2, <3>2
      <4> QED
        BY <3>2, <4>1 DEF PeriodEnd
    <3>4. t - PeriodEnd(k) = x - Interval * k
      BY <1>2, <3>3
    <3> QED
      BY ONLY <3>1, <3>4
  <2> QED
    BY <2>2, <2>3
<1> QED
  BY <1>2, <1>3, <1>4

\* From one instant to the next, either no period completes and the part shown
\* does not shrink, or the period the time lies in completes and yields no less
\* than the part that was shown.
LEMMA NextInstant ==
    ASSUME NEW t \in Nat, NEW b \in Nat
    PROVE  /\ AmountAt(t, b) \in Nat /\ AmountAt(t + 1, b) \in Nat
           /\ \/ /\ CompletedBy(t + 1) = CompletedBy(t)
                 /\ AmountAt(t, b) <= AmountAt(t + 1, b)
              \/ /\ CompletedBy(t) + 1 <= CompletedBy(t + 1)
                 /\ PeriodEnd(CompletedBy(t) + 1) >= t + 1
                 /\ AmountAt(t, b) <= YieldOf(b)
<1> DEFINE x == t - StartDate
           k == x \div Interval
           n == (x + 1) \div Interval
<1>1. ASSUME NEW s \in Nat PROVE AmountAt(s, b) \in Nat
  <2>1. CASE StartDate <= s /\ s < EndDate
    <3> DEFINE y == s - StartDate
               j == y \div Interval
    <3>1. /\ y - Interval * j \in Nat
          /\ AmountAt(s, b) = Earning(b, y - Interval * j)
      <4>1. /\ Interval * j \in Nat /\ Interval * j <= y
            /\ AmountAt(s, b) = Earning(b, y - Interval * j)
        BY <2>1, WhileItRuns
      <4>2. y \in Nat
        BY <2>1
      <4> HIDE DEF j, y
      <4> QED
        BY <4>1, <4>2
    <3> HIDE DEF y, j
    <3> QED
      BY <3>1, PartOfYield
  <2>2. CASE ~(StartDate <= s /\ s < EndDate)
    <3>1. AmountAt(s, b) = 0
      BY <2>2 DEF AmountAt, PeriodAt
    <3> QED
      BY <3>1
  <2> QED
    BY <2>1, <2>2
<1>2. CASE t >= EndDate
  <2>1. AmountAt(t, b) = 0 /\ AmountAt(t + 1, b) = 0
    BY <1>2 DEF AmountAt
  <2>2. CompletedBy(t + 1) = CompletedBy(t)
    BY <1>2 DEF CompletedBy
  <2> QED
    BY <2>1, <2>2
<1>3. CASE t < StartDate
  <2>1. AmountAt(t, b) = 0
    BY <1>3 DEF AmountAt, PeriodAt
  <2>2. CompletedBy(t) = 0 /\ CompletedBy(t + 1) = 0
    BY <1>3 DEF CompletedBy
  <2>3. AmountAt(t + 1, b) \in Nat
    BY <1>1
  <2> QED
    BY <2>1, <2>2, <2>3
<1>4. CASE StartDate <= t /\ t < EndDate
  <2>1. /\ x \in Nat /\ t = x + StartDate /\ k \in Nat /\ Interval * k \in Nat
        /\ Interval * k <= x /\ x < Interval * k + Interval
        /\ CompletedBy(t) = k
        /\ AmountAt(t, b) = Earning(b, x - Interval * k)
    <3>1. x \in Nat /\ t = x + StartDate
      BY <1>4
    <3>2. k = (t - StartDate) \div Interval
      OBVIOUS
    <3>3. t \in Nat /\ b \in Nat /\ StartDate <= t /\ t < EndDate
      BY <1>4
    <3> HIDE DEF k
    <3>4. /\ k \in Nat /\ Interval * k \in Nat
          /\ Interval * k <= t - StartDate /\ t - StartDate < Interval * k + Interval
          /\ CompletedBy(t) = k
          /\ AmountAt(t, b) = Earning(b, (t - StartDate) - Interval * k)
      BY <3>2, <3>3, WhileItRuns
    <3> QED
      BY <3>1, <3>4
  <2>2. n = k \/ (n = k + 1 /\ x + 1 = Interval * k + Interval)
    BY <2>1, NextQuotient
  <2>3. (t + 1) - StartDate = x + 1
    BY <2>1
  <2>4. t + 1 < EndDate =>
           /\ CompletedBy(t + 1) = n
           /\ AmountAt(t + 1, b) = Earning(b, (x + 1) - Interval * n)
    <3> SUFFICES ASSUME t + 1 < EndDate
                 PROVE  /\ CompletedBy(t + 1) = n
                        /\ AmountAt(t + 1, b) = Earning(b, (x + 1) - Interval * n)
      OBVIOUS
    <3> DEFINE s == t + 1
    <3>1. s \in Nat /\ StartDate <= s /\ s < EndDate /\ s - StartDate = x + 1
      BY <1>4, <2>3
    <3>2. n = (s - StartDate) \div Interval
      BY <3>1
    <3> HIDE DEF x, s, n
    <3>3. CompletedBy(s) = n /\ AmountAt(s, b) = Earning(b, (s - StartDate) - Interval * n)
      BY <3>1, <3>2, WhileItRuns
    <3> QED
      BY <3>1, <3>3 DEF s
  <2>5. (k + 1) * Interval = Interval * k + Interval
    BY <2>1
  <2>6. PeriodEnd(k + 1) >= t + 1
    <3>1. StartDate + (k + 1) * Interval >= t + 1
      BY <2>1, <2>5
    <3>2. EndDate >= t + 1
      BY <1>4
    <3> QED
      BY <3>1, <3>2 DEF PeriodEnd
  <2> HIDE DEF x, k, n
  <2>7. AmountAt(t, b) <= YieldOf(b)
    <3>1. x - Interval * k \in Nat /\ x - Interval * k <= Interval
      BY <2>1
    <3>2. Earning(b, x - Interval * k) <= YieldOf(b)
      BY <3>1, PartOfYield
    <3> QED
      BY <2>1, <3>2
  <2>8. CASE t + 1 < EndDate /\ n = k
    <3>1. /\ x - Interval * k \in Nat /\ (x + 1) - Interval * k \in Nat
          /\ x - Interval * k <= (x + 1) - Interval * k
      BY <2>1
    <3>2. Earning(b, x - Interval * k) <= Earning(b, (x + 1) - Interval * k)
      BY <3>1, PartOfYield
    <3> QED
      BY <1>1, <2>1, <2>4, <2>8, <3>2
  <2>9. CASE t + 1 < EndDate /\ n = k + 1
    <3>1. CompletedBy(t) + 1 <= CompletedBy(t + 1)
      BY <2>1, <2>4, <2>9
    <3> QED
      BY <1>1, <2>1, <2>6, <2>7, <3>1
  <2>10. CASE t + 1 >= EndDate
    <3>1. t + 1 = EndDate
      BY <1>4, <2>10
    <3>2. CompletedBy(t + 1) = n + 1
      <4>1. CompletedBy(t + 1) = TotalPeriods
        BY <1>4, <3>1 DEF CompletedBy
      <4>2. TotalPeriods = n + 1
        BY <2>3, <3>1 DEF TotalPeriods, n
      <4> QED
        BY <4>1, <4>2
    <3>3. CompletedBy(t) + 1 <= CompletedBy(t + 1)
      BY <2>1, <2>2, <3>2
    <3> QED
      BY <1>1, <2>1, <2>6, <2>7, <3>3
  <2> QED
    BY <2>2, <2>8, <2>9, <2>10
<1> QED
  BY <1>1, <1>2, <1>3, <1>4

\* Seen from now on, a wallet holds what the ledger says.
LEMMA BalanceFromNowOn ==
    ASSUME HistoryInv, NEW w \in Wallets, NEW t \in Nat, now <= t
    PROVE  BalanceOfAt(w, t) = balances[w]
<1>1. now \in Nat /\ balanceCheckpoints[w] \in TracesBy(now)
  BY DEF HistoryInv
<1>2. balanceCheckpoints[w] \in TracesBy(t)
  BY <1>1, RecordedLater
<1>3. UpperLookup(balanceCheckpoints[w], t) = Latest(balanceCheckpoints[w])
  BY <1>2, LookupOfPresent
<1> QED
  BY <1>3 DEF BalanceOfAt, HistoryInv, TracesFollowLedger

\* A wallet whose balance stays earns the same in every period, those that have
\* not ended included.
LEMMA WaitingKeepsYields ==
    ASSUME HistoryInv, HistoryInv', [HistoryNext]_historyVars,
           NEW w \in Wallets, balances'[w] = balances[w]
    PROVE  /\ now' = now \/ now' = now + 1
           /\ \A p \in Nat : YieldForPeriod(w, p)' = YieldForPeriod(w, p)
<1>1. now \in Nat /\ now' \in Nat
  BY DEF HistoryInv
<1>2. \/ now' = now
      \/ now' = now + 1 /\ balanceCheckpoints' = balanceCheckpoints
  BY DEF HistoryNext, historyVars, Mint, Burn, Transfer, Tick
<1>3. ASSUME NEW p \in Nat
      PROVE  UpperLookup(balanceCheckpoints'[w], PeriodEnd(p))
                = UpperLookup(balanceCheckpoints[w], PeriodEnd(p))
  <2> DEFINE t == PeriodEnd(p)
  <2>1. t \in Nat
    BY PeriodTypes
  <2> HIDE DEF t
  <2>2. CASE t < now
    <3>1. t \in 0 .. now - 1
      BY <1>1, <2>1, <2>2
    <3> QED
      BY <3>1, HistoryStep DEF SamePast, SameBalances, t
  <2>3. CASE now <= t /\ now' = now
    <3>1. UpperLookup(balanceCheckpoints[w], t) = balances[w]
      BY <2>1, <2>3, BalanceFromNowOn DEF BalanceOfAt
    <3>2. UpperLookup(balanceCheckpoints'[w], t) = balances'[w]
      <4>1. balanceCheckpoints'[w] \in TracesBy(now)
        BY <2>3 DEF HistoryInv, TracesBy
      <4>2. balanceCheckpoints'[w] \in TracesBy(t)
        BY <1>1, <2>1, <2>3, <4>1, RecordedLater
      <4>3. UpperLookup(balanceCheckpoints'[w], t) = Latest(balanceCheckpoints'[w])
        BY <2>1, <4>2, LookupOfPresent
      <4>4. Latest(balanceCheckpoints'[w]) = balances'[w]
        BY DEF HistoryInv, TracesFollowLedger, Latest
      <4> QED
        BY <4>3, <4>4
    <3> QED
      BY <3>1, <3>2 DEF t
  <2>4. CASE balanceCheckpoints' = balanceCheckpoints
    BY <2>4 DEF t
  <2> QED
    BY <1>1, <1>2, <2>1, <2>2, <2>3, <2>4
<1>4. \A p \in Nat : YieldForPeriod(w, p)' = YieldForPeriod(w, p)
  BY <1>3 DEF YieldForPeriod, YieldOf, BalanceOfAt, PeriodEnd, UpperLookup, ValuesAt
<1> QED
  BY <1>1, <1>2, <1>4

\* While a holder only waits, what was accrued does not fall.
LEMMA WaitingAccrues ==
    ASSUME ScheduleInv, HistoryInv', [HistoryNext]_historyVars,
           NEW w \in Wallets, balances'[w] = balances[w],
           lastClaimedPeriod'[w] = lastClaimedPeriod[w]
    PROVE  CalculateAccruedYield(w)' >= CalculateAccruedYield(w)
<1> DEFINE h == [p \in Nat |-> YieldForPeriod(w, p)]
           m == lastClaimedPeriod[w]
           k == CompletedBy(now)
           n == CompletedBy(now')
           b == balances[w]
           owed == SumFunction([p \in m + 1 .. k |-> h[p]])
           later == SumFunction([p \in m + 1 .. n |-> h[p]])
<1>1. HistoryInv /\ now \in Nat /\ now' \in Nat /\ b \in Nat /\ m \in Nat
  BY DEF ScheduleInv, HistoryInv
<1>2. /\ now' = now \/ now' = now + 1
      /\ \A p \in Nat : YieldForPeriod(w, p)' = YieldForPeriod(w, p)
  BY <1>1, WaitingKeepsYields
<1>3. h \in [Nat -> Nat]
  BY <1>1, PeriodYields
<1>4. k \in Nat /\ n \in Nat /\ m <= k
  <2>1. LastCompletedPeriod = k
    BY DEF LastCompletedPeriod, CompletedBy
  <2> QED
    BY <1>1, <2>1, PeriodTypes DEF ScheduleInv
<1>5. /\ CalculateAccruedYield(w) = owed + AmountAt(now, b)
      /\ CalculateAccruedYield(w)' = later + AmountAt(now', b)
  <2>1. \A i \in Nat : \A p \in m + 1 .. i : p \in Nat /\ h[p] = YieldForPeriod(w, p)
    BY <1>1
  <2>2. Owed(w) = owed
    <3>1. LastCompletedPeriod = k
      BY DEF LastCompletedPeriod, CompletedBy
    <3>2. [p \in m + 1 .. k |-> YieldForPeriod(w, p)] = [p \in m + 1 .. k |-> h[p]]
      BY <1>4, <2>1
    <3> QED
      BY <3>1, <3>2 DEF Owed, UnclaimedPeriods, YieldForPeriods
  <2>3. Owed(w)' = later
    <3>1. LastCompletedPeriod' = n
      BY DEF LastCompletedPeriod, CompletedBy, TotalPeriods
    <3>2. Owed(w)' = SumFunction([p \in lastClaimedPeriod'[w] + 1 .. LastCompletedPeriod'
                                    |-> YieldForPeriod(w, p)'])
      BY DEF Owed, UnclaimedPeriods, YieldForPeriods
    <3>3. lastClaimedPeriod'[w] = m
      OBVIOUS
    <3> HIDE DEF m, n, h
    <3>4. [p \in m + 1 .. n |-> YieldForPeriod(w, p)'] = [p \in m + 1 .. n |-> h[p]]
      BY <1>2, <1>4, <2>1
    <3> QED
      BY <3>1, <3>2, <3>3, <3>4
  <2>4. CurrentPeriodAmount(w) = AmountAt(now, b)
    BY DEF CurrentPeriodAmount, CurrentPeriod, AmountAt, PeriodAt, Earning
  <2>5. CurrentPeriodAmount(w)' = AmountAt(now', b)
    BY DEF CurrentPeriodAmount, CurrentPeriod, AmountAt, PeriodAt, Earning, PeriodEnd, TotalPeriods
  <2> QED
    BY <2>2, <2>3, <2>4, <2>5 DEF CalculateAccruedYield
<1>6. owed \in Nat /\ later \in Nat
  <2>1. \A i \in Nat : \A p \in m + 1 .. i : p \in Nat
    BY <1>1
  <2>2. /\ [p \in m + 1 .. k |-> h[p]] \in [m + 1 .. k -> Nat]
        /\ [p \in m + 1 .. n |-> h[p]] \in [m + 1 .. n -> Nat]
    BY <1>3, <1>4, <2>1
  <2> HIDE DEF h, m, k, n
  <2>3. IsFiniteSet(m + 1 .. k) /\ IsFiniteSet(m + 1 .. n)
    <3>1. m + 1 \in Int /\ k \in Int /\ n \in Int
      BY <1>1, <1>4
    <3> QED
      BY ONLY <3>1, FS_Interval
  <2>4. owed \in Nat
    BY ONLY <2>2, <2>3, SumIsNatural DEF owed
  <2>5. later \in Nat
    BY ONLY <2>2, <2>3, SumIsNatural DEF later
  <2> QED
    BY <2>4, <2>5
<1> HIDE DEF h, k, n, b, m
<1>7. CASE now' = now
  <2>1. n = k
    BY <1>7 DEF n, k
  <2>2. AmountAt(now', b) = AmountAt(now, b) /\ AmountAt(now, b) \in Nat
    BY <1>1, <1>7, NextInstant
  <2>3. later = owed
    BY <2>1
  <2> HIDE DEF owed, later
  <2> QED
    BY <1>5, <1>6, <2>2, <2>3
<1>8. CASE now' = now + 1
  <2>1. /\ AmountAt(now, b) \in Nat /\ AmountAt(now', b) \in Nat
        /\ \/ n = k /\ AmountAt(now, b) <= AmountAt(now', b)
           \/ /\ k + 1 <= n
              /\ PeriodEnd(k + 1) >= now'
              /\ AmountAt(now, b) <= YieldOf(b)
    BY <1>1, <1>8, NextInstant DEF k, n
  <2>2. CASE n = k /\ AmountAt(now, b) <= AmountAt(now', b)
    <3>1. later = owed
      BY <2>2
    <3> HIDE DEF owed, later
    <3> QED
      BY <1>5, <1>6, <2>1, <2>2, <3>1
  <2>3. CASE k + 1 <= n /\ PeriodEnd(k + 1) >= now' /\ AmountAt(now, b) <= YieldOf(b)
    <3>1. owed + h[k + 1] <= later
      BY ONLY <1>1, <1>3, <1>4, <2>3, SumGoesOn DEF owed, later
    <3>2. h[k + 1] = YieldOf(b)
      <4>1. k + 1 \in Nat /\ PeriodEnd(k + 1) \in Nat
        BY <1>4, PeriodTypes
      <4>2. now <= PeriodEnd(k + 1)
        BY <1>1, <1>8, <2>3, <4>1
      <4>3. BalanceOfAt(w, PeriodEnd(k + 1)) = balances[w]
        BY <1>1, <4>1, <4>2, BalanceFromNowOn
      <4> QED
        BY <4>1, <4>3 DEF h, b, YieldForPeriod
    <3>3. YieldOf(b) \in Nat
      BY <1>1, YieldFacts
    <3> HIDE DEF owed, later
    <3> QED
      BY <1>5, <1>6, <2>1, <2>3, <3>1, <3>2, <3>3
  <2> QED
    BY <2>1, <2>2, <2>3
<1> QED
  BY <1>2, <1>7, <1>8

-----------------------------------------------------------------------------
(* The theorems of the schedule.                                           *)

\* A token under a schedule behaves as its ledger with its history does.
THEOREM ScheduleImplementsHistory == ScheduleSpec => HistorySpec
<1>1. ScheduleInit => HistoryInit
  BY DEF ScheduleInit
<1> QED
  BY <1>1, ScheduleStepIsHistoryStep, PTL DEF ScheduleSpec, HistorySpec

\* What each holder claimed lies in the past and was paid exactly once, and the
\* total claimed is the sum of it.
THEOREM ScheduleInvariant == ScheduleSpec => []ScheduleInv
BY ScheduleInitInv, ScheduleStep, PTL DEF ScheduleSpec

\* However claims are spread over time, a holder has received exactly the yield
\* of the periods claimed.
THEOREM EachPeriodPaidOnce == ScheduleSpec => []PaidOncePerPeriod
<1>1. ScheduleInv => PaidOncePerPeriod
  BY DEF ScheduleInv
<1> QED
  BY <1>1, ScheduleInvariant, PTL

\* What the issuer is told to fund covers what the holders can still claim.
THEOREM UnclaimedAlwaysCovers == ScheduleSpec => []UnclaimedCoversHolders
<1>1. ScheduleInv => UnclaimedCoversHolders
  <2> SUFFICES ASSUME ScheduleInv, PeriodsReadable
               PROVE  TotalUnclaimedYield >= SumFunction([w \in Wallets |-> Owed(w)])
    BY DEF UnclaimedCoversHolders
  <2> DEFINE n == LastCompletedPeriod
             e == [w \in Wallets |-> YieldForPeriods(w, 1 .. n)]
             o == [w \in Wallets |-> Owed(w)]
  <2>1. n \in Nat /\ HistoryInv
    <3>1. now \in Nat /\ HistoryInv
      BY DEF ScheduleInv, HistoryInv
    <3>2. n = CompletedBy(now)
      BY DEF LastCompletedPeriod, CompletedBy
    <3> QED
      BY <3>1, <3>2, PeriodTypes
  <2>2. EarnedByHolders(n) <= EarnedBySupply(n)
    BY <2>1, HoldersWithinSupply DEF PeriodsReadable
  <2>3. EarnedByHolders(n) = SumFunction(e) /\ EarnedBySupply(n) = TotalYieldAccrued
    BY DEF EarnedByHolders, EarnedBySupply, TotalYieldAccrued
  <2>4. /\ e \in [Wallets -> Int] /\ o \in [Wallets -> Int] /\ o \in [Wallets -> Nat]
        /\ paid \in [Wallets -> Int] /\ \A w \in Wallets : e[w] = paid[w] + o[w]
    <3>1. \A w \in Wallets : /\ e[w] \in Nat /\ o[w] \in Nat /\ paid[w] \in Nat
                             /\ e[w] = paid[w] + o[w]
      BY OwedAndPaid
    <3>2. e \in [Wallets -> Int] /\ o \in [Wallets -> Int] /\ o \in [Wallets -> Nat]
      BY <3>1
    <3>3. paid \in [Wallets -> Int]
      BY DEF ScheduleInv
    <3> HIDE DEF e, o
    <3> QED
      BY <3>1, <3>2, <3>3
  <2>5. IsFiniteSet(Wallets)
    OBVIOUS
  <2>6. totalClaimed = SumFunction(paid)
    BY DEF ScheduleInv
  <2> HIDE DEF n, e, o
  <2>7. SumFunction(e) = SumFunction(paid) + SumFunction(o)
    BY ONLY <2>4, <2>5, SumsAdd
  <2>8. SumFunction(e) \in Int /\ SumFunction(paid) \in Int
    BY ONLY <2>4, <2>5, SumIsInteger
  <2>9. SumFunction(o) \in Nat
    BY ONLY <2>4, <2>5, SumIsNatural
  <2>10. TotalYieldAccrued \in Int
    <3> DEFINE y == [p \in 1 .. n |-> YieldOf(TotalSupplyAt(PeriodEnd(p)))]
    <3>1. \A p \in 1 .. n : p \in Nat
      BY <2>1
    <3>2. y \in [1 .. n -> Int]
      BY <2>1, <3>1, PeriodYields
    <3>3. IsFiniteSet(1 .. n)
      BY <2>1, FS_Interval
    <3>4. TotalYieldAccrued = SumFunction(y)
      BY DEF TotalYieldAccrued, n
    <3> HIDE DEF y
    <3>5. SumFunction(y) \in Int
      BY ONLY <3>2, <3>3, SumIsInteger
    <3> QED
      BY <3>4, <3>5
  <2>11. SumFunction(o) = SumFunction(e) - totalClaimed /\ SumFunction(e) <= TotalYieldAccrued
    BY <2>2, <2>3, <2>6, <2>7, <2>8, <2>9
  <2>12. TotalUnclaimedYield >= SumFunction(o)
    <3>1. totalClaimed \in Int
      BY <2>6, <2>8
    <3>2. TotalUnclaimedYield = IF TotalYieldAccrued <= totalClaimed THEN 0
                                ELSE TotalYieldAccrued - totalClaimed
      BY DEF TotalUnclaimedYield
    <3> QED
      BY ONLY <2>8, <2>9, <2>10, <2>11, <3>1, <3>2
  <2> QED
    BY <2>12 DEF o
<1> QED
  BY <1>1, ScheduleInvariant, PTL

\* Nothing but being paid takes away what a holder is owed.
THEOREM OnlyPaymentShrinksOwed == ScheduleSpec => OwedShrinksOnlyWhenPaid
<1> DEFINE Kept == PeriodsReadable =>
                      \A w \in Wallets : Owed(w)' + paid'[w] >= Owed(w) + paid[w]
           Earned == \A w \in Wallets :
                        /\ Owed(w) \in Nat /\ paid[w] \in Nat
                        /\ Owed(w) + paid[w] = YieldForPeriods(w, 1 .. LastCompletedPeriod)
           Whole == \A w \in Wallets : \A p \in Nat : YieldForPeriod(w, p) \in Nat
<1>1. (ScheduleInv => Earned) /\ (HistoryInv => Whole)
  BY OwedAndPaid, PeriodYields
<1>2. ASSUME ScheduleInv, HistoryInv', Whole', Earned, Earned', [ScheduleNext]_vars PROVE Kept
  <2> SUFFICES ASSUME PeriodsReadable, NEW w \in Wallets
               PROVE  Owed(w)' + paid'[w] >= Owed(w) + paid[w]
    OBVIOUS
  <2> DEFINE n == LastCompletedPeriod
  <2>1. HistoryInv /\ [HistoryNext]_historyVars /\ HistoryInv'
    BY <1>2, ScheduleStepIsHistoryStep DEF ScheduleInv
  <2>2. /\ n \in Nat /\ n' \in Nat /\ n <= n'
        /\ \A p \in Nat : CanLookup(PeriodEnd(p)) =>
              \A x \in Wallets : YieldForPeriod(x, p)' = YieldForPeriod(x, p)
    BY <2>1, PastYieldsStay
  <2>3. \A p \in 1 .. n : YieldForPeriod(w, p)' = YieldForPeriod(w, p)
    <3>1. \A p \in 1 .. n : p \in Nat /\ CanLookup(PeriodEnd(p))
      BY <2>2 DEF PeriodsReadable
    <3> QED
      BY <2>2, <3>1
  <2>4. /\ Owed(w) \in Nat /\ paid[w] \in Nat
        /\ Owed(w) + paid[w] = YieldForPeriods(w, 1 .. n)
    BY <1>2
  <2>5. /\ Owed(w)' \in Nat /\ paid'[w] \in Nat
        /\ Owed(w)' + paid'[w] = YieldForPeriods(w, 1 .. n)'
    BY <1>2
  <2> DEFINE N == n'
             all == SumFunction([p \in 1 .. N |-> YieldForPeriod(w, p)'])
             some == SumFunction([p \in 1 .. n |-> YieldForPeriod(w, p)'])
  <2>6. YieldForPeriods(w, 1 .. n)' = all /\ YieldForPeriods(w, 1 .. n) = some
    <3>1. YieldForPeriods(w, 1 .. n)' = all
      BY DEF YieldForPeriods
    <3> HIDE DEF n
    <3>2. [p \in 1 .. n |-> YieldForPeriod(w, p)] = [p \in 1 .. n |-> YieldForPeriod(w, p)']
      BY <2>3
    <3> QED
      BY <3>1, <3>2 DEF YieldForPeriods
  <2>7. some <= all
    <3> DEFINE h == [p \in Nat |-> YieldForPeriod(w, p)']
    <3>1. h \in [Nat -> Nat] /\ n \in Nat /\ N \in Nat /\ n <= N
      BY <1>2, <2>2
    <3>2. /\ [p \in 1 .. N |-> h[p]] = [p \in 1 .. N |-> YieldForPeriod(w, p)']
          /\ [p \in 1 .. n |-> h[p]] = [p \in 1 .. n |-> YieldForPeriod(w, p)']
      BY <3>1
    <3> HIDE DEF h, n, N
    <3>3. SumFunction([p \in 1 .. n |-> h[p]]) <= SumFunction([p \in 1 .. N |-> h[p]])
      BY ONLY <3>1, LongerSumIsLarger
    <3> QED
      BY <3>2, <3>3
  <2> HIDE DEF all, some
  <2>8. some \in Int /\ all \in Int
    BY <2>4, <2>5, <2>6
  <2> QED
    BY <2>4, <2>5, <2>6, <2>7, <2>8
<1>3. ScheduleInv => HistoryInv
  BY DEF ScheduleInv
<1>4. ASSUME ScheduleInv, HistoryInv', Whole', Earned, Earned', [ScheduleNext]_vars PROVE [Kept]_vars
  BY <1>2, <1>4
<1> HIDE DEF Earned, Whole
<1> QED
  BY <1>1, <1>3, <1>4, ScheduleInvariant, PTL DEF ScheduleSpec, OwedShrinksOnlyWhenPaid

\* The estimate shown to a holder never falls while the holder only waits.
THEOREM WaitingNeverCosts == ScheduleSpec => AccruedNeverFallsByWaiting
<1> DEFINE Waits == \A w \in Wallets :
                       UNCHANGED <<balances[w], lastClaimedPeriod[w]>>
                         => CalculateAccruedYield(w)' >= CalculateAccruedYield(w)
<1>1. ASSUME ScheduleInv, HistoryInv', [ScheduleNext]_vars PROVE [Waits]_vars
  <2>1. [HistoryNext]_historyVars
    BY <1>1, ScheduleStepIsHistoryStep
  <2> SUFFICES ASSUME NEW w \in Wallets, UNCHANGED <<balances[w], lastClaimedPeriod[w]>>
               PROVE  CalculateAccruedYield(w)' >= CalculateAccruedYield(w)
    OBVIOUS
  <2>2. balances'[w] = balances[w] /\ lastClaimedPeriod'[w] = lastClaimedPeriod[w]
    OBVIOUS
  <2> QED
    BY <1>1, <2>1, <2>2, WaitingAccrues
<1>2. ScheduleInv => HistoryInv
  BY DEF ScheduleInv
<1> QED
  BY <1>1, <1>2, ScheduleInvariant, PTL DEF ScheduleSpec, AccruedNeverFallsByWaiting

=============================================================================
