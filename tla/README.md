# Solidity SMART protocol in TLA+

A verification development of this repository: the contracts under
`src/contracts` (tokens whose holders are verified identities, "SMART tokens",
the assets built from them and the registries they consult), the subgraph under
`src/subgraph` that indexes them, the Hardhat Ignition modules under
`src/ignition` that deploy them and the onboarding script under
`src/scripts/hardhat` that sets up a system with identities, claims and assets.
The source is the reference; every definition names the lines it stands for in
`PROJECT.json` (`map`).

## 1. The system

| Part | State | Operations | Talks to |
|---|---|---|---|
| Identity registry storage | identity record per wallet, list of wallets with index, lost flags, bound registries, write role | add, remove, modify, mark lost, link; bind, unbind, grant and revoke the write role | written by registries, and by the admin |
| Identity registry | addresses of storage, trusted issuers, topic schemes | register, batch register, delete, update, recover; isVerified, isWalletLost, getRecoveredWallet | storage, issuers, identities |
| Trusted issuers registry | claim topics per issuer, list of issuers, list of issuers per topic | add, remove, update topics | read by isVerified |
| Topic scheme registry | signature per topic, list of topics with index | register, batch register, update, remove | read when claims are counted or decoded |
| Identity contracts | keys by purpose, executions; claims with an array per topic; revoked signatures | addKey, removeKey, execute, approve; addClaim, removeClaim, revoke | read by isVerified |
| Identity factory | identity per wallet and per token | createIdentity, createTokenIdentity | identity contracts |
| Token core | ERC20 ledger, registry, compliance, required topics, modules | mint, transfer, recoverTokens, forcedRecoverTokens, recoverERC20, setters | registry, compliance, extension hooks |
| Custodian | frozen wallets, frozen amounts | freeze, partial freeze, forcedTransfer, forced recovery | hooks of the core |
| Pausable, Burnable, Redeemable, Capped, Yield | paused flag, cap, schedule | pause, burn, redeem, setYieldSchedule | hooks of the core |
| Historical balances | traces of checkpoints per wallet and of the supply | hooks; balanceOfAt, totalSupplyAt | read by the yield schedule |
| Fixed yield schedule | last claimed period per holder, total claimed, funds | claimYield, topUp, withdraw, pause | token, underlying asset |
| Collateral | claim topic | guard on mint | identity of the token |
| Bond | maturity flag, redeemed amounts | mature, redeem, and the token's | underlying asset |
| Fund | last fee collection | collectManagementFee | token |
| Compliance and modules | parameters per token | canTransfer, transferred, created, destroyed | called by the token |
| System, factories, access managers, proxies | addresses, roles | createSystem, bootstrap, createTokenFactory, create | everything |
| Subgraph | entities per token, wallet, identity, topic, claim, system, factory; data sources | one handler per event | reads the events, and a few values of the contracts |
| Ignition modules | the journal of the deployment | one future per contract, call or read | the contracts |
| Onboarding script | tasks of one process, queue of identities, cache of topics | deploy, create identities, register, trust, verify, create and use the assets | Ignition, the contracts through a node |

How they interact. A token's `_update` is the only place balances change. Before
it the extensions check (verification, compliance, freeze, cap, maturity,
schedule); after it they record (compliance callbacks, checkpoints, unfreezing).
A forced update sets a flag that the hooks read. A recovery spans two contracts
and several transactions: the registry marks a wallet lost and links it to its
replacement, the replacement claims the tokens, and anything may happen between.
A bond pays in another token. A yield schedule reads the past of its token. The
subgraph sees nothing but events, from addresses for which a data source was
created by an earlier event, and handles them in their order, block by block. The
script sends transactions from several wallets by asynchronous tasks; what one
transaction needs of earlier ones the contracts alone decide.

What is hard here: sequences of legal transactions of several roles (registrar,
custodian, issuer, holders) that meet in one state; removal from enumerable
lists kept with an index; recovery chains; amounts frozen while balances move;
division with rounding in parts against the whole; several transactions in one
block, which share a time; the exact boundary of a period; an index that adds up
what events say and is told nothing of some transactions; a process that is
killed, or loses a receipt, with transactions under way, and is run again on the
same chain; promises that reject while others go on. `PROJECT.json` (`hazards`)
lists each at its line.

What makes each part correct: the lists are exact; recovery links start at lost
wallets, end, and are not redirected; supply, balances, frozen amounts and
callbacks agree; pause, freeze, loss and maturity stop exactly what they should;
cover is not lost by rounding; the past is fixed; a period is paid once; an
execution takes effect once and under a key that is still there; a claim that
verifies an investor can be seen in the index, and what the index shows as live
exists; the index follows the ledger but for listed steps, and errs on one side
only; a script that reports success has done everything, ends, and fails only
when the node does.

## 2. The modules

**Steps.** A contract runs one transaction at a time and a transaction that fails
leaves nothing behind. An action is therefore one whole external function, with
every hook and every call to another contract it makes; what interleaves is
transactions, of any senders in any order. Its guard is the conjunction of all
the reverts on the way. Graph Node commits the entities of a block together and
runs the handlers of a block's events in order, after it: a transaction and the
handlers of its events are one step, since no handler sees another transaction
half done. What a handler reads from a contract, though, is the state at the end of
the block; the one such read that matters is in `SubgraphToken`.
The steps of the script are those of its tasks between two `await`s.

### Contracts

`IndexedList` is the array-plus-index set used by every registry (`PushItem`,
`SwapAndPop`); `Consistent` says array and index are inverse to each other.

`SMARTIdentityRegistryStorage` holds the storage's state. Its writes are
operators on the values of the mappings, because one transaction of a registry
makes up to four of them; binding and unbinding are actions. `initialize` grants
the right to write to the admin as well, and nothing in the code takes it back:
`storageModifiers` starts with `Admin`, who gives the role up or is deprived of it
and granted it again by actions of their own. What the admin writes with it,
directly and past the registries' checks and events, is left out, so everything said
here of lists, links and their index is said of an admin who leaves the storage to
the registries; so is a grant of the role by hand to anyone else. `None` stands for
the zero address; a wallet whose record has no identity contract is not
registered, which is the code's own test.

`SMARTIdentityRegistry` has one action per transaction of a registry. Several
registries share the storage; one that is not bound fails at its first write. A
batch is of two, the smallest that can conflict with itself. `RecoverIdentity`
follows the order of the code: lost flag, removal, registration of the
replacement unless it has the identity already, link.

`IdentityRecovery` is the abstract specification of what a token needs to know
of the registry: which wallets are lost and where each was recovered to. The
registry is shown to implement it (`ImplementsRecovery`) and the token is built
on it, so the two big state machines are checked apart and meet in a third of a
page.

`SMARTToken` is the core with the Custodian, Pausable, Burnable and Redeemable
extensions. `Update` is `_update`. The set `eligible` stands for the answer of
`isVerified` and `canTransfer` together and changes arbitrarily between
transactions, except that a lost wallet is never in it. `moduleTally` is not a
state of the token: it is what a compliance module counts from the callbacks,
there to say that none is skipped. The steps are told apart by what was called:
`OrdinaryStep` has the holders' transactions, mints, switches and the registry's
steps, `CustodialStep` what the code runs with `__isForcedUpdate` set or burns in
someone's place. `HeldBack` is what a freeze keeps in a wallet, all of it or the
frozen part. Two details of the code are deliberate in the
model: the pause stops forced transfers, and a recovery assigns the frozen amount
to the replacement and clears its freeze when the lost wallet had none.

`SMARTBond` extends the token: its actions are the token's with the bond's hooks
conjoined, and the payment in the underlying asset. That asset has a will of its
own: the payment is the last call of a redemption, and the deposit the repository's
script gives a bond is a SMART token itself, which refuses while it is paused, while
the recipient is not verified or is frozen, and what is frozen of the bond's own
balance. All of these refuse an amount whenever they refuse a smaller one, so
`refusedFrom` keeps the least amount that is refused per recipient, zero when every
amount is; it may change between any two transactions (`ChangeRefusals`). A
withdrawal by the issuer may be refused too, and is modelled as if it never were:
this allows more of what endangers the cover. `Unit` is `10**decimals` and
`FaceValue` the underlying asset per bond; both are kept so that the division
rounds.

`Checkpoints` is the trace of OpenZeppelin's `Checkpoints`, modelled from its
use (external); `SMARTHistoricalBalances` has the hooks that write the traces
and the reads of the past. `now` is `block.timestamp` and many transactions
share a value of it. `SMARTFixedYieldSchedule` extends it with periods, claims
and funds.

`SMARTTrustedIssuersRegistry` keeps, as the contract does, the topics of each
issuer's record, the array of issuers and one indexed list of issuers per topic.
Topics arrive as a sequence, in which one may occur twice: `PushTimes` is then
several pushes of which the index remembers the last, and `CanRemoveFromTopics`
says that the second removal finds no index and reverts the transaction.

`SMARTTopicSchemeRegistry` keeps the signature of each topic and the list of
topics. `SMARTIdentityClaims` has the claims of one identity beside it: one claim
per issuer and topic, an array per topic, and the signatures each issuer revoked
in its own contract. Issuers sign deterministically, so the data of a claim
stands for its signature. `Self` is the identity as its own issuer, which needs
nobody's signature. `TopicVerified` is what `isVerified` asks of one topic.

`SMARTIdentity` is a wallet's identity as far as it acts: keys with purposes and
executions. Keys are hashes of accounts, so accounts stand for them; `Self` is
the identity, which may hold a key as well. A call to an external contract
succeeds or fails, nobody knows which; a call to the identity itself changes its
keys, or is one to `approve` or `execute` (`"reenter"`), which are not reentrant.
`performed` is a history variable: how often the call of an execution succeeded.
A request whose sender has the keys is approved by a call of the identity to
itself (`CanExecute`).

### Subgraph

`SubgraphRegistry` puts the `Identity`, `Account` and `AccessControl` entities
beside the registries: the registry an identity names, the country of an
account, the holders of the storage's writing role, of whom the admin is the first,
appended and filtered by the
handlers where the storage swaps and pops. `IdentityRecovered` and
`WalletRecoveryLinked` have no handler, so `IndexedRecover` leaves the index
alone.

`SubgraphToken` puts the `TokenBalance`, `Token` and `TokenPausable` entities
beside the token. Each action conjoins a transaction of the token with the
handlers of the events it emits, in their order: a recovery has a transfer, a
partial freeze leaving one wallet and arriving at the other, and the flags of
one or both. `Redeemed` has no handler, and a forced transfer to the zero address
emits nothing that one counts. `FetchToken` is the end of the block in which the
token is created: `fetchToken` reads `totalSupply()` from the state after that
block, and what the block minted and burned is counted again by its events.

`SubgraphClaims` puts `TopicScheme`, `IdentityClaim` and `IdentityClaimValue`
beside schemes and claims. The data of a claim is decoded by the signature its
topic has in the index when the claim's event arrives; `Decodable` says which
signature accepts which data (the instance lets each accept only what was
encoded by it), and what none accepts is kept raw. Values under the keys of an
earlier decoding stay, as in the code.

`SubgraphSystem` puts the `System`, registry, factory, `Token` and `Account`
entities and the data sources beside the onboarding. `From` drops the events of
an address nobody listens to. A token is met first when the identity factory
announces its identity and has no type until its factory announces it.

### Deployment and onboarding

`IgnitionDeployment` declares the futures of the modules and the pairs that say
what comes before what: a future comes after its arguments, and after every
future of a module its own module uses (`m.useModule`). Ignition is external: it
executes any set of futures that are ready, records in its journal, resumes from
it, and stops for good at one whose transaction reverted. What the contracts
require of a future (`Requires`) is not among the pairs: `createTokenFactory`
grants a role on what `bootstrap` creates and takes nothing from it.

`OnboardingScript` is the process: `main` and the tasks it starts, one per
identity and one per verification, each a sequence of steps. A step that sends a
transaction is three: `Send`, `Mine` (by the node), `Succeed`; the sending may
fail, the transaction may revert, the receipt may be lost while the transaction
goes on (`orphans`). `identityCreationQueue` is the chain of promises that
serialises the creation of identities; `topicCache` what the `TopicManager`
loaded, a topic it could not read being left out; `Promise.all` fails with the
first that rejects. `Crash` ends the process anywhere, `Start` runs another on
the same journal and chain, or on both cleared. `Accepted` is what the contracts
require of each transaction. Which of the five kinds of assets are created is a
constant (`OnboardingAssumption`): the kinds are those `main` knows, and a bond
needs a deposit to be redeemed in. `main` asks for the identities of the
registered actors in one list and for the claim issuer's in another, so a job
is chained to the queue at most once per actor.

### Checking and proving

`MC*` instantiate these for TLC with a symmetry set; `*Proofs` hold the proofs,
each of a contract and of what is composed with it, and `DataLemmas` the facts
about lists, sums and divisions that they share. Definitions whose comment begins with
"Mutant" are plausible bugs; nothing in a specification uses them. They are put
in place of the definition they follow to see that each property notices one.

## 3. What the runs check

| Run | Instance | Shows |
|---|---|---|
| `registry` | 3 wallets, 2 identities, 2 countries, 2 registries; unbounded in depth | the list of wallets is exact; links start at lost unregistered wallets, form no circle and are not redirected; the registry implements `IdentityRecovery`; a registry can write exactly while it is bound; the index lists the holders of the writing role, the admin among them or not, exactly, and of identities and countries only a recovery (or the removal of one of several wallets of an identity) makes it stale |
| `token` | 3 wallets, amounts 1 and 2, supply up to 2, an index that overstates by at most 1 | frozen amounts stay within balances, callbacks account for the ledger, no ordinary step takes what a freeze keeps; the index never understates, adds up, has the right flags and moves with the ledger in every step that emits events |
| `bond` | 2 wallets, cap 3, a face value of 3 for 2 units, clock up to 1, a schedule that starts at 1, an underlying asset that refuses a wallet everything, amounts from 2, or nothing | the cover of a matured bond is lost only to the issuer; parts never pay more than the whole; a holder of a covered bond is held up by nothing but a pause, a freeze or the underlying asset |
| `yield` | 2 wallets, two periods of which the last is short, a rate of 3/2, checkpoints up to 3 | each period is paid once; the published total covers all claims; what is owed or estimated never falls by waiting; traces follow the ledger and the past they tell never changes |
| `issuers` | 3 issuers, 2 topics, one or two topics per call, repeated or not | record, array and index always say the same; issuers given distinct topics can be removed whatever became of the others |
| `identity` | an owner and another account, the identity, two purposes, two executions | keys and purposes agree; a call takes effect once and only while an account holds the purpose it needs; keys nobody manages never change |
| `claims` | 2 topics of which claims are issued on one, 2 signatures, 2 contents, an issuer and the identity itself, one revocation | the array of a topic lists its claims once; the index decodes by the present signature, shows as live only what exists, and shows every claim that a verification may rest on with the data it has now |
| `onboarding` | one implementation, a deposit and a bond, two processes, two faults | no two tasks await transactions of one wallet, and until a call fails a clean process has no other of that wallet under way; a clean process fails only by a fault; exit 0 means everything was done; a process run again stops at the identities; the index follows the chain; every process ends |

**Fairness.** Nobody is obliged to send a transaction to a contract, so no model of
a contract or of its index assumes fairness, and none claims liveness. Where the
code promises that something *can* be done (a matured bond can be redeemed once
the underlying asset accepts the payment, an issuer can be removed) the property
says that the guard of the action holds, which is stronger than liveness. `OnboardingScript` is a program, and has a
liveness property: `EveryRunEnds`. Its fairness is weak, on the steps of each
task, on those of `main` and on mining: the event loop runs what is ready, and
the node mines what it has. Crashes, failing calls, lost receipts and starts of
processes are never obliged to happen, and no run needs them to.

**Deadlock** is checked but in three runs where the instance really stops: in
`issuers`, once every issuer has been given a topic twice no transaction of the
registrar succeeds any more (the finding `issuer_listed_twice`); in `identity`,
when its executions are used up and nobody holds a key any more; in
`onboarding`, when the last process has ended.

**Why the bounds are enough.** Three wallets make a chain of two recoveries, a
recovery onto a registered wallet, and a swap-and-pop with a bystander; two
identities let wallets share one or have their own. Three token wallets give
sender, recipient and replacement; a supply of 2 with amounts 1 and 2 lets a part
be frozen, taken in part and overflow, and lets both sides of a recovery have
frozen tokens; a drift of 1 lets the index be wrong before every other step. In the bond 3/2
per unit makes halves that round, with two holders redeeming in turns; the clock
reaches the maturity date, at which a yield schedule may have started or not been set;
the asset refuses one holder and pays the other, or pays one bond and not two. In the yield the second period is cut short, rates round, one
holder may claim the two periods together or apart, and several transactions
share a time. Three issuers put a
bystander before and after the one removed, twice listed ones too. Two
executions let one change the keys under which the other was requested or failed.
With two signatures and contents a topic can be updated, removed and come back
between a claim and its replacement, and a claim may not decode. Two asset kinds
suffice because a bond takes the deposit as its asset, and the other kinds only
differ in their claims; two processes and two faults let a lost transaction
arrive during the next process and that one fail as well.

Bounds that are not in the code: `MaxTime` (clock), `MaxUnderlying` and `MaxFunds`
(underlying asset sent in), `MaxIssued` (bonds in circulation and redeemed
together), `MaxTrace` (checkpoints of a wallet in the yield run), `MaxTopics`
(topics in a call), `MaxExecutions` (executions requested), `MaxRevoked`
(signatures revoked), `RefusalLimits` (from which amounts the
underlying asset may refuse), `MaxDrift` (how much the index may come to overstate),
`MaxRuns` and `MaxFaults` (processes; calls lost or failed), `Amounts` (the
amounts tried). `MaxUint` and `MaxCheckpoint` are the code's own limits, made
small so that they are reached.

The remaining runs show where the code differs from what its documentation says
(`findings`):

- `auto_approval`: the automatic approval of an execution is sent by the identity
  itself, so a manager's own request reverts unless the identity holds a key.
- `issuer_listed_twice`: an issuer given the same topic twice can never be removed
  or updated again, so its trust cannot be revoked.
- `redemption_not_indexed`: redemptions lower the supply of the token and not that of the
  index, which is documented to capture them.
- `rate_of_last_period`: one period more than fit is always added; when the
  schedule is a multiple of the interval it has no length and pays in full.

Others, seen while reading and not given a run.

*Contracts.* Registering a lost wallet again erases the link by which its tokens
are recovered, while it stays lost. A recovery assigns the frozen amount to a
replacement that had frozen tokens of its own, which thereby become available
(the index adds instead, `IndexMovesWithLedger`). A forced transfer reverts while
paused (`PausedLedgerStandsStill`, proved), where the README of the Pausable
extension expects it to pass by the `__isForcedUpdate` flag. Once a bond has
matured the tokens of a lost wallet can be neither recovered nor redeemed. A bond
whose underlying asset refuses a holder keeps that holder waiting however well it is
covered. At the
very second a period ends it counts as completed, yet claiming reverts, as the
balance of that second cannot be read. The yield of a lost wallet's past periods
stays with the lost wallet. `revokeClaim` by id looks the id up among the
revoker's own claims. The interface of the trusted issuers registry speaks of at
most 15 topics and 50 issuers, which nothing enforces. `isMatured` is documented
as a comparison with the maturity date and is a flag set by `mature`. A wallet
can be recovered onto itself, which unregisters it. `recoverERC20` lets the
issuer of a bond withdraw the underlying asset that redemptions need. The README
of the historical balances speaks of block numbers where the clock is the
timestamp. The comment of `mature` names another role than its modifier.

*Subgraph.* A role outside the thirteen of `utils/role.ts` makes the handler
throw, which ends the indexing. Recoveries of identities are not indexed; the
handler of `RecoverySuccess` is never triggered, since no contract emits that
event. A topic that is registered again keeps `enabled = false`, a claim that is
added again keeps `revoked = true`, and the claims of a topic that comes back
count again at once. Claims on unknown topics leave schemes without a name.
`ClaimRevoked` has no handler: a revoked claim is shown as live. Values under the
keys of an earlier decoding remain. The data source of the trusted issuers
registry is commented out.

*Deployment and script.* The modules rely on `m.useModule` alone to keep
`bootstrap` before `createTokenFactory`: with the arguments only, the two may be
sent together and the second revert (the mutant `ArgumentsOnly` shows it). The
script cannot be resumed: a process that finds the identities of an earlier one
exits with 1 (`ResumedRunStopsAtIdentities`). The key of the claim issuer is random
in every process, where its comment speaks of a consistent address. A topic that
cannot be read is left out with a warning, and the claims on it fail later. When
no event is found `waitForEvent` returns `null`, which its callers take apart.

## 4. What is proved

For every set of wallets, every amount and every number of steps. The proofs
assume only what the modules' named `ASSUME`s say (types of the constants, the
zero address is no wallet and no registry, a token has finitely many holders, an
interval and a rate are positive, the kinds of assets are those `main` creates),
which TLC evaluates on each run. Of the 40 properties the passing runs check, 39
are theorems; the other is the liveness of the script.

**`DataLemmas`: lists, sums, divisions.** Pushing a new member onto an indexed list
and swap-and-pop of a present one keep it consistent and change its members by
exactly that one; the loop that leaves one member out leaves the others, each once.
Sums of functions over finite sets are defined in the community modules by a fold,
about which nothing could be cited. `SumsExist` shows, by the well-foundedness of
the naturals over the sets of at most n elements, that the function the fold
recurses through exists; from it follow that a sum changes by what one summand
changes (`SumChanged`), that sums of functions that move alike move alike, that
intervals split, and that a quantity which earns apart at most what it earns together
does so for any number of parts (`ApartAtMostTogether`). Each is an induction over
sets that are defined for the purpose: the library's induction theorems, which
take an operator, are not used.

**`SMARTIdentityRegistryProofs`: the registries and their index.** The inductive
invariant is the type invariant, the exactness of the enumeration, links only from
lost and unregistered wallets, and acyclicity. Acyclicity is stated over sets of
wallets (every non-empty set has a member with no link into the rest of it), which
makes it inductive without speaking of paths: a recovery adds a link to a wallet
that is not lost, hence has no link of its own, so a set closed under links cannot
contain it. `RegistryImplementsRecovery` maps each action to `Recover`, `Forget` or
a stutter. The index observes (`IndexedRegistryIsRegistry`); its list of holders
is exact because a holder is appended only when the role is granted, and granted
only to a registry that is not bound or to an admin who does not have it: the
invariant says that the bound registries are the holders but for the admin. `OnlyRecoveryMakesStale`
follows per action.

**`SMARTTokenProofs`: the token and the bond.** Types, frozen amounts within
balances, tally equal to balances, lost wallets never eligible and the supply equal
to the sum of balances, together inductive. Frozen within balance needs the order of
the recovery: the balance moves first, so the replacement holds at least what is
then assigned as frozen. `FrozenTokensNeedForce` goes through the ordinary steps:
none may come out below what was held back, which for a wallet that is not frozen
needs frozen within balance. It is a statement about operations, not movements: a
frozen holder's transfer and a forced one may change the state alike. The pause
property follows step by step from what each transaction demands. Every step of a bond is a step of the
token or leaves it unchanged, so the token's theorems hold of the bond.
`PartsPaidWithinWorth` adds that the floors of parts add up to at most the floor of
the whole; `IssuerAloneEndsCover` that a payment leaves cover for the rest; and
`CoverLetsHoldersRedeem` needs the sum of balances, since the cover is about the
supply and a holder redeems from a balance. It leaves the underlying asset its
refusal as a premise (`AssetAccepts`), since the bond can do nothing about it.

*The index of a token*, in the same module. The index observes
(`IndexedTokenIsToken` is a refinement of the token's specification, by which
every theorem of the token holds beside the index). The inductive invariant adds to
the token's that the amounts shown are at least the ledger's, that flags agree,
that each entity was saved with its available amount, and that nothing has been
read from `totalSupply()` before the end of the creation block. The last conjunct
is the one that is easily missed: the bound on the supply counts what was read, and
only because nothing was read before does reading keep it. The lemmas `*Facts` say
what each handler does to one entity, the lemmas `*Moves` that each transaction
moves entity and ledger alike; `IndexErrsUpwards`, `IndexMovesExactly` and, with
the sums, `IndexedSupplyIsSum` follow.

**`SMARTHistoricalBalancesProofs`: the past and the yield paid on it.** The traces
end at the ledger's value and at or before now; a push touches only the entry of the
present, and a lookup of the past does not see it, hence `PastIsFixed`. The
invariant needs the sum of balances to keep values within a checkpoint, and
that the past adds up as well (`PastAlwaysAddsUp`), which each tick extends by the
present. The schedule implements the history (`ScheduleImplementsHistory`), so
its own invariant adds only this: what a holder claimed lies in the past, was
paid once, and adds up to the total claimed. `UnclaimedAlwaysCovers` then is an
induction over the periods: in each, the holders earn apart at most what the supply
earns, as balances add up at its end and each claim rounds down.
`OnlyPaymentShrinksOwed` follows from `PastIsFixed` and from `CompletedGrows`.
`WaitingNeverCosts`, which speaks of the moments at which the contract gives an
estimate and of those at which its call reverts alike, goes from one instant to the next (`NextInstant`): either no
period completes and the elapsed part grows, or the period completes, its end is
the present, where the balance is the one the part was computed from, and its yield
is no less than the part, whatever both roundings.

**`SMARTIdentityProofs`: keys and executions.** That the two lists agree is kept by
a lemma on one changed pair (`MirrorKept`). `ExecutionsPerformOnce` ties the flag
of a record to how often its call succeeded; `EffectsNeedPresentKeys` and
`UnmanagedKeysStay` follow per action, the approval an identity sends to itself
included.

**`SMARTTrustedIssuersRegistryProofs`: issuers.** The invariant allows topics that were
repeated: the array of a topic has exactly the issuers whose record has the topic,
a stored position is one at which the issuer stands, and only an issuer whose topics
are distinct is known to stand in each array once. From it follow
`TrustAlwaysAgrees` and that whoever was given each topic once can be removed,
beside issuers that cannot.

**`SubgraphClaimsProofs`: claims, topic schemes and their index.** One invariant of
four parts (schemes, claims, the index of each). That a verified claim is shown
is proved of every claim, verified or not, since a claim may come to be verified
without an event: whatever its entity kept from an earlier decoding, the handler of
its last change wrote its present data. The statement is about each issuer's claim
by itself, so one claim that is shown does not stand for another that is not.

**`OnboardingProofs`: deployment, script and their index.** For any of the asset
kinds, any number of implementations, processes and faults. Seven invariants,
each of which says what the one before cannot:

- `FlowInv` is where the tasks stand. A transaction is known only to a task at a
  step that sends one and whose turn has come; the queue is empty, the registered
  actors or everyone, as `main` has got to; `main` is past a `Promise.all` only
  when all it waited for is resolved, and verifications begin only after every
  identity. The first half of `WalletsSendOneAtATime` follows from it: the owner's
  wallet is used by the jobs of the queue, one at a time, by `main`, which waits for
  them, and by the owner's verification, for which it waits as well. A receipt that
  was given up on ends the waiting, not the transaction, and the next job sends
  from the same wallet: the second half, that there is no such transaction, holds
  only of a clean process whose calls succeed, and comes from `CleanInv` below.
- `DoneInv` is what that means for the chain: a step behind its task is in the
  ledger. An exit with 0 needs `main` resolved, hence all of its awaited tasks,
  hence every transaction (`ExitZeroMeansDone`). That a lost receipt leaves the
  transaction on its way does no harm, as nothing is ever taken from the ledger
  but by clearing the journal.
- `DeployInv` says that a future is under way only when those before it are done.
  What a future requires is among them through `m.useModule` (`RequiredIsDone`),
  so none reverts (`DeploymentNeverReverts`).
- `DeployedFirst` and `IdentitiesFirst` order the chain: nothing without the whole
  deployment, nothing before the identity of a registered actor; and a process that
  is not clean meets an identity that it cannot create, whose job therefore never
  resolves. Hence `ResumedRunsStop`.
- `CleanInv` is the converse of `DoneInv` for a run without a fault: no promise is
  rejected, nothing is left over, and the ledger has no more than the tasks have
  done. Only so is a transaction of which there is one per run known not to be
  there before it is sent (`SentOnce`), and accepted when its time has come
  (`AcceptedInTime`). For the steps of an asset this needs that they come in an
  order in which each has what it needs, whichever kinds are created
  (`MainStepsFacts`, from `AssetStepsInOrder` and `InOrderConcat`).
- `IndexInv` adds to `IndexFollowsChain` that the data source of every contract
  on the chain exists, without which the next event would be dropped. A step
  of the script has at most one effect the index hears of (`OneEffect`), so
  the fold over effects unfolds to a single handler (`FoldFacts`).

`SystemFollowsScript` is the refinement by which what is proved of the script holds
of the script beside its index.

Only model-checked: liveness (`EveryRunEnds`) and whatever speaks of ENABLED, which
the provers do not treat; and the violations, which are counterexamples.

## 5. What is not modelled, and the plan

Left aside for good: proxies, forwarder and `Context` (delegation, no state of
the protocol); the roles of OpenZeppelin's `AccessControl` (an action is the
transaction of whoever has the role), but for the one that lets registries and the
admin write the storage, whose holders are state; the admin's own writes to the
storage; the pauses, freezes and registry of a bond's underlying asset, which are
one limit per wallet; the addresses of `CREATE2`; the log of
events the subgraph keeps, its scaling of amounts by decimals, names and symbols
(formatting); build scripts and configuration; the lists of the other twelve
roles, kept by the handlers modelled for one. Setters that replace a registry or
the compliance contract change an address and nothing else. Batches of mints and
transfers are sequences of single ones that fail together.

Next, in this order:

1. Collateral and fund: the first valid claim that bounds a mint, its expiry; the
   fee that rounds to nothing when collected often. Both are in `hazards` without
   a property.
2. `isVerified`: registry, issuers and claims composed; `eligible` of the token
   shown to be an abstraction of it.
3. Identity factory (the keys it adds itself, although only the wallet manages
   the new identity) and the list of compliance modules with their parameters.
