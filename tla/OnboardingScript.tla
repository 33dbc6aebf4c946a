--------------------------- MODULE OnboardingScript ---------------------------
(***************************************************************************)
(* The onboarding script: deployment of the protocol, identities, claims   *)
(* and one asset of each kind, by the asynchronous tasks of one process    *)
(* that may crash and be run again on the same chain and journal, or on a  *)
(* cleared one.  A task that sends a transaction awaits its receipt; what  *)
(* the contracts require of a transaction decides whether it reverts.      *)
(***************************************************************************)
EXTENDS IgnitionDeployment, SequencesExt

CONSTANTS
    MaxRuns,            \* bound: processes started
    MaxFaults           \* bound: calls to the node that are lost or fail

\* main creates five kinds of assets; the bond's underlying is the deposit.
ASSUME OnboardingAssumption ==
    /\ AssetKinds \subseteq {"deposit", "equity", "bond", "fund", "stablecoin"}
    /\ "bond" \in AssetKinds => "deposit" \in AssetKinds

VARIABLES
    process,            \* what has become of the current process
    pc,                 \* the step each task is at; 0 before it starts and once it failed
    tx,                 \* what a task knows of the transaction it awaits
    rejected,           \* tasks whose promise is rejected
    identityCreationQueue,  \* actors whose identity was asked for, in order
    topicCache,         \* topics the TopicManager has loaded
    ledger,             \* transactions that took effect on the contracts
    orphans,            \* transactions under way that no task awaits
    clean,              \* the process began with nothing done but deployment
    faulted,            \* a call of this process failed
    run, faults         \* processes started, calls failed

taskVars == <<pc, tx, rejected, identityCreationQueue, topicCache>>
chainVars == <<ledger, orphans>>
runVars == <<process, clean, run>>
faultVars == <<faulted, faults>>
scriptVars == <<future, taskVars, chainVars, runVars, faultVars>>

-----------------------------------------------------------------------------
(* The steps of the tasks.  A transaction is named by what it does.        *)

Registered == <<"owner", "investorA", "investorB">>
Actors == {"owner", "investorA", "investorB", "claimIssuer"}

Topics == {"kyc", "aml", "collateral", "isin", "assetClassification"}

\* What every create function does with its asset, given the topics of the
\* claims it issues for it.
AssetSteps(k, topics) ==
    IF k \notin AssetKinds THEN << >>
    ELSE << <<"create", k>>, <<"grantRole", k, "claimManager">> >>
         \o [i \in DOMAIN topics |-> <<"addAssetClaim", k, topics[i]>>]
         \o << <<"grantRole", k, "supplyManagement">>,
               <<"mint", k>>, <<"transfer", k>>, <<"burn", k>> >>

CreateDeposit == AssetSteps("deposit", <<"isin", "collateral">>)
CreateEquity == AssetSteps("equity", <<"isin", "assetClassification">>)
CreateBond == AssetSteps("bond", <<"isin">>)
CreateFund == AssetSteps("fund", <<"isin", "assetClassification">>)
CreateStablecoin == AssetSteps("stablecoin", <<"isin", "collateral">>)

CreateAssets == CreateDeposit \o CreateEquity \o CreateBond \o CreateFund \o CreateStablecoin

MainSteps ==
    << <<"setUp">>, <<"initialize">>,
       <<"getIdentities", Registered>>, <<"batchRegisterIdentity">>,
       <<"loadTopics">>,
       <<"getIdentities", <<"claimIssuer">> >>, <<"addTrustedIssuer">>,
       <<"verify">> >>
    \o CreateAssets

VerificationSteps(a) ==
    << <<"addClaim", a, "kyc">>, <<"addClaim", a, "aml">>, <<"isVerified", a>> >>

Main == <<"main">>
Identity(a) == <<"identity", a>>
Verification(a) == <<"verification", a>>

Tasks == {Main} \cup {Identity(a) : a \in Actors}
                \cup {Verification(a) : a \in ToSet(Registered)}

Steps == [t \in Tasks |->
            IF t = Main THEN MainSteps
            ELSE IF t[1] = "identity" THEN << <<"createIdentity", t[2]>> >>
            ELSE VerificationSteps(t[2])]

\* Steps that await something else than a transaction.
Waits == {"setUp", "initialize", "getIdentities", "loadTopics", "verify", "isVerified"}

-----------------------------------------------------------------------------
(* What the contracts require of a transaction, and who sends it.          *)

IsVerified(a) ==
    {<<"batchRegisterIdentity">>, <<"addTrustedIssuer">>,
     <<"addClaim", a, "kyc">>, <<"addClaim", a, "aml">>} \subseteq ledger

Collateralised == {"deposit", "stablecoin"}

\* A wallet gets one identity; the claim issuer's key is new in every process.
Accepted(s) ==
    CASE s[1] = "createIdentity" -> s[2] = "claimIssuer" \/ s \notin ledger
      [] s[1] = "batchRegisterIdentity" ->
            /\ s \notin ledger
            /\ \A a \in ToSet(Registered) : <<"createIdentity", a>> \in ledger
      [] s[1] = "addTrustedIssuer" ->
            s \notin ledger /\ <<"createIdentity", "claimIssuer">> \in ledger
      [] s[1] = "addClaim" ->
            {<<"createIdentity", s[2]>>, <<"createIdentity", "claimIssuer">>} \subseteq ledger
      [] s[1] = "create" ->
            /\ s \notin ledger
            /\ OnChain(CreateTokenFactory(s[2]))
            /\ s[2] = "bond" => <<"create", "deposit">> \in ledger
      [] s[1] = "grantRole" -> <<"create", s[2]>> \in ledger
      [] s[1] = "addAssetClaim" -> <<"grantRole", s[2], "claimManager">> \in ledger
      [] s[1] = "mint" ->
            /\ <<"grantRole", s[2], "supplyManagement">> \in ledger
            /\ IsVerified("investorA")
            /\ s[2] \in Collateralised =>
                  {<<"addAssetClaim", s[2], "collateral">>, <<"addTrustedIssuer">>} \subseteq ledger
      [] s[1] = "transfer" -> <<"mint", s[2]>> \in ledger /\ IsVerified("investorB")
      [] s[1] = "burn" -> <<"transfer", s[2]>> \in ledger

\* Claims of a person are added from the person's own wallet, transfers come
\* from investor A, everything else from the owner.
Sender(s) ==
    IF s[1] = "addClaim" THEN s[2] ELSE IF s[1] = "transfer" THEN "investorA" ELSE "owner"

\* The claim data is encoded by the signature the cache has for its topic.
Encodable(s) == s[1] \in {"addClaim", "addAssetClaim"} => s[3] \in topicCache

-----------------------------------------------------------------------------
(* Tasks.                                                                  *)

Step(t) == Steps[t][pc[t]]
Resolved(t) == pc[t] > Len(Steps[t])
Settled(t) == Resolved(t) \/ t \in rejected

\* Mutant: the jobs run side by side.
AnyTurn(t) == TRUE

\* An identity is created when the promises chained before it have settled.
Turn(t) ==
    t[1] = "identity" =>
        \A i \in DOMAIN identityCreationQueue :
            \/ Settled(Identity(identityCreationQueue[i]))
            \/ \E j \in 1..i : identityCreationQueue[j] = t[2]

Active(t) == process = "running" /\ pc[t] \in DOMAIN Steps[t] /\ Turn(t)

AtStep(t, name) == Active(t) /\ Step(t)[1] = name

Advanced(t) == [pc EXCEPT ![t] = @ + 1]

Goto(t) ==
    /\ pc' = Advanced(t)
    /\ UNCHANGED <<tx, rejected, identityCreationQueue, topicCache, chainVars, runVars, faultVars>>

\* Mutant: a job that fails is only logged.
FailUnnoticed(t) ==
    /\ pc' = [pc EXCEPT ![t] = 0]
    /\ tx' = [tx EXCEPT ![t] = "none"]
    /\ rejected' = IF t[1] = "identity" THEN rejected ELSE rejected \cup {t}
    /\ UNCHANGED <<identityCreationQueue, topicCache, ledger, runVars>>

\* The promise of the task is rejected, and nothing more of it is done.
Fail(t) ==
    /\ pc' = [pc EXCEPT ![t] = 0]
    /\ tx' = [tx EXCEPT ![t] = "none"]
    /\ rejected' = rejected \cup {t}
    /\ UNCHANGED <<identityCreationQueue, topicCache, ledger, runVars>>

Lose == faults < MaxFaults /\ faults' = faults + 1 /\ faulted' = TRUE

-----------------------------------------------------------------------------
(* Transactions.                                                           *)

AtTransaction(t) == Active(t) /\ Step(t)[1] \notin Waits

Send(t) ==
    /\ AtTransaction(t) /\ tx[t] = "none" /\ Encodable(Step(t))
    /\ tx' = [tx EXCEPT ![t] = "sent"]
    /\ UNCHANGED <<future, pc, rejected, identityCreationQueue, topicCache, chainVars, runVars, faultVars>>

\* Nothing is sent: the data cannot be encoded, the node finds that the
\* transaction would revert, or the call to the node fails.
SendFails(t) ==
    /\ AtTransaction(t) /\ tx[t] = "none"
    /\ Fail(t)
    /\ \/ ~Encodable(Step(t)) /\ UNCHANGED faultVars
       \/ Encodable(Step(t)) /\ ~Accepted(Step(t)) /\ UNCHANGED faultVars
       \/ Lose
    /\ UNCHANGED <<future, orphans>>

\* The transactions of a wallet are mined in the order they were sent.
Mine(t) ==
    /\ tx[t] = "sent"
    /\ \A s \in orphans : Sender(s) # Sender(Step(t))
    /\ IF Accepted(Step(t))
       THEN ledger' = ledger \cup {Step(t)} /\ tx' = [tx EXCEPT ![t] = "success"]
       ELSE UNCHANGED ledger /\ tx' = [tx EXCEPT ![t] = "reverted"]
    /\ UNCHANGED <<future, pc, rejected, identityCreationQueue, topicCache, orphans, runVars, faultVars>>

MineOrphan(s) ==
    /\ s \in orphans
    /\ orphans' = orphans \ {s}
    /\ ledger' = IF Accepted(s) THEN ledger \cup {s} ELSE ledger
    /\ UNCHANGED <<future, taskVars, runVars, faultVars>>

\* waitForSuccess.
Succeed(t) ==
    /\ process = "running" /\ tx[t] = "success"
    /\ pc' = Advanced(t)
    /\ tx' = [tx EXCEPT ![t] = "none"]
    /\ UNCHANGED <<future, rejected, identityCreationQueue, topicCache, chainVars, runVars, faultVars>>

\* The receipt says reverted, or no receipt comes: the transaction may yet.
ReceiptFails(t) ==
    /\ process = "running" /\ tx[t] # "none"
    /\ Fail(t)
    /\ \/ tx[t] = "reverted" /\ UNCHANGED faultVars
       \/ Lose
    /\ orphans' = IF tx[t] = "sent" THEN orphans \cup {Step(t)} ELSE orphans
    /\ UNCHANGED future

-----------------------------------------------------------------------------
(* The other steps.                                                        *)

\* setUp: Ignition works through the modules, resuming from its journal.
Deploy ==
    /\ AtStep(Main, "setUp")
    /\ DeployStep
    /\ UNCHANGED <<taskVars, chainVars, runVars, faultVars>>

MineFuture ==
    /\ \E f \in OnboardingModule : Execute(f)
    /\ UNCHANGED <<taskVars, chainVars, runVars, faultVars>>

DeploySucceeds ==
    /\ AtStep(Main, "setUp") /\ DeploymentDone
    /\ Goto(Main)
    /\ UNCHANGED future

DeployFails ==
    /\ AtStep(Main, "setUp") /\ ~DeploymentDone
    /\ Fail(Main)
    /\ IF DeploymentFailed THEN UNCHANGED faultVars ELSE Lose
    /\ UNCHANGED <<future, orphans>>

\* initialize and the balances; at the end of a verification, the registry's
\* isVerified, which must be true.
ReadSucceeds(t) ==
    /\ \/ AtStep(t, "initialize")
       \/ AtStep(t, "isVerified") /\ IsVerified(Step(t)[2])
    /\ Goto(t)
    /\ UNCHANGED future

ReadFails(t) ==
    /\ \/ AtStep(t, "initialize") /\ Lose
       \/ AtStep(t, "isVerified") /\ IF IsVerified(Step(t)[2]) THEN Lose ELSE UNCHANGED faultVars
    /\ Fail(t)
    /\ UNCHANGED <<future, orphans>>

\* A topic that cannot be read is left out, a list that cannot be is thrown.
LoadTopics ==
    /\ AtStep(Main, "loadTopics")
    /\ \/ topicCache' = Topics /\ UNCHANGED faultVars
       \/ \E missing \in Topics : topicCache' = Topics \ {missing} /\ Lose
    /\ pc' = Advanced(Main)
    /\ UNCHANGED <<future, tx, rejected, identityCreationQueue, chainVars, runVars>>

LoadTopicsFails ==
    /\ AtStep(Main, "loadTopics")
    /\ Fail(Main) /\ Lose
    /\ UNCHANGED <<future, orphans>>

\* getIdentity chains a job to the queue the first time an identity is asked
\* for; main asks for those of a list at once, and for none in two lists.
GetIdentities ==
    /\ AtStep(Main, "getIdentities")
    /\ LET asked == Step(Main)[2]
       IN /\ ToSet(asked) \cap ToSet(identityCreationQueue) = {}
          /\ identityCreationQueue' = identityCreationQueue \o asked
          /\ pc' = [t \in Tasks |-> IF t \in {Identity(a) : a \in ToSet(asked)} THEN 1 ELSE pc[t]]
    /\ UNCHANGED <<future, tx, rejected, topicCache, chainVars, runVars, faultVars>>

StartVerification ==
    /\ AtStep(Main, "verify")
    /\ \A a \in ToSet(Registered) : pc[Verification(a)] = 0 /\ Verification(a) \notin rejected
    /\ pc' = [t \in Tasks |-> IF t[1] = "verification" THEN 1 ELSE pc[t]]
    /\ UNCHANGED <<future, tx, rejected, identityCreationQueue, topicCache, chainVars, runVars, faultVars>>

\* The promises a Promise.all of main waits for.
Awaited ==
    IF AtStep(Main, "getIdentities") THEN {Identity(a) : a \in ToSet(Step(Main)[2])}
    ELSE IF AtStep(Main, "verify") THEN {Verification(a) : a \in ToSet(Registered)} ELSE {}

\* Mutant: Promise.allSettled.
AllSettled == Awaited # {} /\ \A t \in Awaited : Settled(t)

\* Mutant: one of the promises is enough.
AnyResolved == \E t \in Awaited : Resolved(t)

AllResolved == Awaited # {} /\ \A t \in Awaited : Resolved(t)

AwaitSucceeds == AllResolved /\ Goto(Main) /\ UNCHANGED future

AwaitFails ==
    /\ Awaited \cap rejected # {}
    /\ Fail(Main)
    /\ UNCHANGED <<future, orphans, faultVars>>

-----------------------------------------------------------------------------
(* Processes.                                                              *)

\* The transactions of a process that ends go on without it.
Ended(how) ==
    /\ process' = how
    /\ orphans' = orphans \cup {Step(t) : t \in {u \in Tasks : tx[u] = "sent"}}
    /\ pc' = [t \in Tasks |-> 0]
    /\ tx' = [t \in Tasks |-> "none"]
    /\ rejected' = {} /\ identityCreationQueue' = << >> /\ topicCache' = {}
    /\ UNCHANGED <<future, ledger, clean, run, faultVars>>

Exit ==
    /\ process = "running"
    /\ \/ Resolved(Main) /\ Ended("exit 0")
       \/ Main \in rejected /\ Ended("exit 1")

Crash == process = "running" /\ Ended("crashed")

\* Removing the journal deploys everything anew.
Start(reset) ==
    /\ process # "running" /\ run < MaxRuns
    /\ process' = "running"
    /\ run' = run + 1
    /\ pc' = [pc EXCEPT ![Main] = 1]
    /\ IF reset THEN future' = NothingDeployed /\ ledger' = {} /\ orphans' = {}
                ELSE UNCHANGED <<future, chainVars>>
    /\ clean' = (reset \/ (ledger \cup orphans = {} /\ ~DeploymentFailed))
    /\ faulted' = FALSE
    /\ UNCHANGED <<tx, rejected, identityCreationQueue, topicCache, faults>>

ScriptInit ==
    /\ future = NothingDeployed
    /\ process = "not started"
    /\ pc = [t \in Tasks |-> 0]
    /\ tx = [t \in Tasks |-> "none"]
    /\ rejected = {} /\ identityCreationQueue = << >> /\ topicCache = {}
    /\ ledger = {} /\ orphans = {}
    /\ clean = TRUE /\ faulted = FALSE
    /\ run = 0 /\ faults = 0

TaskStep(t) == Send(t) \/ SendFails(t) \/ Succeed(t) \/ ReceiptFails(t) \/ ReadSucceeds(t) \/ ReadFails(t)

MainStep ==
    \/ Deploy \/ DeploySucceeds \/ DeployFails
    \/ LoadTopics \/ LoadTopicsFails
    \/ GetIdentities \/ StartVerification \/ AwaitSucceeds \/ AwaitFails
    \/ Exit

Mining == MineFuture \/ (\E t \in Tasks : Mine(t)) \/ (\E s \in orphans : MineOrphan(s))

ScriptNext ==
    \/ \E t \in Tasks : TaskStep(t)
    \/ MainStep
    \/ Mining
    \/ Crash
    \/ \E reset \in BOOLEAN : Start(reset)

\* The event loop and the node's miner never stop; nothing makes a process
\* crash, a call fail or a process start.
ScriptFairness ==
    /\ \A t \in Tasks : WF_scriptVars(TaskStep(t))
    /\ WF_scriptVars(MainStep)
    /\ WF_scriptVars(Mining)

ScriptSpec == ScriptInit /\ [][ScriptNext]_scriptVars /\ ScriptFairness

-----------------------------------------------------------------------------
(* Properties.                                                             *)

\* Transactions of one wallet that are under way together may replace one
\* another.  Those that tasks of a process await never are: identities are
\* created one after the other although they are asked for at once, and the
\* tasks that run side by side send from wallets of their own.  A transaction
\* nobody awaits any more is under way too, and the next of its wallet does
\* not wait for it; until a call fails, a clean process meets none.
SendsNeverClash ==
    \A t \in Tasks : tx[t] = "sent" =>
        /\ \A u \in Tasks \ {t} : tx[u] = "sent" => Sender(Step(u)) # Sender(Step(t))
        /\ clean /\ ~faulted => \A s \in orphans : Sender(s) # Sender(Step(t))

\* A process that starts on a chain with at most a deployment, even one that
\* was interrupted anywhere, fails only when a call to the node did: every
\* transaction comes after what the contracts require for it.
CleanRunFailsOnlyByFault == process = "exit 1" /\ clean => faulted

\* A process that exits with 0 has done everything, whatever failed, was
\* lost or was left over.
ExitZeroIsComplete ==
    process = "exit 0" =>
        \A t \in Tasks, i \in 1..Len(MainSteps) :
            i \in DOMAIN Steps[t] /\ Steps[t][i][1] \notin Waits => Steps[t][i] \in ledger

\* The script is not made to be resumed, and is not: one that finds identities
\* of an earlier process, or their transactions under way, stops there, and
\* never registers, trusts, creates or mints a second time.
ResumedRunStopsAtIdentities ==
    process = "running" /\ ~clean =>
        \A t \in Tasks : tx[t] # "none" => Step(t)[1] = "createIdentity"

\* Every process comes to an end: none waits for ever for a promise that
\* nothing settles, whichever calls fail.
EveryRunEnds == process = "running" ~> process # "running"
=============================================================================
