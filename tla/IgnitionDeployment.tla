-------------------------- MODULE IgnitionDeployment --------------------------
(***************************************************************************)
(* Deployment of the protocol by the Hardhat Ignition modules: what each   *)
(* module declares (its futures and what they use) and the journalled      *)
(* execution of the futures by Ignition, which is external.  Only the      *)
(* order that follows from the modules and what the contracts require      *)
(* decide whether a deployment, possibly resumed from its journal,         *)
(* succeeds.                                                               *)
(***************************************************************************)
EXTENDS Naturals, Sequences

CONSTANTS
    Implementations,    \* implementations the system factory is given
    AssetKinds          \* token types a factory is created for

VARIABLE future         \* the journal and the chain: how far each future is

-----------------------------------------------------------------------------
(* The futures of the modules.                                             *)

Forwarder == <<"forwarder">>
Implementation(i) == <<"implementation", i>>
SystemFactory == <<"systemFactory">>
AssetImplementation(k) == <<"assetImplementation", k>>
FactoryImplementation(k) == <<"factoryImplementation", k>>
CreateSystem == <<"createSystem">>
System == <<"system">>                              \* systemAddress and system
Bootstrap == <<"bootstrap">>
Addresses == <<"addresses">>                        \* the six proxies of Bootstrapped
CreateTokenFactory(k) == <<"createTokenFactory", k>>
FactoryAddress(k) == <<"factoryAddress", k>>

SystemFactoryModule ==
    {Forwarder, SystemFactory} \cup {Implementation(i) : i \in Implementations}

AssetModule(k) == {Forwarder, AssetImplementation(k), FactoryImplementation(k)}

SMARTModule == SystemFactoryModule \cup UNION {AssetModule(k) : k \in AssetKinds}

SystemModule == {CreateSystem, System, Bootstrap, Addresses}

FactoryModule(k) == {CreateTokenFactory(k), FactoryAddress(k)}

OnboardingModule ==
    SMARTModule \cup SystemModule \cup UNION {FactoryModule(k) : k \in AssetKinds}

-----------------------------------------------------------------------------
(* What must be done before what, as pairs <<earlier, later>>.             *)

SystemFactoryArguments ==
    {Forwarder} \X (SystemFactoryModule \ {Forwarder})
    \cup {Implementation(i) : i \in Implementations} \X {SystemFactory}

AssetArguments(k) == {Forwarder} \X {AssetImplementation(k), FactoryImplementation(k)}

SystemArguments ==
    { <<SystemFactory, CreateSystem>>, <<CreateSystem, System>>,
      <<System, Bootstrap>>, <<Bootstrap, Addresses>> }

FactoryArguments(k) ==
    {System, FactoryImplementation(k), AssetImplementation(k)} \X {CreateTokenFactory(k)}
    \cup {<<CreateTokenFactory(k), FactoryAddress(k)>>}

\* The futures a future takes as arguments.
Arguments ==
    SystemFactoryArguments \cup SystemArguments
    \cup UNION {AssetArguments(k) \cup FactoryArguments(k) : k \in AssetKinds}

\* Mutant: only what a future takes as an argument comes before it.
ArgumentsOnly == Arguments

\* m.useModule: every future of a used module comes before the module's own.
Order ==
    Arguments \cup SMARTModule \X SystemModule
    \cup UNION {(SMARTModule \cup SystemModule) \X FactoryModule(k) : k \in AssetKinds}

-----------------------------------------------------------------------------
(* The chain.                                                              *)

OnChain(f) == future[f] \in {"mined", "done"}

\* createSystem needs the factory, bootstrap the system, and
\* createTokenFactory grants a role on the identity factory of bootstrap.
Requires(f) ==
    IF f \in {CreateTokenFactory(k) : k \in AssetKinds} THEN {Bootstrap}
    ELSE IF f = Bootstrap THEN {CreateSystem}
    ELSE IF f = CreateSystem THEN {SystemFactory} ELSE {}

\* Futures that only read what is there.
Reads == {System, Addresses} \cup {FactoryAddress(k) : k \in AssetKinds}

-----------------------------------------------------------------------------
(* Ignition's execution of the futures.                                    *)

NothingDeployed == [f \in OnboardingModule |-> "new"]

Ready(f) == \A g \in OnboardingModule : <<g, f>> \in Order => future[g] = "done"

Read(f) ==
    /\ f \in Reads
    /\ future[f] = "new" /\ Ready(f)
    /\ future' = [future EXCEPT ![f] = "done"]

\* The transaction is in the journal before it is on its way.
Submit(f) ==
    /\ f \notin Reads
    /\ future[f] = "new" /\ Ready(f)
    /\ future' = [future EXCEPT ![f] = "sent"]

Execute(f) ==
    /\ future[f] = "sent"
    /\ future' = [future EXCEPT ![f] = IF \A g \in Requires(f) : OnChain(g)
                                       THEN "mined" ELSE "reverted"]

\* Also what a resumed deployment does first with what it finds sent.
Confirm(f) ==
    /\ future[f] \in {"mined", "reverted"}
    /\ future' = [future EXCEPT ![f] = IF @ = "mined" THEN "done" ELSE "failed"]

DeployStep == \E f \in OnboardingModule : Read(f) \/ Submit(f) \/ Confirm(f)

DeploymentDone == \A f \in OnboardingModule : future[f] = "done"

\* A failed future stops the deployment and every later one on its journal.
DeploymentFailed == \E f \in OnboardingModule : future[f] = "failed"
=============================================================================
