----------------------------- MODULE SubgraphSystem -----------------------------
(***************************************************************************)
(* The deployment and onboarding beside their index: the System, its       *)
(* registries, TokenFactory, Token and Account entities.  A contract's     *)
(* events are handled only once a data source for its address was created, *)
(* which the fetch functions do when they meet the address first.  A       *)
(* transaction and the handlers of its events are one step.                *)
(***************************************************************************)
EXTENDS OnboardingScript

VARIABLE index

NoToken == [exists |-> FALSE, type |-> "none", identity |-> FALSE]
NewToken == [exists |-> TRUE, type |-> "unknown", identity |-> FALSE]

\* What System.bootstrap's event names.
Components ==
    { <<"compliance">>, <<"identityRegistry">>, <<"identityRegistryStorage">>,
      <<"trustedIssuersRegistry">>, <<"identityFactory">>, <<"topicSchemeRegistry">> }

\* dataSources: addresses whose events are handled; the system factory's is
\* in the manifest.
NewIndex ==
    [ dataSources |-> {<<"systemFactory">>},
      components |-> {},
      factoryType |-> [k \in AssetKinds |-> "none"],
      tokens |-> [k \in AssetKinds |-> NoToken],
      accountIdentity |-> {} ]

-----------------------------------------------------------------------------
(* The fetch functions and the handlers.                                   *)

FetchSystem(ix) == [ix EXCEPT !.dataSources = @ \cup {<<"system">>}]

\* Those of the trusted issuers and of compliance have no data source.
FetchComponents(ix) ==
    [ix EXCEPT !.dataSources = @ \cup (Components \ {<<"compliance">>, <<"trustedIssuersRegistry">>})]

FetchTokenFactory(ix, k) ==
    [ix EXCEPT !.dataSources = @ \cup {<<"tokenFactory", k>>},
               !.factoryType[k] = IF @ = "none" THEN "unknown" ELSE @]

FetchToken(ix, k) ==
    [ix EXCEPT !.dataSources = @ \cup {<<"token", k>>},
               !.tokens[k] = IF @.exists THEN @ ELSE NewToken]

HandleSMARTSystemCreated(ix) == FetchSystem(ix)

HandleBootstrapped(ix) == [FetchComponents(FetchSystem(ix)) EXCEPT !.components = Components]

HandleTokenFactoryCreated(ix, k) == [FetchTokenFactory(ix, k) EXCEPT !.factoryType[k] = k]

HandleIdentityCreated(ix, a) == [ix EXCEPT !.accountIdentity = @ \cup {a}]

HandleTokenIdentityCreated(ix, k) == [FetchToken(ix, k) EXCEPT !.tokens[k].identity = TRUE]

\* Mutant: only a token not seen before is given its type.
TypeWhenNew(ix, k) ==
    LET fetched == FetchToken(FetchTokenFactory(ix, k), k)
    IN IF ix.tokens[k].exists THEN fetched
       ELSE [fetched EXCEPT !.tokens[k].type = fetched.factoryType[k]]

HandleTokenAssetCreated(ix, k) ==
    LET fetched == FetchToken(FetchTokenFactory(ix, k), k)
    IN [fetched EXCEPT !.tokens[k].type = fetched.factoryType[k], !.tokens[k].identity = TRUE]

\* An event of an address is handled if there is a data source for it.
From(ix, source, handled) == IF source \in ix.dataSources THEN handled ELSE ix

\* createX of a factory has the identity factory create the token's identity
\* before it announces the token.
Handled(ix, effect) ==
    CASE effect = CreateSystem -> From(ix, <<"systemFactory">>, HandleSMARTSystemCreated(ix))
      [] effect = Bootstrap -> From(ix, <<"system">>, HandleBootstrapped(ix))
      [] effect \in {CreateTokenFactory(k) : k \in AssetKinds} ->
            From(ix, <<"system">>, HandleTokenFactoryCreated(ix, effect[2]))
      [] effect[1] = "createIdentity" ->
            From(ix, <<"identityFactory">>, HandleIdentityCreated(ix, effect[2]))
      [] effect[1] = "create" ->
            LET known == From(ix, <<"identityFactory">>, HandleTokenIdentityCreated(ix, effect[2]))
            IN From(known, <<"tokenFactory", effect[2]>>, HandleTokenAssetCreated(known, effect[2]))
      [] OTHER -> ix

-----------------------------------------------------------------------------
(* The script with the index.                                              *)

SystemInit == ScriptInit /\ index = NewIndex

Effects == ledger \cup {f \in OnboardingModule : OnChain(f)}

\* What a step of the script changes on the chain is handled with it; a chain
\* that is deployed anew is indexed anew.
SystemNext ==
    /\ ScriptNext
    /\ index' = IF Effects \subseteq Effects'
                THEN FoldSet(LAMBDA effect, ix : Handled(ix, effect), index, Effects' \ Effects)
                ELSE NewIndex

systemVars == <<scriptVars, index>>

SystemSpec == SystemInit /\ [][SystemNext]_systemVars /\ ScriptFairness

-----------------------------------------------------------------------------
(* Properties.                                                             *)

\* Whatever is interrupted and resumed, the index misses nothing: the events
\* that need a data source come after the one that creates it, and every
\* token ends up with the type of its factory although it is met first, as
\* "unknown", when its identity is created.
IndexFollowsChain ==
    /\ OnChain(Bootstrap) => index.components = Components
    /\ index.accountIdentity = {a \in Actors : <<"createIdentity", a>> \in ledger}
    /\ \A k \in AssetKinds :
          /\ OnChain(CreateTokenFactory(k)) => index.factoryType[k] = k
          /\ index.tokens[k] = IF <<"create", k>> \in ledger
                               THEN [exists |-> TRUE, type |-> k, identity |-> TRUE]
                               ELSE NoToken
=============================================================================
