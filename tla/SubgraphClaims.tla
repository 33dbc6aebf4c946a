--------------------------- MODULE SubgraphClaims ---------------------------
(***************************************************************************)
(* Topic schemes and an identity's claims beside their index: TopicScheme, *)
(* IdentityClaim and IdentityClaimValue entities.  The data of a claim is  *)
(* decoded by the signature the index has for its topic when the claim's   *)
(* event arrives, and shown as one value per parameter; what no signature  *)
(* decodes is shown raw.  A transaction and its handlers are one step.     *)
(***************************************************************************)
EXTENDS SMARTIdentityClaims

CONSTANT Decodable      \* <<signature, data>> pairs that ethereum.decode accepts

ASSUME DecodableAssumption == Decodable \subseteq Signatures \X Data

VARIABLES
    topicSchemes,       \* TopicScheme entities
    identityClaims      \* IdentityClaim entities with their values

claimIndexVars == <<topicSchemes, identityClaims>>
indexedClaimVars == <<schemeVars, claimVars, claimIndexVars>>

\* Parameters are named by their signature; None is the key "rawData".
ValueKeys == Signatures \cup {None}

NoTopicScheme == [exists |-> FALSE, named |-> FALSE, signature |-> None, enabled |-> FALSE]
NewTopicScheme == [exists |-> TRUE, named |-> FALSE, signature |-> None, enabled |-> TRUE]

NoIdentityClaim ==
    [exists |-> FALSE, named |-> FALSE, revoked |-> FALSE,
     values |-> [k \in ValueKeys |-> None]]

IndexedClaimInit ==
    /\ ClaimInit
    /\ topicSchemes = [t \in Topics |-> NoTopicScheme]
    /\ identityClaims = [c \in ClaimIds |-> NoIdentityClaim]

-----------------------------------------------------------------------------
(* The handlers.                                                           *)

FetchTopicScheme(t) ==
    IF topicSchemes[t].exists THEN topicSchemes[t] ELSE NewTopicScheme

FetchIdentityClaim(c) == [identityClaims[c] EXCEPT !.exists = TRUE]

\* A topic that comes back keeps enabled = false.
HandleTopicSchemeRegistered(ts, t, s) ==
    [ts EXCEPT ![t] = [FetchTopicScheme(t) EXCEPT !.named = TRUE, !.signature = s]]

\* Mutant: the event's old signature is saved.
HandleUpdatedOldSignature(t, s) ==
    topicSchemes' =
        [topicSchemes EXCEPT ![t] = [FetchTopicScheme(t) EXCEPT !.signature = schemes[t]]]

HandleTopicSchemeUpdated(t, s) ==
    topicSchemes' =
        [topicSchemes EXCEPT ![t] = [FetchTopicScheme(t) EXCEPT !.named = TRUE, !.signature = s]]

HandleTopicSchemeRemoved(t) ==
    topicSchemes' = [topicSchemes EXCEPT ![t] = [FetchTopicScheme(t) EXCEPT !.enabled = FALSE]]

\* The claim takes its name from the topic; values under other keys stay.
DecodeClaimValues(claim, t, d) ==
    LET s == FetchTopicScheme(t).signature
        key == IF <<s, d>> \in Decodable THEN s ELSE None
    IN [claim EXCEPT !.named = FetchTopicScheme(t).named, !.values[key] = d]

\* Mutant: a claim that is known is not decoded again.
SetClaimOnce(c, d) ==
    /\ identityClaims' =
          [identityClaims EXCEPT ![c] = IF @.exists THEN @
                                        ELSE DecodeClaimValues(FetchIdentityClaim(c), c[2], d)]
    /\ topicSchemes' = [topicSchemes EXCEPT ![c[2]] = FetchTopicScheme(c[2])]

\* ClaimAdded and ClaimChanged are handled alike, and neither resets revoked.
\* An unknown topic becomes an entity of its own.
HandleClaimSet(c, d) ==
    /\ identityClaims' =
          [identityClaims EXCEPT ![c] = DecodeClaimValues(FetchIdentityClaim(c), c[2], d)]
    /\ topicSchemes' = [topicSchemes EXCEPT ![c[2]] = FetchTopicScheme(c[2])]

\* Mutant: the entity is left as it is.
HandleNothingRemoved(c) == UNCHANGED claimIndexVars

HandleClaimRemoved(c) ==
    /\ identityClaims' = [identityClaims EXCEPT ![c] = [FetchIdentityClaim(c) EXCEPT !.revoked = TRUE]]
    /\ UNCHANGED topicSchemes

-----------------------------------------------------------------------------
(* Transactions with the handlers of their events.                         *)

IndexedRegisterScheme(t, s) ==
    /\ RegisterTopicScheme(t, s)
    /\ topicSchemes' = HandleTopicSchemeRegistered(topicSchemes, t, s)
    /\ UNCHANGED <<claimVars, identityClaims>>

\* One TopicSchemeRegistered each; TopicSchemesBatchRegistered then writes the
\* same once more.
IndexedBatchRegisterSchemes(t1, t2, s1, s2) ==
    /\ BatchRegisterTopicSchemes(t1, t2, s1, s2)
    /\ topicSchemes' = HandleTopicSchemeRegistered(
                           HandleTopicSchemeRegistered(topicSchemes, t1, s1), t2, s2)
    /\ UNCHANGED <<claimVars, identityClaims>>

IndexedUpdateScheme(t, s) ==
    /\ UpdateTopicScheme(t, s)
    /\ HandleTopicSchemeUpdated(t, s)
    /\ UNCHANGED <<claimVars, identityClaims>>

IndexedRemoveScheme(t) ==
    /\ RemoveTopicScheme(t)
    /\ HandleTopicSchemeRemoved(t)
    /\ UNCHANGED <<claimVars, identityClaims>>

IndexedAddClaim(c, d) ==
    /\ AddClaim(c, d)
    /\ HandleClaimSet(c, d)
    /\ UNCHANGED schemeVars

IndexedRemoveClaim(c) ==
    /\ RemoveClaim(c)
    /\ HandleClaimRemoved(c)
    /\ UNCHANGED schemeVars

\* ClaimRevoked has no handler.
IndexedRevoke(c, d) ==
    /\ RevokeClaimBySignature(c, d)
    /\ UNCHANGED <<schemeVars, claimIndexVars>>

IndexedClaimNext ==
    \/ \E t \in Topics, s \in Signatures : IndexedRegisterScheme(t, s) \/ IndexedUpdateScheme(t, s)
    \/ \E t1, t2 \in Topics, s1, s2 \in Signatures :
          IndexedBatchRegisterSchemes(t1, t2, s1, s2)
    \/ \E t \in Topics : IndexedRemoveScheme(t)
    \/ \E c \in ClaimIds, d \in Data : IndexedAddClaim(c, d)
    \/ \E c \in ClaimIds : IndexedRemoveClaim(c)
    \/ \E c \in ClaimIds, d \in Data : c[1] # Self /\ IndexedRevoke(c, d)

IndexedClaimSpec == IndexedClaimInit /\ [][IndexedClaimNext]_indexedClaimVars

-----------------------------------------------------------------------------
(* Properties.                                                             *)

\* Claims of a registered topic are decoded by its present signature, after
\* any mix of updates, removals and new registrations, and a topic that was
\* removed is never shown as enabled (one that comes back is not either, and
\* one that only claims name has no signature).
SchemeIndexFollows ==
    \A t \in Topics :
        /\ HasTopicScheme(t) => /\ topicSchemes[t].named
                                /\ topicSchemes[t].signature = schemes[t]
        /\ topicSchemes[t].enabled /\ topicSchemes[t].signature # None => HasTopicScheme(t)

\* The index shows a claim as live only while the identity has it: re-adding
\* and replacing claims never brings a removed one back.
LiveEntityIsHeld ==
    \A c \in ClaimIds :
        identityClaims[c].exists /\ ~identityClaims[c].revoked => claims[c] # None

\* Whatever makes an investor eligible can be seen in the index: every claim
\* that the registry's verification may rest on has an entity, and the data it
\* has now, not that of a claim it replaced only, is among the values shown.
VerifiedClaimIsShown ==
    \A t \in ClaimTopics, i \in Issuers \ {Self} :
        TopicVerified(t) /\ Counted(i, t) =>
            /\ identityClaims[<<i, t>>].exists
            /\ \E k \in ValueKeys : identityClaims[<<i, t>>].values[k] = claims[<<i, t>>]
=============================================================================
