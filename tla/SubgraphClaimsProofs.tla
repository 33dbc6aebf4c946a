------------------------ MODULE SubgraphClaimsProofs ------------------------
(***************************************************************************)
(* Topic schemes, claims and their index, for any topics, signatures,      *)
(* issuers and data, and whatever the decoder accepts.  A topic that only  *)
(* claims name has an entity without a signature, so that the index        *)
(* follows the schemes needs that a registered topic has an entity.        *)
(***************************************************************************)
EXTENDS SubgraphClaims, DataLemmas

\* The registry of topic schemes lists what it has.
SchemesInv ==
    /\ schemes \in [Topics -> Signatures \cup {None}]
    /\ topicIds \in IndexedListsOf(Topics)
    /\ Consistent(topicIds)
    /\ Members(topicIds) = {t \in Topics : HasTopicScheme(t)}

ClaimsInv ==
    /\ claims \in [ClaimIds -> Data \cup {None}]
    /\ claimsByTopic \in [ClaimTopics -> Seq(Issuers)]
    /\ ClaimsByTopicExact

TopicSchemeEntities ==
    [exists : BOOLEAN, named : BOOLEAN, signature : Signatures \cup {None}, enabled : BOOLEAN]

IdentityClaimEntities ==
    [exists : BOOLEAN, named : BOOLEAN, revoked : BOOLEAN,
     values : [ValueKeys -> Data \cup {None}]]

SchemeIndexInv ==
    /\ topicSchemes \in [Topics -> TopicSchemeEntities]
    /\ \A t \in Topics : HasTopicScheme(t) => topicSchemes[t].exists
    /\ SchemeIndexFollows

\* The data of every claim, verified or not, is among the values shown.
ClaimIsShown(c) ==
    claims[c] # None =>
        /\ identityClaims[c].exists
        /\ \E k \in ValueKeys : identityClaims[c].values[k] = claims[c]

ClaimIndexInv ==
    /\ identityClaims \in [ClaimIds -> IdentityClaimEntities]
    /\ LiveEntityIsHeld
    /\ \A c \in ClaimIds : ClaimIsShown(c)

IndexedClaimInv == SchemesInv /\ ClaimsInv /\ SchemeIndexInv /\ ClaimIndexInv

USE SchemeAssumption, ClaimAssumption, DecodableAssumption

-----------------------------------------------------------------------------
(* Topic schemes.                                                          *)

\* The entity that a handler of a topic starts from.
LEMMA FetchedScheme ==
    ASSUME SchemeIndexInv, NEW t \in Topics
    PROVE  /\ FetchTopicScheme(t) \in TopicSchemeEntities
           /\ FetchTopicScheme(t).exists
           /\ topicSchemes[t].exists => FetchTopicScheme(t) = topicSchemes[t]
           /\ FetchTopicScheme(t).signature # None
                => FetchTopicScheme(t).signature = topicSchemes[t].signature
           /\ FetchTopicScheme(t).enabled /\ FetchTopicScheme(t).signature # None
                => topicSchemes[t].enabled
BY DEF SchemeIndexInv, FetchTopicScheme, NewTopicScheme, TopicSchemeEntities

\* What one new entity of one topic must agree with.
LEMMA TopicFollowed ==
    ASSUME SchemeIndexInv, NEW t \in Topics, NEW e \in TopicSchemeEntities,
           e.exists,
           topicSchemes' = [topicSchemes EXCEPT ![t] = e],
           \A u \in Topics \ {t} : schemes'[u] = schemes[u],
           schemes'[t] # None => e.named /\ e.signature = schemes'[t],
           e.enabled /\ e.signature # None => schemes'[t] # None
    PROVE  SchemeIndexInv'
<1>1. /\ topicSchemes' \in [Topics -> TopicSchemeEntities]
      /\ topicSchemes'[t] = e
      /\ \A u \in Topics : u # t => topicSchemes'[u] = topicSchemes[u]
  BY DEF SchemeIndexInv
<1> QED
  BY <1>1 DEF SchemeIndexInv, SchemeIndexFollows, HasTopicScheme

\* A registered topic takes the entity and the signature it is given.
LEMMA RegisterSchemeInv ==
    ASSUME IndexedClaimInv, NEW t \in Topics, NEW s \in Signatures,
           IndexedRegisterScheme(t, s)
    PROVE  SchemesInv' /\ SchemeIndexInv'
<1>1. /\ ~HasTopicScheme(t)
      /\ schemes' = [schemes EXCEPT ![t] = s]
      /\ topicIds' = PushItem(topicIds, t)
  BY DEF IndexedRegisterScheme, RegisterTopicScheme
<1>2. /\ schemes' \in [Topics -> Signatures \cup {None}]
      /\ schemes'[t] = s /\ s # None
      /\ \A u \in Topics \ {t} : schemes'[u] = schemes[u]
  BY <1>1 DEF IndexedClaimInv, SchemesInv
<1>3. SchemesInv'
  <2>1. /\ topicIds' \in IndexedListsOf(Topics) /\ Consistent(topicIds')
        /\ Members(topicIds') = Members(topicIds) \cup {t}
    BY <1>1, PushItemFacts DEF IndexedClaimInv, SchemesInv
  <2> QED
    BY <1>2, <2>1 DEF IndexedClaimInv, SchemesInv, HasTopicScheme
<1> DEFINE e == [FetchTopicScheme(t) EXCEPT !.named = TRUE, !.signature = s]
<1>4. e \in TopicSchemeEntities /\ e.exists /\ e.named /\ e.signature = s
  BY FetchedScheme DEF IndexedClaimInv, TopicSchemeEntities
<1>5. topicSchemes' = [topicSchemes EXCEPT ![t] = e]
  BY DEF IndexedRegisterScheme, HandleTopicSchemeRegistered
<1> HIDE DEF e
<1> QED
  BY <1>2, <1>3, <1>4, <1>5, TopicFollowed DEF IndexedClaimInv

\* Two topics in one transaction, which are not the same.
LEMMA BatchRegisterSchemesInv ==
    ASSUME IndexedClaimInv, NEW t1 \in Topics, NEW t2 \in Topics,
           NEW z1 \in Signatures, NEW z2 \in Signatures,
           IndexedBatchRegisterSchemes(t1, t2, z1, z2)
    PROVE  SchemesInv' /\ SchemeIndexInv'
<1>1. /\ t1 # t2 /\ ~HasTopicScheme(t1) /\ ~HasTopicScheme(t2)
      /\ schemes' = [schemes EXCEPT ![t1] = z1, ![t2] = z2]
      /\ topicIds' = PushItem(PushItem(topicIds, t1), t2)
  BY DEF IndexedBatchRegisterSchemes, BatchRegisterTopicSchemes
<1>2. /\ schemes' \in [Topics -> Signatures \cup {None}]
      /\ schemes'[t1] = z1 /\ schemes'[t2] = z2 /\ z1 # None /\ z2 # None
      /\ \A u \in Topics \ {t1, t2} : schemes'[u] = schemes[u]
  BY <1>1 DEF IndexedClaimInv, SchemesInv
<1>3. SchemesInv'
  <2> DEFINE first == PushItem(topicIds, t1)
  <2>1. /\ first \in IndexedListsOf(Topics) /\ Consistent(first)
        /\ Members(first) = Members(topicIds) \cup {t1}
    BY <1>1, PushItemFacts DEF IndexedClaimInv, SchemesInv
  <2>2. t2 \notin Members(first)
    BY <1>1, <2>1 DEF IndexedClaimInv, SchemesInv
  <2>3. topicIds' = PushItem(first, t2)
    BY <1>1
  <2> HIDE DEF first
  <2>4. /\ topicIds' \in IndexedListsOf(Topics) /\ Consistent(topicIds')
        /\ Members(topicIds') = Members(first) \cup {t2}
    BY <2>1, <2>2, <2>3, PushItemFacts
  <2> QED
    BY <1>2, <2>1, <2>4 DEF IndexedClaimInv, SchemesInv, HasTopicScheme
<1> DEFINE e1 == [FetchTopicScheme(t1) EXCEPT !.named = TRUE, !.signature = z1]
           e2 == [FetchTopicScheme(t2) EXCEPT !.named = TRUE, !.signature = z2]
<1>4. /\ e1 \in TopicSchemeEntities /\ e1.exists /\ e1.named /\ e1.signature = z1
      /\ e2 \in TopicSchemeEntities /\ e2.exists /\ e2.named /\ e2.signature = z2
  BY FetchedScheme DEF IndexedClaimInv, TopicSchemeEntities
<1>5. topicSchemes' = [[topicSchemes EXCEPT ![t1] = e1] EXCEPT ![t2] = e2]
  BY DEF IndexedBatchRegisterSchemes, HandleTopicSchemeRegistered
<1> HIDE DEF e1, e2
<1>6. /\ topicSchemes' \in [Topics -> TopicSchemeEntities]
      /\ topicSchemes'[t1] = e1 /\ topicSchemes'[t2] = e2
      /\ \A u \in Topics \ {t1, t2} : topicSchemes'[u] = topicSchemes[u]
  BY <1>1, <1>4, <1>5 DEF IndexedClaimInv, SchemeIndexInv
<1> QED
  BY <1>2, <1>3, <1>4, <1>6
  DEF IndexedClaimInv, SchemeIndexInv, SchemeIndexFollows, HasTopicScheme

\* The entity follows a new signature.
LEMMA UpdateSchemeInv ==
    ASSUME IndexedClaimInv, NEW t \in Topics, NEW s \in Signatures,
           IndexedUpdateScheme(t, s)
    PROVE  SchemesInv' /\ SchemeIndexInv'
<1>1. /\ HasTopicScheme(t)
      /\ schemes' = [schemes EXCEPT ![t] = s]
      /\ UNCHANGED topicIds
  BY DEF IndexedUpdateScheme, UpdateTopicScheme
<1>2. /\ schemes' \in [Topics -> Signatures \cup {None}]
      /\ schemes'[t] = s /\ s # None
      /\ \A u \in Topics \ {t} : schemes'[u] = schemes[u]
  BY <1>1 DEF IndexedClaimInv, SchemesInv
<1>3. SchemesInv'
  BY <1>1, <1>2 DEF IndexedClaimInv, SchemesInv, HasTopicScheme
<1> DEFINE e == [FetchTopicScheme(t) EXCEPT !.named = TRUE, !.signature = s]
<1>4. e \in TopicSchemeEntities /\ e.exists /\ e.named /\ e.signature = s
  BY FetchedScheme DEF IndexedClaimInv, TopicSchemeEntities
<1>5. topicSchemes' = [topicSchemes EXCEPT ![t] = e]
  BY DEF IndexedUpdateScheme, HandleTopicSchemeUpdated
<1> HIDE DEF e
<1> QED
  BY <1>2, <1>3, <1>4, <1>5, TopicFollowed DEF IndexedClaimInv

\* A removed topic is not enabled any more.
LEMMA RemoveSchemeInv ==
    ASSUME IndexedClaimInv, NEW t \in Topics, IndexedRemoveScheme(t)
    PROVE  SchemesInv' /\ SchemeIndexInv'
<1>1. /\ t \in Members(topicIds)
      /\ schemes' = [schemes EXCEPT ![t] = None]
      /\ topicIds' = SwapAndPop(topicIds, t)
  BY DEF IndexedRemoveScheme, RemoveTopicScheme
<1>2. /\ schemes' \in [Topics -> Signatures \cup {None}]
      /\ schemes'[t] = None
      /\ \A u \in Topics \ {t} : schemes'[u] = schemes[u]
  BY <1>1 DEF IndexedClaimInv, SchemesInv
<1>3. SchemesInv'
  <2>1. /\ topicIds' \in IndexedListsOf(Topics) /\ Consistent(topicIds')
        /\ Members(topicIds') = Members(topicIds) \ {t}
    BY <1>1, SwapAndPopFacts DEF IndexedClaimInv, SchemesInv
  <2> QED
    BY <1>2, <2>1 DEF IndexedClaimInv, SchemesInv, HasTopicScheme
<1> DEFINE e == [FetchTopicScheme(t) EXCEPT !.enabled = FALSE]
<1>4. e \in TopicSchemeEntities /\ e.exists /\ ~e.enabled
  BY FetchedScheme DEF IndexedClaimInv, TopicSchemeEntities
<1>5. topicSchemes' = [topicSchemes EXCEPT ![t] = e]
  BY DEF IndexedRemoveScheme, HandleTopicSchemeRemoved
<1> HIDE DEF e
<1> QED
  BY <1>2, <1>3, <1>4, <1>5, TopicFollowed DEF IndexedClaimInv

-----------------------------------------------------------------------------
(* Claims.                                                                 *)

\* A change of one claim with its array, and of nothing else.
LEMMA OneClaimKeeps ==
    ASSUME ClaimsInv, NEW c \in ClaimIds, NEW d \in Data \cup {None},
           NEW list \in Seq(Issuers), IsInjective(list),
           Range(list) = {i \in Issuers : IF i = c[1] THEN d # None ELSE claims[<<i, c[2]>>] # None},
           claims' = [claims EXCEPT ![c] = d],
           claimsByTopic' = [claimsByTopic EXCEPT ![c[2]] = list]
    PROVE  ClaimsInv'
<1>1. c[1] \in Issuers /\ c[2] \in ClaimTopics /\ c = <<c[1], c[2]>>
  BY DEF ClaimIds
<1>2. /\ claims' \in [ClaimIds -> Data \cup {None}]
      /\ \A b \in ClaimIds : claims'[b] = IF b = c THEN d ELSE claims[b]
  BY DEF ClaimsInv
<1>3. /\ claimsByTopic' \in [ClaimTopics -> Seq(Issuers)]
      /\ \A t \in ClaimTopics : claimsByTopic'[t] = IF t = c[2] THEN list ELSE claimsByTopic[t]
  BY <1>1 DEF ClaimsInv
<1>4. \A i \in Issuers, t \in ClaimTopics :
         claims'[<<i, t>>] = IF i = c[1] /\ t = c[2] THEN d ELSE claims[<<i, t>>]
  BY <1>1, <1>2 DEF ClaimIds
<1>5. ASSUME NEW t \in ClaimTopics
      PROVE  /\ {claimsByTopic'[t][k] : k \in DOMAIN claimsByTopic'[t]}
                   = {i \in Issuers : claims'[<<i, t>>] # None}
             /\ \A j, k \in DOMAIN claimsByTopic'[t] :
                   claimsByTopic'[t][j] = claimsByTopic'[t][k] => j = k
  <2>1. CASE t = c[2]
    <3>1. claimsByTopic'[t] = list
      BY <1>3, <2>1
    <3>2. {i \in Issuers : claims'[<<i, t>>] # None} = Range(list)
      BY <1>4, <2>1
    <3> QED
      BY <3>1, <3>2 DEF Range, IsInjective
  <2>2. CASE t # c[2]
    <3>1. claimsByTopic'[t] = claimsByTopic[t]
      BY <1>3, <2>2
    <3>2. {i \in Issuers : claims'[<<i, t>>] # None} = {i \in Issuers : claims[<<i, t>>] # None}
      BY <1>4, <2>2
    <3> QED
      BY <3>1, <3>2 DEF ClaimsInv, ClaimsByTopicExact
  <2> QED
    BY <2>1, <2>2
<1> QED
  BY <1>2, <1>3, <1>5 DEF ClaimsInv, ClaimsByTopicExact

\* The array of a topic, as a set and without repetition.
LEMMA TopicArray ==
    ASSUME ClaimsInv, NEW c \in ClaimIds
    PROVE  /\ c[1] \in Issuers /\ c[2] \in ClaimTopics /\ c = <<c[1], c[2]>>
           /\ claimsByTopic[c[2]] \in Seq(Issuers)
           /\ IsInjective(claimsByTopic[c[2]])
           /\ Range(claimsByTopic[c[2]]) = {i \in Issuers : claims[<<i, c[2]>>] # None}
           /\ c[1] \in Range(claimsByTopic[c[2]]) <=> claims[c] # None
<1>1. c[1] \in Issuers /\ c[2] \in ClaimTopics /\ c = <<c[1], c[2]>>
  BY DEF ClaimIds
<1>2. /\ claimsByTopic[c[2]] \in Seq(Issuers)
      /\ IsInjective(claimsByTopic[c[2]])
      /\ Range(claimsByTopic[c[2]]) = {i \in Issuers : claims[<<i, c[2]>>] # None}
  BY <1>1 DEF ClaimsInv, ClaimsByTopicExact, IsInjective, Range
<1> QED
  BY <1>1, <1>2

\* A claim on an issuer and topic that has none is appended, any other replaced.
LEMMA AddClaimKeeps ==
    ASSUME ClaimsInv, NEW c \in ClaimIds, NEW d \in Data, AddClaim(c, d)
    PROVE  ClaimsInv'
<1> DEFINE old == claimsByTopic[c[2]]
           list == IF claims[c] # None THEN old ELSE Append(old, c[1])
<1>1. d \in Data \cup {None} /\ d # None
  OBVIOUS
<1>2. claims' = [claims EXCEPT ![c] = d] /\ claimsByTopic' = [claimsByTopic EXCEPT ![c[2]] = list]
  BY TopicArray DEF AddClaim, ClaimsInv
<1>3. /\ list \in Seq(Issuers) /\ IsInjective(list)
      /\ Range(list) = {i \in Issuers : IF i = c[1] THEN d # None ELSE claims[<<i, c[2]>>] # None}
  <2>1. CASE claims[c] # None
    BY <1>1, <2>1, TopicArray
  <2>2. CASE claims[c] = None
    <3>1. /\ Append(old, c[1]) \in Seq(Issuers) /\ IsInjective(Append(old, c[1]))
          /\ Range(Append(old, c[1])) = Range(old) \cup {c[1]}
      BY <2>2, TopicArray, AppendedFacts
    <3> QED
      BY <1>1, <2>2, <3>1, TopicArray
  <2> QED
    BY <2>1, <2>2
<1> HIDE DEF list
<1> QED
  BY <1>1, <1>2, <1>3, OneClaimKeeps

\* The search of a removal finds the claim, and takes nothing else off.
LEMMA RemoveClaimKeeps ==
    ASSUME ClaimsInv, NEW c \in ClaimIds, RemoveClaim(c)
    PROVE  ClaimsInv'
<1> DEFINE old == claimsByTopic[c[2]]
           list == RemovedFromList(old, c[1])
           gone == None
<1>1. claims[c] # None /\ gone \in Data \cup {None}
  BY DEF RemoveClaim
<1>2. claims' = [claims EXCEPT ![c] = gone] /\ claimsByTopic' = [claimsByTopic EXCEPT ![c[2]] = list]
  BY TopicArray DEF RemoveClaim, ClaimsInv
<1>3. /\ list \in Seq(Issuers) /\ IsInjective(list)
      /\ Range(list) = Range(old) \ {c[1]}
  BY <1>1, TopicArray, RemovedFromListFacts
<1>4. Range(list) = {i \in Issuers : IF i = c[1] THEN gone # None ELSE claims[<<i, c[2]>>] # None}
  BY <1>3, TopicArray
<1> HIDE DEF list, gone
<1> QED
  BY <1>1, <1>2, <1>3, <1>4, OneClaimKeeps

-----------------------------------------------------------------------------
(* The index of the claims.                                                *)

\* A decoded claim shows its data under the signature or raw.
LEMMA DecodedClaim ==
    ASSUME SchemeIndexInv, NEW e \in IdentityClaimEntities, NEW t \in Topics, NEW d \in Data
    PROVE  /\ DecodeClaimValues(e, t, d) \in IdentityClaimEntities
           /\ DecodeClaimValues(e, t, d).exists = e.exists
           /\ \E k \in ValueKeys : DecodeClaimValues(e, t, d).values[k] = d
<1> DEFINE s == FetchTopicScheme(t).signature
           key == IF <<s, d>> \in Decodable THEN s ELSE None
<1>1. key \in ValueKeys
  BY FetchedScheme DEF ValueKeys, TopicSchemeEntities
<1>2. FetchTopicScheme(t).named \in BOOLEAN
  BY FetchedScheme DEF TopicSchemeEntities
<1>3. DecodeClaimValues(e, t, d) =
         [e EXCEPT !.named = FetchTopicScheme(t).named, !.values[key] = d]
  BY DEF DecodeClaimValues
<1>4. e.values \in [ValueKeys -> Data \cup {None}]
  BY DEF IdentityClaimEntities
<1> HIDE DEF key
<1>5. /\ [e.values EXCEPT ![key] = d] \in [ValueKeys -> Data \cup {None}]
      /\ [e.values EXCEPT ![key] = d][key] = d
  BY <1>1, <1>4
<1>6. DecodeClaimValues(e, t, d) =
         [exists |-> e.exists, named |-> FetchTopicScheme(t).named, revoked |-> e.revoked,
          values |-> [e.values EXCEPT ![key] = d]]
  BY <1>3 DEF IdentityClaimEntities
<1> QED
  BY <1>1, <1>2, <1>5, <1>6 DEF IdentityClaimEntities

\* What one new entity of one claim must agree with.
LEMMA ClaimFollowed ==
    ASSUME ClaimIndexInv, NEW c \in ClaimIds, NEW e \in IdentityClaimEntities,
           identityClaims' = [identityClaims EXCEPT ![c] = e],
           \A b \in ClaimIds \ {c} : claims'[b] = claims[b],
           ~e.revoked /\ e.exists => claims'[c] # None,
           claims'[c] # None => e.exists /\ \E k \in ValueKeys : e.values[k] = claims'[c]
    PROVE  ClaimIndexInv'
<1>1. /\ identityClaims' \in [ClaimIds -> IdentityClaimEntities]
      /\ identityClaims'[c] = e
      /\ \A b \in ClaimIds : b # c => identityClaims'[b] = identityClaims[b]
  BY DEF ClaimIndexInv
<1> QED
  BY <1>1 DEF ClaimIndexInv, LiveEntityIsHeld, ClaimIsShown

\* An added claim, and the topic it names.
LEMMA IndexedAddClaimInv ==
    ASSUME IndexedClaimInv, NEW c \in ClaimIds, NEW d \in Data, IndexedAddClaim(c, d)
    PROVE  IndexedClaimInv'
<1> DEFINE e == DecodeClaimValues(FetchIdentityClaim(c), c[2], d)
           f == FetchTopicScheme(c[2])
<1>1. c[2] \in Topics
  BY DEF ClaimIds
<1>2. /\ claims' = [claims EXCEPT ![c] = d]
      /\ identityClaims' = [identityClaims EXCEPT ![c] = e]
      /\ topicSchemes' = [topicSchemes EXCEPT ![c[2]] = f]
      /\ UNCHANGED schemes /\ UNCHANGED topicIds
  BY DEF IndexedAddClaim, AddClaim, HandleClaimSet, schemeVars
<1>3. SchemesInv' /\ ClaimsInv'
  BY <1>2, AddClaimKeeps DEF IndexedClaimInv, SchemesInv, HasTopicScheme, IndexedAddClaim
<1>4. SchemeIndexInv'
  <2>1. /\ f \in TopicSchemeEntities /\ f.exists
        /\ schemes[c[2]] # None => f.named /\ f.signature = schemes[c[2]]
        /\ f.enabled /\ f.signature # None => schemes[c[2]] # None
    BY <1>1, FetchedScheme
    DEF IndexedClaimInv, SchemeIndexInv, SchemeIndexFollows, HasTopicScheme
  <2> HIDE DEF f
  <2> QED
    BY <1>1, <1>2, <2>1, TopicFollowed DEF IndexedClaimInv
<1>5. ClaimIndexInv'
  <2>1. /\ FetchIdentityClaim(c) \in IdentityClaimEntities
        /\ FetchIdentityClaim(c).exists = TRUE
    BY DEF FetchIdentityClaim, IndexedClaimInv, ClaimIndexInv, IdentityClaimEntities
  <2>2. /\ e \in IdentityClaimEntities /\ e.exists
        /\ \E k \in ValueKeys : e.values[k] = d
    BY <1>1, <2>1, DecodedClaim DEF IndexedClaimInv
  <2>3. claims'[c] = d /\ d # None /\ \A b \in ClaimIds \ {c} : claims'[b] = claims[b]
    BY <1>2 DEF IndexedClaimInv, ClaimsInv
  <2> HIDE DEF e
  <2> QED
    BY <1>2, <2>2, <2>3, ClaimFollowed DEF IndexedClaimInv
<1> QED
  BY <1>3, <1>4, <1>5 DEF IndexedClaimInv

\* A removed claim is revoked in the index.
LEMMA IndexedRemoveClaimInv ==
    ASSUME IndexedClaimInv, NEW c \in ClaimIds, IndexedRemoveClaim(c)
    PROVE  IndexedClaimInv'
<1> DEFINE e == [FetchIdentityClaim(c) EXCEPT !.revoked = TRUE]
<1>1. /\ claims' = [claims EXCEPT ![c] = None]
      /\ identityClaims' = [identityClaims EXCEPT ![c] = e]
      /\ UNCHANGED topicSchemes /\ UNCHANGED schemes /\ UNCHANGED topicIds
  BY DEF IndexedRemoveClaim, RemoveClaim, HandleClaimRemoved, schemeVars
<1>2. SchemesInv' /\ ClaimsInv' /\ SchemeIndexInv'
  BY <1>1, RemoveClaimKeeps
  DEF IndexedClaimInv, SchemesInv, SchemeIndexInv, SchemeIndexFollows, HasTopicScheme,
      IndexedRemoveClaim
<1>3. e \in IdentityClaimEntities /\ e.revoked
  BY DEF FetchIdentityClaim, IndexedClaimInv, ClaimIndexInv, IdentityClaimEntities
<1>4. claims'[c] = None /\ \A b \in ClaimIds \ {c} : claims'[b] = claims[b]
  BY <1>1 DEF IndexedClaimInv, ClaimsInv
<1> HIDE DEF e
<1>5. ClaimIndexInv'
  BY <1>1, <1>3, <1>4, ClaimFollowed DEF IndexedClaimInv
<1> QED
  BY <1>2, <1>5 DEF IndexedClaimInv

-----------------------------------------------------------------------------
(* The theorems.                                                           *)

\* Steps that touch no claim leave the claims and their index as they are.
LEMMA ClaimsUntouched ==
    ASSUME ClaimsInv, ClaimIndexInv, UNCHANGED <<claims, claimsByTopic, identityClaims>>
    PROVE  ClaimsInv' /\ ClaimIndexInv'
BY DEF ClaimsInv, ClaimsByTopicExact, ClaimIndexInv, LiveEntityIsHeld, ClaimIsShown

\* And the other way round.
LEMMA SchemesUntouched ==
    ASSUME SchemesInv, SchemeIndexInv, UNCHANGED <<schemes, topicIds, topicSchemes>>
    PROVE  SchemesInv' /\ SchemeIndexInv'
BY DEF SchemesInv, SchemeIndexInv, SchemeIndexFollows, HasTopicScheme

\* Schemes, claims and both indexes, through any transactions.
THEOREM IndexedClaimInvariant == IndexedClaimSpec => []IndexedClaimInv
<1>1. IndexedClaimInit => IndexedClaimInv
  <2> SUFFICES ASSUME IndexedClaimInit PROVE IndexedClaimInv
    OBVIOUS
  <2> USE DEF IndexedClaimInit, ClaimInit, SchemeInit
  <2>1. SchemesInv
    BY EmptyListFacts DEF SchemesInv, HasTopicScheme
  <2>2. ClaimsInv
    BY DEF ClaimsInv, ClaimsByTopicExact, ClaimIds
  <2>3. SchemeIndexInv
    BY DEF SchemeIndexInv, SchemeIndexFollows, HasTopicScheme, NoTopicScheme, TopicSchemeEntities
  <2>4. ClaimIndexInv
    <3>1. NoIdentityClaim \in IdentityClaimEntities /\ NoIdentityClaim.exists = FALSE
      BY DEF NoIdentityClaim, IdentityClaimEntities
    <3> QED
      BY <3>1 DEF ClaimIndexInv, LiveEntityIsHeld, ClaimIsShown
  <2> QED
    BY <2>1, <2>2, <2>3, <2>4 DEF IndexedClaimInv
<1>2. IndexedClaimInv /\ [IndexedClaimNext]_indexedClaimVars => IndexedClaimInv'
  <2> SUFFICES ASSUME IndexedClaimInv, [IndexedClaimNext]_indexedClaimVars
               PROVE  IndexedClaimInv'
    OBVIOUS
  <2>1. ASSUME NEW t \in Topics, NEW s \in Signatures,
               IndexedRegisterScheme(t, s) \/ IndexedUpdateScheme(t, s)
        PROVE  IndexedClaimInv'
    BY <2>1, RegisterSchemeInv, UpdateSchemeInv, ClaimsUntouched
    DEF IndexedClaimInv, IndexedRegisterScheme, IndexedUpdateScheme, claimVars
  <2>2. ASSUME NEW t1 \in Topics, NEW t2 \in Topics, NEW z1 \in Signatures, NEW z2 \in Signatures,
               IndexedBatchRegisterSchemes(t1, t2, z1, z2)
        PROVE  IndexedClaimInv'
    BY <2>2, BatchRegisterSchemesInv, ClaimsUntouched
    DEF IndexedClaimInv, IndexedBatchRegisterSchemes, claimVars
  <2>3. ASSUME NEW t \in Topics, IndexedRemoveScheme(t)
        PROVE  IndexedClaimInv'
    BY <2>3, RemoveSchemeInv, ClaimsUntouched
    DEF IndexedClaimInv, IndexedRemoveScheme, claimVars
  <2>4. ASSUME NEW c \in ClaimIds, NEW d \in Data, IndexedRevoke(c, d)
        PROVE  IndexedClaimInv'
    BY <2>4, SchemesUntouched, ClaimsUntouched
    DEF IndexedClaimInv, IndexedRevoke, RevokeClaimBySignature, schemeVars, claimIndexVars
  <2>5. CASE UNCHANGED indexedClaimVars
    BY <2>5, SchemesUntouched, ClaimsUntouched
    DEF IndexedClaimInv, indexedClaimVars, schemeVars, claimVars, claimIndexVars
  <2> QED
    BY <2>1, <2>2, <2>3, <2>4, <2>5, IndexedAddClaimInv, IndexedRemoveClaimInv
    DEF IndexedClaimNext
<1> QED
  BY <1>1, <1>2, PTL DEF IndexedClaimSpec

\* The array of each topic lists exactly the claims on it.
THEOREM ClaimArraysExact == IndexedClaimSpec => []ClaimsByTopicExact
<1>1. IndexedClaimInv => ClaimsByTopicExact
  BY DEF IndexedClaimInv, ClaimsInv
<1> QED
  BY <1>1, IndexedClaimInvariant, PTL

\* Claims of a registered topic are decoded by its present signature.
THEOREM SchemeIndexFollowsAlways == IndexedClaimSpec => []SchemeIndexFollows
<1>1. IndexedClaimInv => SchemeIndexFollows
  BY DEF IndexedClaimInv, SchemeIndexInv
<1> QED
  BY <1>1, IndexedClaimInvariant, PTL

\* No removed claim is shown as live.
THEOREM LiveEntitiesAreHeld == IndexedClaimSpec => []LiveEntityIsHeld
<1>1. IndexedClaimInv => LiveEntityIsHeld
  BY DEF IndexedClaimInv, ClaimIndexInv
<1> QED
  BY <1>1, IndexedClaimInvariant, PTL

\* Every claim that makes an investor eligible can be seen in the index, with
\* the data it has now.
THEOREM VerifiedClaimsAreShown == IndexedClaimSpec => []VerifiedClaimIsShown
<1>1. ASSUME IndexedClaimInv, NEW t \in ClaimTopics, NEW i \in Issuers \ {Self},
             Counted(i, t)
      PROVE  /\ identityClaims[<<i, t>>].exists
             /\ \E k \in ValueKeys : identityClaims[<<i, t>>].values[k] = claims[<<i, t>>]
  <2>1. <<i, t>> \in ClaimIds
    BY DEF ClaimIds
  <2>2. ClaimIsShown(<<i, t>>)
    BY <1>1, <2>1 DEF IndexedClaimInv, ClaimIndexInv
  <2>3. claims[<<i, t>>] # None
    BY <1>1 DEF Counted
  <2> QED
    BY <2>2, <2>3 DEF ClaimIsShown
<1>2. IndexedClaimInv => VerifiedClaimIsShown
  BY <1>1 DEF VerifiedClaimIsShown
<1> QED
  BY <1>2, IndexedClaimInvariant, PTL
=============================================================================
