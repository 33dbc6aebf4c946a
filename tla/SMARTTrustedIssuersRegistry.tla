--------------------- MODULE SMARTTrustedIssuersRegistry ---------------------
(***************************************************************************)
(* The registry of the issuers whose claims count, and for which topics.   *)
(* It says the same thing three times: the topics of each issuer, the      *)
(* array of issuers of each topic and, beside it, the position of each     *)
(* issuer in that array, which hasClaimTopic reads.  A caller gives topics *)
(* as a sequence and nothing stops it from repeating one: the issuer is    *)
(* then twice in the array of the topic and its position is the second.    *)
(***************************************************************************)
EXTENDS IndexedList, FiniteSets, Functions

CONSTANTS
    Issuers,        \* claim issuer contracts
    None,           \* the zero address
    Topics,         \* claim topics
    MaxTopics       \* bound on the length of the topics given in a call

ASSUME IssuersAssumption ==
    /\ None \notin Issuers
    /\ MaxTopics \in Nat \ {0}

VARIABLES
    trusted,                \* the issuers whose record exists
    claimTopics,            \* claimTopics of each issuer's record
    issuerAddresses,        \* _issuerAddresses
    issuersByClaimTopic     \* _issuersByClaimTopic with _claimTopicIssuerIndex

issuersVars == <<trusted, claimTopics, issuerAddresses, issuersByClaimTopic>>

IssuersInit ==
    /\ trusted = {}
    /\ claimTopics = [i \in Issuers |-> << >>]
    /\ issuerAddresses = << >>
    /\ issuersByClaimTopic = [t \in Topics |-> EmptyList(Issuers)]

-----------------------------------------------------------------------------
(* Reads.                                                                  *)

HasClaimTopic(i, t) == issuersByClaimTopic[t].index[i] > 0

TrustedIssuersFor(t) == Members(issuersByClaimTopic[t])

-----------------------------------------------------------------------------
(* Writes on the arrays.                                                   *)

Times(topics, t) == Cardinality({k \in DOMAIN topics : topics[k] = t})

\* n pushes of one issuer, of which the index remembers the last.
PushTimes(l, i, n) ==
    [items |-> l.items \o [k \in 1 .. n |-> i],
     index |-> IF n = 0 THEN l.index ELSE [l.index EXCEPT ![i] = Len(l.items) + n]]

\* _addIssuerToClaimTopic for every topic given.
AddedToTopics(lists, i, topics) ==
    [t \in Topics |-> PushTimes(lists[t], i, Times(topics, t))]

\* The first removal from a topic clears the position, so the second finds
\* none and reverts the transaction.
CanRemoveFromTopics(lists, i, topics) ==
    /\ \A t \in Range(topics) : lists[t].index[i] # 0
    /\ IsInjective(topics)

\* _removeIssuerFromClaimTopic for every topic of the record.
RemovedFromTopics(lists, i, topics) ==
    [t \in Topics |-> IF t \in Range(topics) THEN SwapAndPop(lists[t], i) ELSE lists[t]]

-----------------------------------------------------------------------------
(* Transactions of the registrar.                                          *)

AddTrustedIssuer(i, topics) ==
    /\ i # None
    /\ topics # << >>
    /\ i \notin trusted
    /\ trusted' = trusted \cup {i}
    /\ claimTopics' = [claimTopics EXCEPT ![i] = topics]
    /\ issuerAddresses' = Append(issuerAddresses, i)
    /\ issuersByClaimTopic' = AddedToTopics(issuersByClaimTopic, i, topics)

CanRemoveTrustedIssuer(i) ==
    /\ i \in trusted
    /\ CanRemoveFromTopics(issuersByClaimTopic, i, claimTopics[i])

RemoveTrustedIssuer(i) ==
    /\ CanRemoveTrustedIssuer(i)
    /\ trusted' = trusted \ {i}
    /\ claimTopics' = [claimTopics EXCEPT ![i] = << >>]
    /\ issuerAddresses' = RemovedFromList(issuerAddresses, i)
    /\ issuersByClaimTopic' = RemovedFromTopics(issuersByClaimTopic, i, claimTopics[i])

\* Mutant: the new topics are added to the old ones.
UpdateWithoutRemoval(i, topics) ==
    /\ topics # << >>
    /\ i \in trusted
    /\ issuersByClaimTopic' = AddedToTopics(issuersByClaimTopic, i, topics)
    /\ claimTopics' = [claimTopics EXCEPT ![i] = topics]
    /\ UNCHANGED <<trusted, issuerAddresses>>

\* Mutant: the new topics are added before the old ones are removed.
UpdateAddingFirst(i, topics) ==
    /\ topics # << >>
    /\ i \in trusted
    /\ CanRemoveFromTopics(issuersByClaimTopic, i, claimTopics[i])
    /\ LET added == AddedToTopics(issuersByClaimTopic, i, topics)
       IN issuersByClaimTopic' = RemovedFromTopics(added, i, claimTopics[i])
    /\ claimTopics' = [claimTopics EXCEPT ![i] = topics]
    /\ UNCHANGED <<trusted, issuerAddresses>>

UpdateIssuerClaimTopics(i, topics) ==
    /\ topics # << >>
    /\ i \in trusted
    /\ CanRemoveFromTopics(issuersByClaimTopic, i, claimTopics[i])
    /\ LET removed == RemovedFromTopics(issuersByClaimTopic, i, claimTopics[i])
       IN issuersByClaimTopic' = AddedToTopics(removed, i, topics)
    /\ claimTopics' = [claimTopics EXCEPT ![i] = topics]
    /\ UNCHANGED <<trusted, issuerAddresses>>

IssuersNext ==
    \E i \in Issuers \cup {None} :
        \/ RemoveTrustedIssuer(i)
        \/ \E n \in 0 .. MaxTopics : \E topics \in [1 .. n -> Topics] :
              AddTrustedIssuer(i, topics) \/ UpdateIssuerClaimTopics(i, topics)

IssuersSpec == IssuersInit /\ [][IssuersNext]_issuersVars

-----------------------------------------------------------------------------
(* Properties.                                                             *)

\* The three ways of asking agree: the topics of an issuer's record, its
\* occurrence in the array of a topic and hasClaimTopic.  isVerified trusts the
\* second, a claim's issuer may be asked by the third.  And a stored position
\* is one at which the issuer stands: a removal never overwrites another
\* issuer, even beside one that is listed twice.
TrustAgrees ==
    \A i \in Issuers, t \in Topics :
        /\ HasClaimTopic(i, t) <=> t \in Range(claimTopics[i])
        /\ i \in TrustedIssuersFor(t) <=> t \in Range(claimTopics[i])
        /\ LET l == issuersByClaimTopic[t]
           IN l.index[i] # 0 => l.index[i] \in DOMAIN l.items /\ l.items[l.index[i]] = i

\* An issuer whose topics were given once each can be removed, whatever was
\* done to others that share its topics, those stuck by a repeated topic
\* included.
DistinctTopicsRemovable ==
    \A i \in trusted : IsInjective(claimTopics[i]) => CanRemoveTrustedIssuer(i)

\* "Removes an existing trusted issuer from the registry. This revokes their
\* trusted status for all previously associated claim topics": an existing
\* issuer can be removed.
TrustedIssuerIsRemovable == \A i \in trusted : CanRemoveTrustedIssuer(i)
=============================================================================
