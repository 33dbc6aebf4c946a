------------------------ MODULE SMARTIdentityClaims ------------------------
(***************************************************************************)
(* The claims an identity holds (ERC735), beside the topic schemes they    *)
(* refer to.  A claim is found by its issuer and topic, so a second one of *)
(* the same issuer on the same topic replaces the first; each topic also   *)
(* has an array of its claims.  The issuer revokes by signature, in its    *)
(* own contract: the claim stays where it is and stops being valid.        *)
(*                                                                         *)
(* An issuer's signature covers the identity, the topic and the data, and  *)
(* issuers sign deterministically: the data stands for the signature.      *)
(***************************************************************************)
EXTENDS SMARTTopicSchemeRegistry, FiniteSets

CONSTANTS
    Issuers,        \* identities that issue claims on the identity
    Self,           \* the identity itself, which needs nobody's signature
    ClaimTopics,    \* the topics claims are issued on, a bound on the instance
    Data,           \* contents of claims
    MaxRevoked      \* bound on the number of revocations

ASSUME ClaimAssumption ==
    /\ None \notin Data
    /\ ClaimTopics \subseteq Topics
    /\ MaxRevoked \in Nat

VARIABLES
    claims,             \* _claims by issuer and topic: the data, None if deleted
    claimsByTopic,      \* _claimsByTopic
    revokedClaims       \* of every issuer: the signatures it revoked

claimVars == <<claims, claimsByTopic, revokedClaims>>

ClaimIds == Issuers \X ClaimTopics

ClaimInit ==
    /\ SchemeInit
    /\ claims = [c \in ClaimIds |-> None]
    /\ claimsByTopic = [t \in ClaimTopics |-> << >>]
    /\ revokedClaims = {}

-----------------------------------------------------------------------------
IsClaimValid(c, d) == <<c, d>> \notin revokedClaims

\* Mutant: a claim is new when its data differ.
AddClaimOnNewData(c, d) ==
    /\ c[1] # Self => IsClaimValid(c, d)
    /\ claims' = [claims EXCEPT ![c] = d]
    /\ claimsByTopic' = IF claims[c] = d THEN claimsByTopic
                        ELSE [claimsByTopic EXCEPT ![c[2]] = Append(@, c[1])]
    /\ UNCHANGED revokedClaims

\* ClaimAdded if the id had no issuer, ClaimChanged if it had.
AddClaim(c, d) ==
    /\ c[1] # Self => IsClaimValid(c, d)
    /\ claims' = [claims EXCEPT ![c] = d]
    /\ claimsByTopic' = IF claims[c] # None THEN claimsByTopic
                        ELSE [claimsByTopic EXCEPT ![c[2]] = Append(@, c[1])]
    /\ UNCHANGED revokedClaims

RemoveClaim(c) ==
    /\ claims[c] # None
    /\ claimsByTopic' = [claimsByTopic EXCEPT ![c[2]] = RemovedFromList(@, c[1])]
    /\ claims' = [claims EXCEPT ![c] = None]
    /\ UNCHANGED revokedClaims

RevokeClaimBySignature(c, d) ==
    /\ Cardinality(revokedClaims) < MaxRevoked
    /\ <<c, d>> \notin revokedClaims
    /\ revokedClaims' = revokedClaims \cup {<<c, d>>}
    /\ UNCHANGED <<claims, claimsByTopic>>

-----------------------------------------------------------------------------
\* A claim that isVerified counts, its issuer being trusted for the topic: the
\* identity holds it now and its issuer, not the identity itself, stands by it.
Counted(i, t) ==
    claims[<<i, t>>] # None /\ IsClaimValid(<<i, t>>, claims[<<i, t>>])

\* What isVerified asks of one required topic, every other issuer trusted.
TopicVerified(t) ==
    /\ HasTopicScheme(t)
    /\ \E i \in Issuers \ {Self} : Counted(i, t)

\* The array of each topic lists exactly the identity's claims on it, each
\* once, through additions, replacements by the same issuer and removals: an
\* entry too many would outlive its claim, one too few would make the removal
\* revert for ever.
ClaimsByTopicExact ==
    \A t \in ClaimTopics :
        LET list == claimsByTopic[t]
        IN /\ {list[k] : k \in DOMAIN list} = {i \in Issuers : claims[<<i, t>>] # None}
           /\ \A j, k \in DOMAIN list : list[j] = list[k] => j = k
=============================================================================
