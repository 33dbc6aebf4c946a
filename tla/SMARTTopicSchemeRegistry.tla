---------------------- MODULE SMARTTopicSchemeRegistry ----------------------
(***************************************************************************)
(* The registry of topic schemes: for each claim topic, whose id is the    *)
(* hash of its name, the signature that the data of its claims is encoded  *)
(* by, and the enumerable list of the registered topics.  A registrar runs *)
(* every transaction.                                                      *)
(***************************************************************************)
EXTENDS IndexedList

CONSTANTS
    Topics,         \* topic names, and so topic ids
    Signatures,     \* ABI signatures
    None            \* the empty signature of a struct that does not exist

ASSUME SchemeAssumption == None \notin Signatures

VARIABLES
    schemes,        \* _topicSchemes: the signature, None while exists is false
    topicIds        \* _topicIds with _topicIdIndex

schemeVars == <<schemes, topicIds>>

SchemeInit ==
    /\ schemes = [t \in Topics |-> None]
    /\ topicIds = EmptyList(Topics)

HasTopicScheme(t) == schemes[t] # None

RegisterTopicScheme(t, s) ==
    /\ ~HasTopicScheme(t)
    /\ schemes' = [schemes EXCEPT ![t] = s]
    /\ topicIds' = PushItem(topicIds, t)

\* A batch of two; a repeated topic reverts it.
BatchRegisterTopicSchemes(t1, t2, s1, s2) ==
    /\ t1 # t2
    /\ ~HasTopicScheme(t1)
    /\ ~HasTopicScheme(t2)
    /\ schemes' = [schemes EXCEPT ![t1] = s1, ![t2] = s2]
    /\ topicIds' = PushItem(PushItem(topicIds, t1), t2)

UpdateTopicScheme(t, s) ==
    /\ HasTopicScheme(t)
    /\ schemes[t] # s
    /\ schemes' = [schemes EXCEPT ![t] = s]
    /\ UNCHANGED topicIds

RemoveTopicScheme(t) ==
    /\ HasTopicScheme(t)
    /\ t \in Members(topicIds)
    /\ topicIds' = SwapAndPop(topicIds, t)
    /\ schemes' = [schemes EXCEPT ![t] = None]
=============================================================================
