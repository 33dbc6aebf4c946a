------------------------- MODULE SMARTIdentityProofs -------------------------
(***************************************************************************)
(* The keys and executions of an identity, for any accounts and any number *)
(* of executions.  The two records of the keys stay each other's mirror    *)
(* because each names nobody twice: the linear search of a removal then    *)
(* finds the only entry there is.                                          *)
(***************************************************************************)
EXTENDS SMARTIdentity, DataLemmas

KeysInv ==
    /\ purposes \in [Keys -> Seq(Purposes)]
    /\ keysByPurpose \in [Purposes -> Seq(Keys)]
    /\ KeysAgree

ExecutionsInv ==
    /\ executions \in Seq(Executions)
    /\ Len(executions) <= MaxExecutions
    /\ performed \in [1 .. MaxExecutions -> Nat]
    /\ PerformedOnce

IdentityInv == KeysInv /\ ExecutionsInv

USE IdentityAssumption

-----------------------------------------------------------------------------
(* Keys.                                                                   *)

\* A change of one key and one purpose that adds or removes the pair on both
\* sides keeps them each other's mirror.
LEMMA MirrorKept ==
    ASSUME KeysInv, NEW k \in Keys, NEW p \in Purposes,
           NEW ps \in Seq(Purposes), NEW ks \in Seq(Keys),
           IsInjective(ps), IsInjective(ks),
           \A q \in Purposes : q # p => (q \in Range(ps) <=> q \in Range(purposes[k])),
           \A j \in Keys : j # k => (j \in Range(ks) <=> j \in Range(keysByPurpose[p])),
           p \in Range(ps) <=> k \in Range(ks),
           purposes' = [purposes EXCEPT ![k] = ps],
           keysByPurpose' = [keysByPurpose EXCEPT ![p] = ks]
    PROVE  KeysInv'
<1>1. /\ purposes' \in [Keys -> Seq(Purposes)]
      /\ purposes'[k] = ps
      /\ \A j \in Keys : j # k => purposes'[j] = purposes[j]
  BY DEF KeysInv
<1>2. /\ keysByPurpose' \in [Purposes -> Seq(Keys)]
      /\ keysByPurpose'[p] = ks
      /\ \A q \in Purposes : q # p => keysByPurpose'[q] = keysByPurpose[q]
  BY DEF KeysInv
<1>3. \A j \in Keys : IsInjective(purposes'[j])
  BY <1>1 DEF KeysInv, KeysAgree
<1>4. \A q \in Purposes : IsInjective(keysByPurpose'[q])
  BY <1>2 DEF KeysInv, KeysAgree
<1>5. ASSUME NEW q \in Purposes
      PROVE  Range(keysByPurpose'[q]) = {j \in Keys : q \in Range(purposes'[j])}
  <2>1. Range(keysByPurpose[q]) = {j \in Keys : q \in Range(purposes[j])}
    BY DEF KeysInv, KeysAgree
  <2>2. Range(keysByPurpose'[q]) \subseteq Keys
    <3> DEFINE list == keysByPurpose'[q]
    <3>1. list \in Seq(Keys) /\ DOMAIN list = 1 .. Len(list)
      BY <1>2
    <3> QED
      BY <3>1 DEF Range
  <2>3. CASE q = p
    BY <1>1, <1>2, <2>1, <2>2, <2>3
  <2>4. CASE q # p
    BY <1>1, <1>2, <2>1, <2>4
  <2> QED
    BY <2>3, <2>4
<1> QED
  BY <1>1, <1>2, <1>3, <1>4, <1>5 DEF KeysInv, KeysAgree

\* A key that is added for a purpose enters both lists.
LEMMA KeyAddedKeeps ==
    ASSUME KeysInv, NEW k \in Keys, NEW p \in Purposes, CanAddKey(k, p), KeyAdded(k, p)
    PROVE  KeysInv'
<1> DEFINE ps == Append(purposes[k], p)
           ks == Append(keysByPurpose[p], k)
<1>1. /\ purposes[k] \in Seq(Purposes) /\ IsInjective(purposes[k])
      /\ keysByPurpose[p] \in Seq(Keys) /\ IsInjective(keysByPurpose[p])
      /\ p \notin Range(purposes[k]) /\ k \notin Range(keysByPurpose[p])
  BY DEF KeysInv, KeysAgree, CanAddKey
<1>2. /\ ps \in Seq(Purposes) /\ IsInjective(ps)
      /\ Range(ps) = Range(purposes[k]) \cup {p}
  BY <1>1, AppendedFacts
<1>3. /\ ks \in Seq(Keys) /\ IsInjective(ks)
      /\ Range(ks) = Range(keysByPurpose[p]) \cup {k}
  BY <1>1, AppendedFacts
<1>4. /\ purposes' = [purposes EXCEPT ![k] = ps]
      /\ keysByPurpose' = [keysByPurpose EXCEPT ![p] = ks]
  BY DEF KeyAdded, KeysInv
<1> HIDE DEF ps, ks
<1> QED
  BY <1>2, <1>3, <1>4, MirrorKept

\* A key that is removed from a purpose leaves both lists.
LEMMA KeyRemovedKeeps ==
    ASSUME KeysInv, NEW k \in Keys, NEW p \in Purposes, CanRemoveKey(k, p), KeyRemoved(k, p)
    PROVE  KeysInv'
<1> DEFINE ps == RemovedFromList(purposes[k], p)
           ks == RemovedFromList(keysByPurpose[p], k)
<1>1. /\ purposes[k] \in Seq(Purposes) /\ IsInjective(purposes[k])
      /\ keysByPurpose[p] \in Seq(Keys) /\ IsInjective(keysByPurpose[p])
      /\ p \in Range(purposes[k]) /\ k \in Range(keysByPurpose[p])
  BY DEF KeysInv, KeysAgree, CanRemoveKey
<1>2. /\ ps \in Seq(Purposes) /\ IsInjective(ps)
      /\ Range(ps) = Range(purposes[k]) \ {p}
  BY <1>1, RemovedFromListFacts
<1>3. /\ ks \in Seq(Keys) /\ IsInjective(ks)
      /\ Range(ks) = Range(keysByPurpose[p]) \ {k}
  BY <1>1, RemovedFromListFacts
<1>4. /\ purposes' = [purposes EXCEPT ![k] = ps]
      /\ keysByPurpose' = [keysByPurpose EXCEPT ![p] = ks]
  BY DEF KeyRemoved, KeysInv
<1> HIDE DEF ps, ks
<1> QED
  BY <1>2, <1>3, <1>4, MirrorKept

\* While no key changes both lists go on agreeing.
LEMMA KeysUnchangedKeep ==
    ASSUME KeysInv, UNCHANGED keyVars
    PROVE  KeysInv'
BY DEF KeysInv, KeysAgree, keyVars

\* The calls of an identity to itself.
LEMMA KeyCalls ==
    ASSUME NEW call \in Calls, call.op \in {"addKey", "removeKey"}
    PROVE  call.key \in Keys /\ call.purpose \in Purposes
BY DEF Calls

\* A call of an execution, performed or failed, keeps both lists in agreement.
LEMMA CallKeeps ==
    ASSUME KeysInv, NEW call \in Calls, Succeeds(call) \/ Fails(call)
    PROVE  KeysInv'
BY KeyCalls, KeyAddedKeeps, KeyRemovedKeeps, KeysUnchangedKeep DEF Succeeds, Fails

-----------------------------------------------------------------------------
(* Executions.                                                             *)

\* An approved execution, recorded already or just requested, is performed
\* once, or fails and stays as it is.
LEMMA PerformKeeps ==
    ASSUME IdentityInv, NEW es \in Seq(Executions), NEW id \in DOMAIN es,
           Len(es) <= MaxExecutions, DOMAIN executions \subseteq DOMAIN es,
           ~es[id].executed,
           \A j \in DOMAIN es : IF j \in DOMAIN executions THEN es[j] = executions[j]
                                ELSE ~es[j].executed,
           Perform(es, id)
    PROVE  IdentityInv'
<1>1. /\ DOMAIN es = 1 .. Len(es) /\ Len(es) \in Nat
      /\ id \in 1 .. MaxExecutions
      /\ es[id] \in Executions
      /\ \A j \in DOMAIN es : es[j] \in Executions
  OBVIOUS
<1>2. KeysInv'
  <2>1. es[id].call \in Calls
    BY <1>1 DEF Executions
  <2>2. Succeeds(es[id].call) \/ Fails(es[id].call)
    BY DEF Perform
  <2> QED
    BY <2>1, <2>2, CallKeeps DEF IdentityInv
<1>3. /\ performed[id] = 0
      /\ \A j \in 1 .. MaxExecutions :
            performed[j] = IF j \in DOMAIN es /\ es[j].executed THEN 1 ELSE 0
  BY <1>1 DEF IdentityInv, ExecutionsInv, PerformedOnce
<1>4. CASE /\ executions' = [es EXCEPT ![id].approved = TRUE, ![id].executed = TRUE]
           /\ performed' = [performed EXCEPT ![id] = @ + 1]
  <2>1. /\ executions' \in Seq(Executions) /\ Len(executions') = Len(es)
        /\ DOMAIN executions' = DOMAIN es
        /\ executions'[id].executed = TRUE
        /\ \A j \in DOMAIN es : j # id => executions'[j] = es[j]
    <3> DEFINE e == [es[id] EXCEPT !.approved = TRUE, !.executed = TRUE]
    <3>1. e \in Executions /\ e.executed = TRUE
      BY <1>1 DEF Executions
    <3>2. executions' = [es EXCEPT ![id] = e]
      BY <1>1, <1>4 DEF Executions
    <3> HIDE DEF e
    <3> QED
      BY <1>1, <3>1, <3>2
  <2>2. /\ performed' \in [1 .. MaxExecutions -> Nat]
        /\ performed'[id] = 1
        /\ \A j \in 1 .. MaxExecutions : j # id => performed'[j] = performed[j]
    BY <1>1, <1>3, <1>4 DEF IdentityInv, ExecutionsInv
  <2>3. PerformedOnce'
    BY <1>1, <1>3, <2>1, <2>2 DEF PerformedOnce
  <2> QED
    BY <1>2, <2>1, <2>2, <2>3 DEF IdentityInv, ExecutionsInv
<1>5. CASE /\ executions' = [es EXCEPT ![id].approved = TRUE]
           /\ UNCHANGED performed
  <2>1. /\ executions' \in Seq(Executions) /\ Len(executions') = Len(es)
        /\ DOMAIN executions' = DOMAIN es
        /\ \A j \in DOMAIN es : executions'[j].executed = es[j].executed
    <3> DEFINE e == [es[id] EXCEPT !.approved = TRUE]
    <3>1. e \in Executions /\ e.executed = es[id].executed
      BY <1>1 DEF Executions
    <3>2. executions' = [es EXCEPT ![id] = e]
      BY <1>1, <1>5 DEF Executions
    <3> HIDE DEF e
    <3> QED
      BY <1>1, <3>1, <3>2
  <2>2. PerformedOnce'
    BY <1>3, <1>5, <2>1 DEF PerformedOnce
  <2> QED
    BY <1>2, <1>5, <2>1, <2>2 DEF IdentityInv, ExecutionsInv
<1> QED
  BY <1>4, <1>5 DEF Perform

\* An approval by a key, performed, failed or repeated, keeps the invariant.
LEMMA ApproveInv ==
    ASSUME IdentityInv, NEW s \in Accounts, NEW id \in 1 .. MaxExecutions, Approve(s, id)
    PROVE  IdentityInv'
BY PerformKeeps DEF Approve, IdentityInv, ExecutionsInv

\* So does taking an approval back.
LEMMA DisapproveInv ==
    ASSUME IdentityInv, NEW s \in Accounts, NEW id \in 1 .. MaxExecutions, Disapprove(s, id)
    PROVE  IdentityInv'
<1>1. /\ executions \in Seq(Executions) /\ id \in DOMAIN executions
      /\ executions' = [executions EXCEPT ![id].approved = FALSE]
      /\ UNCHANGED performed /\ UNCHANGED keyVars
  BY DEF Disapprove, IdentityInv, ExecutionsInv
<1>2. /\ executions' \in Seq(Executions) /\ Len(executions') = Len(executions)
      /\ DOMAIN executions' = DOMAIN executions
      /\ \A j \in DOMAIN executions : executions'[j].executed = executions[j].executed
  <2> DEFINE e == [executions[id] EXCEPT !.approved = FALSE]
  <2>1. /\ executions \in Seq(Executions) /\ id \in DOMAIN executions
        /\ executions[id] \in Executions
    BY <1>1
  <2>2. e \in Executions /\ e.executed = executions[id].executed
    BY <2>1 DEF Executions
  <2>3. executions' = [executions EXCEPT ![id] = e]
    BY <1>1, <2>1 DEF Executions
  <2> HIDE DEF e
  <2> QED
    BY <2>1, <2>2, <2>3
<1>3. PerformedOnce'
  BY <1>1, <1>2 DEF IdentityInv, ExecutionsInv, PerformedOnce
<1> QED
  BY <1>1, <1>2, <1>3, KeysUnchangedKeep DEF IdentityInv, ExecutionsInv

\* A request is recorded after the others, neither approved nor executed.
LEMMA RequestedFacts ==
    ASSUME IdentityInv, NEW call \in Calls, Len(executions) < MaxExecutions
    PROVE  /\ Requested(call) \in Seq(Executions)
           /\ Len(Requested(call)) = Len(executions) + 1
           /\ DOMAIN executions \subseteq DOMAIN Requested(call)
           /\ Len(executions) + 1 \in DOMAIN Requested(call)
           /\ Requested(call)[Len(executions) + 1].call = call
           /\ \A j \in DOMAIN Requested(call) :
                 IF j \in DOMAIN executions THEN Requested(call)[j] = executions[j]
                 ELSE j = Len(executions) + 1 /\ ~Requested(call)[j].executed
<1> DEFINE e == [call |-> call, approved |-> FALSE, executed |-> FALSE]
<1>1. e \in Executions /\ e.call = call /\ e.executed = FALSE
  BY DEF Executions
<1>2. Requested(call) = Append(executions, e) /\ executions \in Seq(Executions)
  BY DEF Requested, IdentityInv, ExecutionsInv
<1> HIDE DEF e
<1> QED
  BY <1>1, <1>2

\* So does a request, whether or not it is approved automatically.
LEMMA ExecuteInv ==
    ASSUME IdentityInv, NEW s \in Accounts, NEW call \in Calls, Execute(s, call)
    PROVE  IdentityInv'
<1> DEFINE es == Requested(call)
           id == Len(executions) + 1
<1>1. Len(executions) < MaxExecutions
  BY DEF Execute
<1>2. /\ es \in Seq(Executions) /\ Len(es) = id
      /\ DOMAIN executions \subseteq DOMAIN es /\ id \in DOMAIN es
      /\ \A j \in DOMAIN es : IF j \in DOMAIN executions THEN es[j] = executions[j]
                              ELSE ~es[j].executed
  BY <1>1, RequestedFacts
<1>3. /\ executions \in Seq(Executions) /\ id <= MaxExecutions /\ id \notin DOMAIN executions
      /\ Len(executions) \in Nat
  BY <1>1 DEF IdentityInv, ExecutionsInv
<1> HIDE DEF es
<1>4. CASE AutoApproved(s, call)
  <2>1. Perform(es, id)
    BY <1>4 DEF Execute, es
  <2> HIDE DEF id
  <2> QED
    BY <1>2, <1>3, <2>1, PerformKeeps
<1>5. CASE ~AutoApproved(s, call)
  <2>1. executions' = es /\ UNCHANGED keyVars /\ UNCHANGED performed
    BY <1>5 DEF Execute, es
  <2>2. PerformedOnce'
    BY <1>2, <2>1 DEF IdentityInv, ExecutionsInv, PerformedOnce
  <2> QED
    BY <1>2, <1>3, <2>1, <2>2, KeysUnchangedKeep DEF IdentityInv, ExecutionsInv
<1> QED
  BY <1>4, <1>5

-----------------------------------------------------------------------------
(* The theorems.                                                           *)

\* Whatever managers and executions do to the keys, and however executions are
\* approved, retried and disapproved.
THEOREM IdentityInvariant == IdentitySpec => []IdentityInv
<1>1. IdentityInit => IdentityInv
  <2> SUFFICES ASSUME IdentityInit PROVE IdentityInv
    OBVIOUS
  <2>1. Owner \in Keys /\ MANAGEMENT_KEY_PURPOSE \in Purposes
    BY DEF Keys, Purposes
  <2>2. KeysInv
    BY <2>1 DEF IdentityInit, KeysInv, KeysAgree, IsInjective, Range
  <2>3. ExecutionsInv
    BY DEF IdentityInit, ExecutionsInv, PerformedOnce
  <2> QED
    BY <2>2, <2>3 DEF IdentityInv
<1>2. IdentityInv /\ [IdentityNext]_identityVars => IdentityInv'
  <2> SUFFICES ASSUME IdentityInv, [IdentityNext]_identityVars PROVE IdentityInv'
    OBVIOUS
  <2>1. ASSUME NEW s \in Accounts, NEW k \in Keys \cup {None}, NEW p \in Purposes,
               AddKey(s, k, p) \/ RemoveKey(s, k, p)
        PROVE  IdentityInv'
    <3>1. k \in Keys /\ KeysInv'
      BY <2>1, KeyAddedKeeps, KeyRemovedKeeps
      DEF AddKey, RemoveKey, CanAddKey, CanRemoveKey, IdentityInv
    <3> QED
      BY <2>1, <3>1 DEF AddKey, RemoveKey, IdentityInv, ExecutionsInv, PerformedOnce
  <2>2. CASE UNCHANGED identityVars
    BY <2>2, KeysUnchangedKeep DEF identityVars, IdentityInv, ExecutionsInv, PerformedOnce
  <2> QED
    BY <2>1, <2>2, ApproveInv, DisapproveInv, ExecuteInv DEF IdentityNext
<1> QED
  BY <1>1, <1>2, PTL DEF IdentitySpec

\* The purposes of a key and the keys of a purpose say the same.
THEOREM KeysAgreeAlways == IdentitySpec => []KeysAgree
<1>1. IdentityInv => KeysAgree
  BY DEF IdentityInv, KeysInv
<1> QED
  BY <1>1, IdentityInvariant, PTL

\* No execution takes effect twice.
THEOREM ExecutionsPerformOnce == IdentitySpec => []PerformedOnce
<1>1. IdentityInv => PerformedOnce
  BY DEF IdentityInv, ExecutionsInv
<1> QED
  BY <1>1, IdentityInvariant, PTL

\* A management key may approve whatever another key may.
LEMMA ManagerMayApprove ==
    ASSUME NEW s \in Keys, NEW call \in Calls, AutoApproved(s, call)
    PROVE  MayApprove(s, call)
BY DEF AutoApproved, MayApprove, KeyHasPurpose

\* No call takes effect without an account that holds the purpose it needs now.
THEOREM EffectsNeedPresentKeys == IdentitySpec => EffectNeedsPresentKey
<1>1. ASSUME IdentityInv, IdentityInv', [IdentityNext]_identityVars
      PROVE  [\A id \in DOMAIN executions' :
                 performed'[id] > performed[id]
                   => \E s \in Accounts : MayApprove(s, executions'[id].call)]_identityVars
  <2> SUFFICES ASSUME IdentityNext, NEW id \in DOMAIN executions',
                      performed'[id] > performed[id]
               PROVE  \E s \in Accounts : MayApprove(s, executions'[id].call)
    BY <1>1
  <2>1. id \in 1 .. MaxExecutions /\ performed[id] \in Nat /\ performed' # performed
    <3>1. executions' \in Seq(Executions) /\ Len(executions') <= MaxExecutions
      BY <1>1 DEF IdentityInv, ExecutionsInv
    <3>2. id \in 1 .. MaxExecutions
      BY <3>1
    <3> QED
      BY <1>1, <3>2 DEF IdentityInv, ExecutionsInv
  <2>2. ASSUME NEW es \in Seq(Executions), NEW j \in DOMAIN es, Perform(es, j)
        PROVE  id = j /\ executions'[id].call = es[j].call
    <3>1. /\ executions' = [es EXCEPT ![j].approved = TRUE, ![j].executed = TRUE]
          /\ performed' = [performed EXCEPT ![j] = @ + 1]
      BY <2>1, <2>2 DEF Perform
    <3>2. DOMAIN executions' = DOMAIN es
      BY <3>1
    <3>3. id = j
      BY <1>1, <2>1, <3>1 DEF IdentityInv, ExecutionsInv
    <3>4. executions'[j] = [es[j] EXCEPT !.approved = TRUE, !.executed = TRUE]
      BY <3>1
    <3>5. es[j] \in Executions
      OBVIOUS
    <3> QED
      BY <3>3, <3>4, <3>5 DEF Executions
  <2>3. ASSUME NEW s \in Accounts, NEW j \in 1 .. MaxExecutions, Approve(s, j)
        PROVE  \E a \in Accounts : MayApprove(a, executions'[id].call)
    BY <1>1, <2>2, <2>3 DEF Approve, IdentityInv, ExecutionsInv
  <2>4. ASSUME NEW s \in Accounts, NEW call \in Calls, Execute(s, call)
        PROVE  \E a \in Accounts : MayApprove(a, executions'[id].call)
    <3>1. AutoApproved(s, call) /\ Perform(Requested(call), Len(executions) + 1)
      BY <2>1, <2>4 DEF Execute
    <3>2. executions'[id].call = call
      BY <1>1, <2>2, <2>4, <3>1, RequestedFacts DEF Execute
    <3>3. MayApprove(s, call)
      BY <3>1, ManagerMayApprove DEF Keys
    <3> QED
      BY <3>2, <3>3
  <2> QED
    BY <2>1, <2>3, <2>4 DEF IdentityNext, AddKey, RemoveKey, Disapprove
<1> QED
  BY <1>1, IdentityInvariant, PTL DEF IdentitySpec, EffectNeedsPresentKey

\* An identity that no account manages keeps its keys for ever.
THEOREM UnmanagedKeysStay == IdentitySpec => UnmanagedKeysAreFixed
<1>1. ASSUME IdentityInv, [IdentityNext]_identityVars
      PROVE  [(\A s \in Accounts : ~KeyHasPurpose(s, MANAGEMENT_KEY_PURPOSE))
                  => UNCHANGED keyVars]_identityVars
  <2> SUFFICES ASSUME IdentityNext,
                      \A s \in Accounts : ~KeyHasPurpose(s, MANAGEMENT_KEY_PURPOSE)
               PROVE  UNCHANGED keyVars
    BY <1>1
  <2>1. ASSUME NEW s \in Accounts, NEW call \in Calls, MayApprove(s, call),
               Succeeds(call) \/ Fails(call)
        PROVE  UNCHANGED keyVars
    <3>1. call.op = "external"
      BY <2>1 DEF MayApprove
    <3> QED
      BY <2>1, <3>1 DEF Succeeds, Fails
  <2>2. ASSUME NEW s \in Accounts, NEW j \in 1 .. MaxExecutions, Approve(s, j)
        PROVE  UNCHANGED keyVars
    <3>1. executions[j] \in Executions /\ MayApprove(s, executions[j].call)
      BY <1>1, <2>2 DEF Approve, IdentityInv, ExecutionsInv
    <3>2. executions[j].call \in Calls
      BY <3>1 DEF Executions
    <3> QED
      BY <2>1, <2>2, <3>1, <3>2 DEF Approve, Perform
  <2>3. ASSUME NEW s \in Accounts, NEW call \in Calls, Execute(s, call)
        PROVE  UNCHANGED keyVars
    <3>1. CASE AutoApproved(s, call)
      <4>1. Requested(call)[Len(executions) + 1].call = call
        BY <1>1, <2>3, RequestedFacts DEF Execute
      <4>2. Perform(Requested(call), Len(executions) + 1) /\ MayApprove(s, call)
        BY <2>3, <3>1, ManagerMayApprove DEF Execute, Keys
      <4> QED
        BY <2>1, <4>1, <4>2 DEF Perform
    <3>2. CASE ~AutoApproved(s, call)
      BY <2>3, <3>2 DEF Execute
    <3> QED
      BY <3>1, <3>2
  <2> QED
    BY <2>2, <2>3 DEF IdentityNext, AddKey, RemoveKey, Disapprove
<1> QED
  BY <1>1, IdentityInvariant, PTL DEF IdentitySpec, UnmanagedKeysAreFixed
=============================================================================
