---------------------------- MODULE SMARTIdentity ----------------------------
(***************************************************************************)
(* The identity contract of a wallet, as far as it acts: the keys and      *)
(* their purposes (ERC734), and the executions, calls that anyone may      *)
(* request and that a key of the right purpose approves, which makes the   *)
(* identity perform them at once.  A call may be to the identity itself,   *)
(* which is one of the two ways its keys change.                           *)
(*                                                                         *)
(* A key is the hash of an account, so accounts stand for keys.  What an   *)
(* external contract does with a call is its own matter: it succeeds or    *)
(* fails.  approve and execute are not reentrant, so a call of the         *)
(* identity to either of them fails.                                       *)
(***************************************************************************)
EXTENDS IndexedList, Functions

CONSTANTS
    Accounts,       \* whoever may hold a key, the identity apart
    Self,           \* the address of the identity
    None,           \* the zero key
    Owner,          \* initialManagementKey
    MaxExecutions   \* bound on the executions requested

MANAGEMENT_KEY_PURPOSE == 1
ACTION_KEY_PURPOSE == 2
Purposes == {MANAGEMENT_KEY_PURPOSE, ACTION_KEY_PURPOSE}

Keys == Accounts \cup {Self}

ASSUME IdentityAssumption ==
    /\ Self \notin Accounts
    /\ None \notin Keys
    /\ Owner \in Accounts
    /\ MaxExecutions \in Nat

VARIABLES
    purposes,       \* purposes of each key; a key without any does not exist
    keysByPurpose,  \* _keysByPurpose
    executions,     \* _executions, numbered from 1
    performed       \* how often the call of each execution has succeeded

keyVars == <<purposes, keysByPurpose>>
identityVars == <<keyVars, executions, performed>>

Calls ==
    [op : {"addKey", "removeKey"}, key : Keys, purpose : Purposes]
        \cup [op : {"reenter", "external"}]

Executions == [call : Calls, approved : BOOLEAN, executed : BOOLEAN]

IdentityInit ==
    /\ purposes = [k \in Keys |-> IF k = Owner THEN <<MANAGEMENT_KEY_PURPOSE>> ELSE << >>]
    /\ keysByPurpose = [p \in Purposes |-> IF p = MANAGEMENT_KEY_PURPOSE THEN <<Owner>> ELSE << >>]
    /\ executions = << >>
    /\ performed = [id \in 1 .. MaxExecutions |-> 0]

-----------------------------------------------------------------------------
(* Keys.                                                                   *)

\* A management key has every purpose.
KeyHasPurpose(k, p) == \E q \in Range(purposes[k]) : q \in {MANAGEMENT_KEY_PURPOSE, p}

CanAddKey(k, p) == k # None /\ p \notin Range(purposes[k])

KeyAdded(k, p) ==
    /\ purposes' = [purposes EXCEPT ![k] = Append(@, p)]
    /\ keysByPurpose' = [keysByPurpose EXCEPT ![p] = Append(@, k)]

CanRemoveKey(k, p) == k # None /\ p \in Range(purposes[k])

\* Mutant: the array of the purpose keeps the key.
KeyStillListed(k, p) ==
    /\ purposes' = [purposes EXCEPT ![k] = RemovedFromList(@, p)]
    /\ UNCHANGED keysByPurpose

KeyRemoved(k, p) ==
    /\ purposes' = [purposes EXCEPT ![k] = RemovedFromList(@, p)]
    /\ keysByPurpose' = [keysByPurpose EXCEPT ![p] = RemovedFromList(@, k)]

\* onlyManager: nothing keeps the last manager from leaving.
AddKey(s, k, p) ==
    /\ KeyHasPurpose(s, MANAGEMENT_KEY_PURPOSE)
    /\ CanAddKey(k, p)
    /\ KeyAdded(k, p)
    /\ UNCHANGED <<executions, performed>>

RemoveKey(s, k, p) ==
    /\ KeyHasPurpose(s, MANAGEMENT_KEY_PURPOSE)
    /\ CanRemoveKey(k, p)
    /\ KeyRemoved(k, p)
    /\ UNCHANGED <<executions, performed>>

-----------------------------------------------------------------------------
(* Executions.                                                             *)

\* Mutant: an action key is enough for every call.
MayApproveByAction(s, call) == KeyHasPurpose(s, ACTION_KEY_PURPOSE)

\* A call to the identity itself needs a management key.
MayApprove(s, call) ==
    KeyHasPurpose(s, IF call.op = "external" THEN ACTION_KEY_PURPOSE ELSE MANAGEMENT_KEY_PURPOSE)

\* The call made by the identity succeeds; to the identity itself it is
\* subject to what the function called requires, which trusts the identity.
Succeeds(call) ==
    \/ call.op = "addKey" /\ CanAddKey(call.key, call.purpose) /\ KeyAdded(call.key, call.purpose)
    \/ call.op = "removeKey" /\ CanRemoveKey(call.key, call.purpose) /\ KeyRemoved(call.key, call.purpose)
    \/ call.op = "external" /\ UNCHANGED keyVars

Fails(call) ==
    /\ call.op = "addKey" => ~CanAddKey(call.key, call.purpose)
    /\ call.op = "removeKey" => ~CanRemoveKey(call.key, call.purpose)
    /\ UNCHANGED keyVars

\* The execution id of es is approved and performed.  A failure is not passed
\* on: the execution stays approved and may be approved again.
Perform(es, id) ==
    \/ /\ Succeeds(es[id].call)
       /\ executions' = [es EXCEPT ![id].approved = TRUE, ![id].executed = TRUE]
       /\ performed' = [performed EXCEPT ![id] = @ + 1]
    \/ /\ Fails(es[id].call)
       /\ executions' = [es EXCEPT ![id].approved = TRUE]
       /\ UNCHANGED performed

\* Mutants: an execution is performed again; whoever retries a call that was
\* approved before needs no key.
ApproveAgain(s, id) ==
    /\ id \in DOMAIN executions
    /\ MayApprove(s, executions[id].call)
    /\ performed[id] < 2
    /\ Perform(executions, id)
RetryByAnyone(s, id) ==
    /\ id \in DOMAIN executions
    /\ ~executions[id].executed
    /\ executions[id].approved \/ MayApprove(s, executions[id].call)
    /\ Perform(executions, id)

Approve(s, id) ==
    /\ id \in DOMAIN executions
    /\ ~executions[id].executed
    /\ MayApprove(s, executions[id].call)
    /\ Perform(executions, id)

Disapprove(s, id) ==
    /\ id \in DOMAIN executions
    /\ ~executions[id].executed
    /\ MayApprove(s, executions[id].call)
    /\ executions' = [executions EXCEPT ![id].approved = FALSE]
    /\ UNCHANGED <<keyVars, performed>>

Requested(call) ==
    Append(executions, [call |-> call, approved |-> FALSE, executed |-> FALSE])

AutoApproved(s, call) ==
    \/ KeyHasPurpose(s, MANAGEMENT_KEY_PURPOSE)
    \/ call.op = "external" /\ KeyHasPurpose(s, ACTION_KEY_PURPOSE)

\* The automatic approval is a call of the identity to its own approve, whose
\* sender is therefore the identity: without a key of its own it reverts, and
\* the request with it.
CanExecute(s, call) == AutoApproved(s, call) => MayApprove(Self, call)

Execute(s, call) ==
    /\ Len(executions) < MaxExecutions
    /\ CanExecute(s, call)
    /\ IF AutoApproved(s, call)
       THEN Perform(Requested(call), Len(executions) + 1)
       ELSE executions' = Requested(call) /\ UNCHANGED <<keyVars, performed>>

IdentityNext ==
    \E s \in Accounts :
        \/ \E k \in Keys \cup {None}, p \in Purposes : AddKey(s, k, p) \/ RemoveKey(s, k, p)
        \/ \E id \in 1 .. MaxExecutions : Approve(s, id) \/ Disapprove(s, id)
        \/ \E call \in Calls : Execute(s, call)

IdentitySpec == IdentityInit /\ [][IdentityNext]_identityVars

-----------------------------------------------------------------------------
(* Properties.                                                             *)

\* The purposes of a key and the keys of a purpose say the same, each once,
\* after any keys come, leave and return, by managers or by executions.
KeysAgree ==
    /\ \A k \in Keys : IsInjective(purposes[k])
    /\ \A p \in Purposes :
          /\ IsInjective(keysByPurpose[p])
          /\ Range(keysByPurpose[p]) = {k \in Keys : p \in Range(purposes[k])}

\* The call of an execution takes effect at most once, however often it is
\* approved, disapproved, retried after a failure or approved automatically,
\* and the record tells whether it did.
PerformedOnce ==
    \A id \in 1 .. MaxExecutions :
        performed[id] = IF id \in DOMAIN executions /\ executions[id].executed THEN 1 ELSE 0

\* A call takes effect only while some account, not the identity alone, holds
\* the purpose it needs: an approval given under a key that has left since is
\* worth nothing, a failed call that was approved included.
EffectNeedsPresentKey ==
    [][\A id \in DOMAIN executions' :
          performed'[id] > performed[id]
            => \E s \in Accounts : MayApprove(s, executions'[id].call)]_identityVars

\* An identity that no account manages keeps its keys for ever: neither action
\* keys, nor executions requested before, nor a management key of the identity
\* itself can bring a manager back.
UnmanagedKeysAreFixed ==
    [][(\A s \in Accounts : ~KeyHasPurpose(s, MANAGEMENT_KEY_PURPOSE)) => UNCHANGED keyVars]_identityVars

\* "If the sender has MANAGEMENT_KEY, or ACTION_KEY (for external calls), the
\* execution is auto-approved" (comment of execute): such a request succeeds.
AutoApprovalSucceeds ==
    \A s \in Accounts, call \in Calls : AutoApproved(s, call) => CanExecute(s, call)
=============================================================================
