----------------------- MODULE SMARTIdentityRegistry -----------------------
(***************************************************************************)
(* The identity registry: a registrar's transactions on the identities of  *)
(* investor wallets.  Several registries may share one storage, so every   *)
(* transaction names the registry r that runs it; a registry that is not   *)
(* (or no longer) bound reverts at its first write.                        *)
(*                                                                         *)
(* recoverIdentity is the delicate one: in a single transaction it marks a *)
(* wallet lost, unregisters it, registers its replacement unless that one  *)
(* is registered already, and links the two, which is what lets a token    *)
(* hand the lost wallet's balance to the replacement.                      *)
(*                                                                         *)
(* While it holds the role the admin may also call the storage directly,   *)
(* past the registries' checks and events.  Those writes are left out:     *)
(* what is said here is said of an admin who leaves them to the registries.*)
(***************************************************************************)
EXTENDS SMARTIdentityRegistryStorage

Contains(w) == Stored(identities, w)

MayWrite(r) == r \in storageModifiers

-----------------------------------------------------------------------------
RegisterIdentity(r, w, id, country) ==
    /\ MayWrite(r)
    /\ ~Contains(w)
    /\ identities' = Added(identities, w, id, country)
    /\ identityWallets' = PushItem(identityWallets, w)
    /\ UNCHANGED <<lostWallets, boundRegistries, storageModifiers>>

\* A batch of two, the smallest one whose entries can conflict: the whole
\* transaction reverts when the second wallet repeats the first.
BatchRegisterIdentity(r, w1, w2, id1, id2, country) ==
    /\ MayWrite(r)
    /\ ~Contains(w1)
    /\ LET first == Added(identities, w1, id1, country)
       IN /\ ~Stored(first, w2)
          /\ identities' = Added(first, w2, id2, country)
    /\ identityWallets' = PushItem(PushItem(identityWallets, w1), w2)
    /\ UNCHANGED <<lostWallets, boundRegistries, storageModifiers>>

DeleteIdentity(r, w) ==
    /\ MayWrite(r)
    /\ Contains(w)
    /\ identities' = Removed(identities, w)
    /\ identityWallets' = SwapAndPop(identityWallets, w)
    /\ UNCHANGED <<lostWallets, boundRegistries, storageModifiers>>

UpdateCountry(r, w, country) ==
    /\ MayWrite(r)
    /\ Contains(w)
    /\ identities' = ModifyCountry(identities, w, country)
    /\ UNCHANGED <<identityWallets, lostWallets, boundRegistries, storageModifiers>>

UpdateIdentity(r, w, id) ==
    /\ MayWrite(r)
    /\ Contains(w)
    /\ identities' = ModifyIdentity(identities, w, id)
    /\ UNCHANGED <<identityWallets, lostWallets, boundRegistries, storageModifiers>>

\* Mutant: nothing asks whether the replacement is itself lost.
CanReplaceByLost(new, newId) ==
    Contains(new) => identities[new].identityContract = newId

\* The replacement must be unregistered, or registered with newId already.
CanReplace(new, newId) ==
    /\ Contains(new) => identities[new].identityContract = newId
    /\ new \notin lostWallets

\* Mutant: a replacement that was lost before is taken as it is.
RecoverOntoLost(r, lost, new, newId) ==
    /\ MayWrite(r)
    /\ Contains(lost)
    /\ lost \notin lostWallets
    /\ new \in lostWallets \/ CanReplace(new, newId)
    /\ LET needsRegistration == ~Contains(new) /\ new \notin lostWallets
           removed == Removed(identities, lost)
           added == IF needsRegistration
                    THEN Added(removed, new, newId, identities[lost].country)
                    ELSE removed
           listed == SwapAndPop(identityWallets, lost)
       IN /\ identities' = Linked(added, lost, new)
          /\ identityWallets' = IF needsRegistration THEN PushItem(listed, new) ELSE listed
    /\ lostWallets' = lostWallets \cup {lost}
    /\ UNCHANGED <<boundRegistries, storageModifiers>>

RecoverIdentity(r, lost, new, newId) ==
    /\ MayWrite(r)
    /\ Contains(lost)
    /\ lost \notin lostWallets
    /\ CanReplace(new, newId)
    /\ LET needsRegistration == ~Contains(new)
           removed == Removed(identities, lost)
           added == IF needsRegistration
                    THEN Added(removed, new, newId, identities[lost].country)
                    ELSE removed
           listed == SwapAndPop(identityWallets, lost)
       IN /\ identities' = Linked(added, lost, new)
          /\ identityWallets' = IF needsRegistration THEN PushItem(listed, new) ELSE listed
    /\ lostWallets' = lostWallets \cup {lost}
    /\ UNCHANGED <<boundRegistries, storageModifiers>>

-----------------------------------------------------------------------------
RegistryInit == StorageInit

RegistryNext ==
    \/ RevokeFromAdmin
    \/ GrantToAdmin
    \/ \E r \in Registries :
        \/ BindIdentityRegistry(r)
        \/ UnbindIdentityRegistry(r)
        \/ \E w \in Wallets, id \in Identities, c \in Countries :
              RegisterIdentity(r, w, id, c)
        \/ \E w1, w2 \in Wallets, id1, id2 \in Identities, c \in Countries :
              BatchRegisterIdentity(r, w1, w2, id1, id2, c)
        \/ \E w \in Wallets : DeleteIdentity(r, w)
        \/ \E w \in Wallets, c \in Countries : UpdateCountry(r, w, c)
        \/ \E w \in Wallets, id \in Identities : UpdateIdentity(r, w, id)
        \/ \E lost, new \in Wallets, id \in Identities : RecoverIdentity(r, lost, new, id)

RegistrySpec == RegistryInit /\ [][RegistryNext]_storageVars

-----------------------------------------------------------------------------
(* Properties.                                                             *)

EnumerationExact ==
    /\ Consistent(identityWallets)
    /\ Members(identityWallets) = RegisteredWallets

BindingExact ==
    /\ Consistent(boundRegistries)
    /\ Members(boundRegistries) = storageModifiers \ {Admin}

\* The enumerations are exact through every order of registrations, recoveries,
\* removals and (un)bindings, though the array, its index and what it
\* enumerates are written separately: each wallet with a record is listed once,
\* and a registry can write exactly while it is listed as bound, whatever
\* becomes of the admin's own right to write.
ListsExact == EnumerationExact /\ BindingExact

LinksOnlyFromLost ==
    \A w \in Wallets : identities[w].recoveredWallet # None => w \in lostWallets

LinkedWalletIsUnregistered ==
    \A w \in Wallets : identities[w].recoveredWallet # None => ~Contains(w)

\* A recovery link always starts at a wallet that is marked as lost and has no
\* live registration, so a token can never hand the balance of a live wallet
\* to another one.
LinksOnlyFromRetired == LinksOnlyFromLost /\ LinkedWalletIsUnregistered

\* Recovery links never run in a circle (a wallet recovered onto itself
\* aside): in every set of wallets one has no link to another member.  Hence
\* reclaiming a balance link after link ends, however wallets are recovered,
\* deleted and registered again.
RecoveryLinksAcyclic ==
    \A C \in (SUBSET Wallets) \ {{}} :
        \E w \in C : identities[w].recoveredWallet \notin C \ {w}

\* Once set, a link is neither erased nor pointed elsewhere, neither by the
\* recovery of its target nor by any other step, but by registering the lost
\* wallet itself again.
LinkChangedOnlyByRegistration ==
    [][\A w \in Wallets :
          identities[w].recoveredWallet \notin {None, identities'[w].recoveredWallet}
            => ~Stored(identities, w) /\ Stored(identities', w)]_storageVars

-----------------------------------------------------------------------------
(* What the tokens see of the registry.                                    *)

Tokens == INSTANCE IdentityRecovery WITH
             lost <- lostWallets,
             link <- [w \in Wallets |-> identities[w].recoveredWallet]

\* isWalletLost and getRecoveredWallet behave as the tokens' recovery of
\* balances expects: every transaction is a Recover, a Forget or no change.
ImplementsRecovery == Tokens!RecoverySpec
=============================================================================
