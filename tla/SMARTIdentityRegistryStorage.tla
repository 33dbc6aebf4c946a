-------------------- MODULE SMARTIdentityRegistryStorage --------------------
(***************************************************************************)
(* The storage contract shared by the identity registries: one record per  *)
(* wallet (its identity contract, its country and, once the wallet is      *)
(* lost, the wallet that replaces it), the enumerable list of registered   *)
(* wallets, the set of lost wallets and the accounts allowed to write.     *)
(*                                                                         *)
(* The writers are the registries bound to the storage and the admin who   *)
(* bootstrapped the system.  One transaction of a registry makes several   *)
(* writes, so the writes are operators on the values of the mappings and   *)
(* the registry's actions chain them.  Binding and unbinding a registry,   *)
(* and revoking the admin's right or granting it again, are transactions   *)
(* of their own.  The manager of the role is taken to name it for no one   *)
(* else: a registry gains and loses it by being bound and unbound.         *)
(***************************************************************************)
EXTENDS IndexedList

CONSTANTS
    Wallets,        \* investor wallets
    Identities,     \* on-chain identity contracts
    Countries,      \* country codes; 0 is the default of the mapping
    Registries,     \* identity registry contracts that may be bound
    Admin,          \* initialAdmin, the account that bootstrapped the system
    None            \* the zero address

ASSUME StorageAssumption ==
    /\ None \notin Wallets \cup Identities
    /\ Countries \subseteq Nat
    /\ 0 \in Countries
    /\ Admin \notin Registries

VARIABLES
    identities,         \* _identities: wallet -> Identity struct
    identityWallets,    \* _identityWallets with _identityWalletsIndex
    lostWallets,        \* the wallets whose _lostWallets flag is set
    boundRegistries,    \* _boundIdentityRegistryAddresses with its index
    storageModifiers    \* holders of STORAGE_MODIFIER_ROLE

storageVars == <<identities, identityWallets, lostWallets,
                 boundRegistries, storageModifiers>>

IdentityRecords ==
    [identityContract : Identities \cup {None},
     country : Countries,
     recoveredWallet : Wallets \cup {None}]

NoIdentity == [identityContract |-> None, country |-> 0, recoveredWallet |-> None]

StorageTypeOK ==
    /\ identities \in [Wallets -> IdentityRecords]
    /\ identityWallets \in IndexedListsOf(Wallets)
    /\ lostWallets \subseteq Wallets
    /\ boundRegistries \in IndexedListsOf(Registries)
    /\ storageModifiers \subseteq Registries \cup {Admin}

\* initialize grants the right to write to the admin, before any registry.
StorageInit ==
    /\ identities = [w \in Wallets |-> NoIdentity]
    /\ identityWallets = EmptyList(Wallets)
    /\ lostWallets = {}
    /\ boundRegistries = EmptyList(Registries)
    /\ storageModifiers = {Admin}

-----------------------------------------------------------------------------
(* Reads.                                                                  *)

Stored(ids, w) == ids[w].identityContract # None

RegisteredWallets == {w \in Wallets : Stored(identities, w)}

-----------------------------------------------------------------------------
(* Writes on the identity mapping, chained by the registry.                *)

\* addIdentityToStorage replaces the whole struct, recoveredWallet included.
Added(ids, w, id, country) ==
    [ids EXCEPT ![w] = [identityContract |-> id, country |-> country,
                        recoveredWallet |-> None]]

\* removeIdentityFromStorage deletes the whole struct.
Removed(ids, w) == [ids EXCEPT ![w] = NoIdentity]

\* Mutant: the arguments are swapped.
LinkedSwapped(ids, lost, new) == [ids EXCEPT ![new].recoveredWallet = lost]

\* Mutant: links to the wallet now lost are redirected as well.
LinkedRedirecting(ids, lost, new) ==
    [w \in Wallets |-> IF w = lost \/ ids[w].recoveredWallet = lost
                       THEN [ids[w] EXCEPT !.recoveredWallet = new]
                       ELSE ids[w]]

\* linkWalletRecovery touches one field, of a struct that may not exist.
Linked(ids, lost, new) == [ids EXCEPT ![lost].recoveredWallet = new]

ModifyIdentity(ids, w, id) == [ids EXCEPT ![w].identityContract = id]

ModifyCountry(ids, w, country) == [ids EXCEPT ![w].country = country]

-----------------------------------------------------------------------------
(* Transactions of the storage contract itself.                            *)

BindIdentityRegistry(r) ==
    /\ r \notin Members(boundRegistries)
    /\ boundRegistries' = PushItem(boundRegistries, r)
    /\ storageModifiers' = storageModifiers \cup {r}
    /\ UNCHANGED <<identities, identityWallets, lostWallets>>

UnbindIdentityRegistry(r) ==
    /\ r \in Members(boundRegistries)
    /\ storageModifiers' = storageModifiers \ {r}
    /\ boundRegistries' = SwapAndPop(boundRegistries, r)
    /\ UNCHANGED <<identities, identityWallets, lostWallets>>

\* The admin gives the role up, or the role's manager takes it away.
RevokeFromAdmin ==
    /\ Admin \in storageModifiers
    /\ storageModifiers' = storageModifiers \ {Admin}
    /\ UNCHANGED <<identities, identityWallets, lostWallets, boundRegistries>>

\* The role's manager grants it again.
GrantToAdmin ==
    /\ Admin \notin storageModifiers
    /\ storageModifiers' = storageModifiers \cup {Admin}
    /\ UNCHANGED <<identities, identityWallets, lostWallets, boundRegistries>>
=============================================================================
