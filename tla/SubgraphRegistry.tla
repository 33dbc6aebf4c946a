-------------------------- MODULE SubgraphRegistry --------------------------
(***************************************************************************)
(* The identity registries beside their index: the registry each Identity  *)
(* entity names, the country of each Account and the holders of the        *)
(* storage's STORAGE_MODIFIER_ROLE, which the subgraph keeps from events.  *)
(* A transaction and the handlers of its events, in order, are one step;   *)
(* every registry here belongs to a system the index follows, and no role  *)
(* outside the thirteen that utils/role.ts configures is granted: one such *)
(* grant makes its handler throw and ends the indexing.                    *)
(***************************************************************************)
EXTENDS SMARTIdentityRegistry, Functions

\* A registry is a contract, which the zero address is not.
ASSUME RegistryAssumption == None \notin Registries

VARIABLES
    identityRegistry,   \* Identity.registry, None for the zero address
    accountCountry,     \* Account.country, None while it is null
    storageModifier     \* AccessControl.storageModifier of the storage

registryIndexVars == <<identityRegistry, accountCountry, storageModifier>>
indexedRegistryVars == <<storageVars, registryIndexVars>>

\* The bootstrap grants the role to the admin, which the index hears of.
IndexedRegistryInit ==
    /\ RegistryInit
    /\ identityRegistry = [id \in Identities |-> None]
    /\ accountCountry = [w \in Wallets |-> None]
    /\ storageModifier = <<Admin>>

-----------------------------------------------------------------------------
(* The handlers.                                                           *)

HandleCountryUpdated(countries, w, c) == [countries EXCEPT ![w] = c]

HandleIdentityRegistered(regs, r, id) == [regs EXCEPT ![id] = r]

HandleIdentityRemoved(regs, id) == [regs EXCEPT ![id] = None]

\* Mutant: the old identity is saved last.
HandleIdentityUpdatedOldLast(regs, r, old, new) == [regs EXCEPT ![new] = r, ![old] = None]

HandleIdentityUpdated(regs, r, old, new) == [regs EXCEPT ![old] = None, ![new] = r]

HandleRoleGranted(holder) ==
    storageModifier' =
        IF \E i \in DOMAIN storageModifier : storageModifier[i] = holder
        THEN storageModifier
        ELSE Append(storageModifier, holder)

\* Mutant: the last holder is taken off, whoever lost the role.
HandleRoleRevokedLast(holder) ==
    storageModifier' = SubSeq(storageModifier, 1, Len(storageModifier) - 1)

HandleRoleRevoked(holder) == storageModifier' = WithoutItem(storageModifier, holder)

-----------------------------------------------------------------------------
(* Transactions with the handlers of their events.                         *)

IndexedBind(r) ==
    /\ BindIdentityRegistry(r)
    /\ HandleRoleGranted(r)
    /\ UNCHANGED <<identityRegistry, accountCountry>>

IndexedUnbind(r) ==
    /\ UnbindIdentityRegistry(r)
    /\ HandleRoleRevoked(r)
    /\ UNCHANGED <<identityRegistry, accountCountry>>

IndexedRevokeFromAdmin ==
    /\ RevokeFromAdmin
    /\ HandleRoleRevoked(Admin)
    /\ UNCHANGED <<identityRegistry, accountCountry>>

IndexedGrantToAdmin ==
    /\ GrantToAdmin
    /\ HandleRoleGranted(Admin)
    /\ UNCHANGED <<identityRegistry, accountCountry>>

\* IdentityRegistered is followed by CountryUpdated.
IndexedRegister(r, w, id, c) ==
    /\ RegisterIdentity(r, w, id, c)
    /\ identityRegistry' = HandleIdentityRegistered(identityRegistry, r, id)
    /\ accountCountry' = HandleCountryUpdated(accountCountry, w, c)
    /\ UNCHANGED storageModifier

IndexedBatchRegister(r, w1, w2, id1, id2, c) ==
    /\ BatchRegisterIdentity(r, w1, w2, id1, id2, c)
    /\ identityRegistry' =
          HandleIdentityRegistered(HandleIdentityRegistered(identityRegistry, r, id1), r, id2)
    /\ accountCountry' =
          HandleCountryUpdated(HandleCountryUpdated(accountCountry, w1, c), w2, c)
    /\ UNCHANGED storageModifier

\* The country of the account stays what it was.
IndexedDelete(r, w) ==
    /\ DeleteIdentity(r, w)
    /\ identityRegistry' = HandleIdentityRemoved(identityRegistry, identities[w].identityContract)
    /\ UNCHANGED <<accountCountry, storageModifier>>

IndexedUpdateCountry(r, w, c) ==
    /\ UpdateCountry(r, w, c)
    /\ accountCountry' = HandleCountryUpdated(accountCountry, w, c)
    /\ UNCHANGED <<identityRegistry, storageModifier>>

IndexedUpdateIdentity(r, w, id) ==
    /\ UpdateIdentity(r, w, id)
    /\ identityRegistry' =
          HandleIdentityUpdated(identityRegistry, r, identities[w].identityContract, id)
    /\ UNCHANGED <<accountCountry, storageModifier>>

\* Neither IdentityRecovered nor WalletRecoveryLinked has a handler.
IndexedRecover(r, lost, new, id) ==
    /\ RecoverIdentity(r, lost, new, id)
    /\ UNCHANGED registryIndexVars

SomeRecovery ==
    \E r \in Registries, lost, new \in Wallets, id \in Identities :
        IndexedRecover(r, lost, new, id)

IndexedRegistryNext ==
    \/ SomeRecovery
    \/ IndexedRevokeFromAdmin
    \/ IndexedGrantToAdmin
    \/ \E r \in Registries :
        \/ IndexedBind(r)
        \/ IndexedUnbind(r)
        \/ \E w \in Wallets, id \in Identities, c \in Countries :
              IndexedRegister(r, w, id, c)
        \/ \E w1, w2 \in Wallets, id1, id2 \in Identities, c \in Countries :
              IndexedBatchRegister(r, w1, w2, id1, id2, c)
        \/ \E w \in Wallets : IndexedDelete(r, w)
        \/ \E w \in Wallets, c \in Countries : IndexedUpdateCountry(r, w, c)
        \/ \E w \in Wallets, id \in Identities : IndexedUpdateIdentity(r, w, id)

IndexedRegistrySpec == IndexedRegistryInit /\ [][IndexedRegistryNext]_indexedRegistryVars

-----------------------------------------------------------------------------
(* Properties.                                                             *)

WalletsOf(id) == {w \in Wallets : identities[w].identityContract = id}

IdentityIndexed(id) == identityRegistry[id] # None <=> WalletsOf(id) # {}

CountryIndexed(w) == Contains(w) => accountCountry[w] = identities[w].country

\* The index lists every holder of the role that writes the storage, the admin
\* while it is one, each once and nobody else, though it appends and filters
\* where the storage moves the last registry into a gap.
IndexedHoldersExact ==
    /\ Range(storageModifier) = storageModifiers
    /\ IsInjective(storageModifier)

\* An Identity entity names a registry exactly while some wallet is registered
\* with that identity, and the country of a registered wallet's account is the
\* registry's.  Only a recovery makes either wrong, and a removal from one of
\* several wallets that share an identity the first; a removal and a new
\* registration or a change of identity do not.
IndexGoesStaleOnlyByRecovery ==
    [][\/ SomeRecovery
       \/ /\ \A id \in Identities :
                IdentityIndexed(id) /\ (\A v, w \in WalletsOf(id) : v = w) => IdentityIndexed(id)'
          /\ \A w \in Wallets : CountryIndexed(w) => CountryIndexed(w)'
      ]_indexedRegistryVars
=============================================================================
