-------------------- MODULE SMARTIdentityRegistryProofs --------------------
(***************************************************************************)
(* The registry's safety properties for any number of wallets, identities, *)
(* countries and registries.  The properties support each other: a         *)
(* registered wallet has no link and a wallet that is not lost has none,   *)
(* which is why adding a link to a wallet that is not lost cannot close a  *)
(* circle.  Their conjunction is inductive.                                *)
(***************************************************************************)
EXTENDS SubgraphRegistry, DataLemmas

RegistryInv ==
    /\ StorageTypeOK
    /\ EnumerationExact
    /\ BindingExact
    /\ LinksOnlyFromLost
    /\ LinkedWalletIsUnregistered
    /\ RecoveryLinksAcyclic

\* How one transaction may change what the tokens see of the registry: one
\* recovery, or the links of some lost wallets forgotten.
LinkOf(ids, w) == ids[w].recoveredWallet

RecoveredOne ==
    \E l, n \in Wallets \ lostWallets :
        /\ lostWallets' = lostWallets \cup {l}
        /\ LinkOf(identities', l) = n
        /\ \A v \in Wallets \ {l} : LinkOf(identities', v) = LinkOf(identities, v)

ForgotSome ==
    /\ UNCHANGED lostWallets
    /\ \E ws \in SUBSET lostWallets :
          \A v \in Wallets :
             LinkOf(identities', v) = IF v \in ws THEN None ELSE LinkOf(identities, v)

USE StorageAssumption

-----------------------------------------------------------------------------
(* What each write does to the mapping of identities.                      *)

\* Adding an identity writes one record, which has no link.
LEMMA AddedFacts ==
    ASSUME NEW ids \in [Wallets -> IdentityRecords], NEW w \in Wallets,
           NEW id \in Identities, NEW c \in Countries
    PROVE  /\ Added(ids, w, id, c) \in [Wallets -> IdentityRecords]
           /\ Stored(Added(ids, w, id, c), w)
           /\ Added(ids, w, id, c)[w].recoveredWallet = None
           /\ \A v \in Wallets \ {w} : Added(ids, w, id, c)[v] = ids[v]
BY DEF Added, Stored, IdentityRecords

\* Removing an identity clears one record and the link in it.
LEMMA RemovedFacts ==
    ASSUME NEW ids \in [Wallets -> IdentityRecords], NEW w \in Wallets
    PROVE  /\ Removed(ids, w) \in [Wallets -> IdentityRecords]
           /\ ~Stored(Removed(ids, w), w)
           /\ Removed(ids, w)[w].recoveredWallet = None
           /\ \A v \in Wallets \ {w} : Removed(ids, w)[v] = ids[v]
BY DEF Removed, NoIdentity, Stored, IdentityRecords

\* Linking a lost wallet writes its link and nothing else.
LEMMA LinkedFacts ==
    ASSUME NEW ids \in [Wallets -> IdentityRecords],
           NEW lost \in Wallets, NEW new \in Wallets
    PROVE  /\ Linked(ids, lost, new) \in [Wallets -> IdentityRecords]
           /\ Linked(ids, lost, new)[lost].recoveredWallet = new
           /\ Stored(Linked(ids, lost, new), lost) <=> Stored(ids, lost)
           /\ \A v \in Wallets \ {lost} : Linked(ids, lost, new)[v] = ids[v]
BY DEF Linked, Stored, IdentityRecords

\* Changing an identity or a country changes neither who is stored nor a link.
LEMMA ModifiedFacts ==
    ASSUME NEW ids \in [Wallets -> IdentityRecords], NEW w \in Wallets, Stored(ids, w),
           NEW new, \/ \E id \in Identities : new = ModifyIdentity(ids, w, id)
                    \/ \E c \in Countries : new = ModifyCountry(ids, w, c)
    PROVE  /\ new \in [Wallets -> IdentityRecords]
           /\ \A v \in Wallets : /\ Stored(new, v) <=> Stored(ids, v)
                                 /\ new[v].recoveredWallet = ids[v].recoveredWallet
BY DEF ModifyIdentity, ModifyCountry, Stored, IdentityRecords

-----------------------------------------------------------------------------
(* Circles of links.                                                       *)

\* Erasing links, or leaving them, closes no circle.
LEMMA FewerLinksAcyclic ==
    ASSUME RecoveryLinksAcyclic,
           \A w \in Wallets :
              identities'[w].recoveredWallet \in {None, identities[w].recoveredWallet}
    PROVE  RecoveryLinksAcyclic'
<1> SUFFICES ASSUME NEW C \in SUBSET Wallets, C # {}
             PROVE  \E w \in C : identities'[w].recoveredWallet \notin C \ {w}
  BY DEF RecoveryLinksAcyclic
<1>1. PICK w \in C : identities[w].recoveredWallet \notin C \ {w}
  BY DEF RecoveryLinksAcyclic
<1>2. None \notin C
  BY StorageAssumption
<1> QED
  BY <1>1, <1>2

\* Linking a wallet to one without a link of its own (or to itself) closes none.
LEMMA NewLinkAcyclic ==
    ASSUME RecoveryLinksAcyclic, NEW lost \in Wallets, NEW new \in Wallets,
           new # lost => identities'[new].recoveredWallet = None,
           identities'[lost].recoveredWallet = new,
           \A w \in Wallets \ {lost} :
              identities'[w].recoveredWallet \in {None, identities[w].recoveredWallet}
    PROVE  RecoveryLinksAcyclic'
<1> SUFFICES ASSUME NEW C \in SUBSET Wallets, C # {}
             PROVE  \E w \in C : identities'[w].recoveredWallet \notin C \ {w}
  BY DEF RecoveryLinksAcyclic
<1>1. None \notin C
  BY StorageAssumption
<1>2. CASE lost \notin C
  <2>1. PICK w \in C : identities[w].recoveredWallet \notin C \ {w}
    BY DEF RecoveryLinksAcyclic
  <2> QED
    BY <1>1, <1>2, <2>1
<1>3. CASE lost \in C /\ new \notin C \ {lost}
  BY <1>3
<1>4. CASE lost \in C /\ new \in C \ {lost}
  BY <1>1, <1>4
<1> QED
  BY <1>2, <1>3, <1>4

-----------------------------------------------------------------------------
(* Every transaction preserves the invariant.                              *)

\* An empty storage that only the admin may write satisfies the invariant.
LEMMA InitInv == RegistryInit => RegistryInv
<1> SUFFICES ASSUME RegistryInit PROVE RegistryInv
  OBVIOUS
<1> USE DEF RegistryInit, StorageInit
<1>1. \A w \in Wallets : identities[w] = NoIdentity
  OBVIOUS
<1>2. StorageTypeOK
  BY EmptyListFacts DEF StorageTypeOK, NoIdentity, IdentityRecords
<1>3. RegisteredWallets = {}
  BY <1>1 DEF RegisteredWallets, Stored, NoIdentity
<1>4. EnumerationExact /\ BindingExact
  BY <1>3, EmptyListFacts DEF EnumerationExact, BindingExact
<1>5. \A w \in Wallets : identities[w].recoveredWallet = None
  BY <1>1 DEF NoIdentity
<1>6. RecoveryLinksAcyclic
  BY <1>5, StorageAssumption DEF RecoveryLinksAcyclic
<1> QED
  BY <1>2, <1>4, <1>5, <1>6 DEF RegistryInv, LinksOnlyFromLost, LinkedWalletIsUnregistered

\* A step that only changes who may write.
RightsStep ==
    \/ \E r \in Registries : BindIdentityRegistry(r) \/ UnbindIdentityRegistry(r)
    \/ RevokeFromAdmin
    \/ GrantToAdmin

\* Binding and unbinding touch no identity, nor do the admin's gain and loss of
\* the right to write, which touch no list either.
LEMMA BindingInv ==
    ASSUME RegistryInv, RightsStep
    PROVE  RegistryInv'
<1>1. /\ boundRegistries \in IndexedListsOf(Registries)
      /\ Consistent(boundRegistries)
      /\ Members(boundRegistries) = storageModifiers \ {Admin}
      /\ storageModifiers \subseteq Registries \cup {Admin}
  BY DEF RegistryInv, StorageTypeOK, BindingExact
<1>2. UNCHANGED <<identities, identityWallets, lostWallets>>
  BY DEF RightsStep, BindIdentityRegistry, UnbindIdentityRegistry, RevokeFromAdmin,
         GrantToAdmin
<1>3. /\ boundRegistries' \in IndexedListsOf(Registries)
      /\ Consistent(boundRegistries')
      /\ Members(boundRegistries') = storageModifiers' \ {Admin}
      /\ storageModifiers' \subseteq Registries \cup {Admin}
  <2>1. CASE \E r \in Registries : BindIdentityRegistry(r)
    <3>1. PICK r \in Registries : BindIdentityRegistry(r)
      BY <2>1
    <3>2. /\ boundRegistries' = PushItem(boundRegistries, r)
          /\ storageModifiers' = storageModifiers \cup {r}
          /\ r \notin Members(boundRegistries)
      BY <3>1 DEF BindIdentityRegistry
    <3>3. /\ PushItem(boundRegistries, r) \in IndexedListsOf(Registries)
          /\ Consistent(PushItem(boundRegistries, r))
          /\ Members(PushItem(boundRegistries, r)) = Members(boundRegistries) \cup {r}
      BY <1>1, <3>2, PushItemFacts
    <3> QED
      BY <1>1, <3>2, <3>3
  <2>2. CASE \E r \in Registries : UnbindIdentityRegistry(r)
    <3>1. PICK r \in Registries : UnbindIdentityRegistry(r)
      BY <2>2
    <3>2. /\ boundRegistries' = SwapAndPop(boundRegistries, r)
          /\ storageModifiers' = storageModifiers \ {r}
          /\ r \in Members(boundRegistries)
      BY <3>1 DEF UnbindIdentityRegistry
    <3>3. /\ SwapAndPop(boundRegistries, r) \in IndexedListsOf(Registries)
          /\ Consistent(SwapAndPop(boundRegistries, r))
          /\ Members(SwapAndPop(boundRegistries, r)) = Members(boundRegistries) \ {r}
      BY <1>1, <3>2, SwapAndPopFacts
    <3> QED
      BY <1>1, <3>2, <3>3
  <2>3. CASE RevokeFromAdmin \/ GrantToAdmin
    BY <1>1, <2>3 DEF RevokeFromAdmin, GrantToAdmin
  <2> QED
    BY <2>1, <2>2, <2>3 DEF RightsStep
<1>4. StorageTypeOK' /\ BindingExact'
  BY <1>2, <1>3 DEF RegistryInv, StorageTypeOK, BindingExact
<1>5. EnumerationExact'
  BY <1>2 DEF RegistryInv, EnumerationExact, RegisteredWallets, Stored
<1>6. LinksOnlyFromLost' /\ LinkedWalletIsUnregistered' /\ RecoveryLinksAcyclic'
  BY <1>2 DEF RegistryInv, LinksOnlyFromLost, LinkedWalletIsUnregistered,
              RecoveryLinksAcyclic, Contains, Stored
<1> QED
  BY <1>4, <1>5, <1>6 DEF RegistryInv

\* A step that leaves every link forgets the links of no wallet.
LEMMA NothingForgotten ==
    ASSUME UNCHANGED lostWallets,
           \A v \in Wallets : LinkOf(identities', v) = LinkOf(identities, v)
    PROVE  ForgotSome
<1>1. \E ws \in SUBSET lostWallets :
         \A v \in Wallets :
            LinkOf(identities', v) = IF v \in ws THEN None ELSE LinkOf(identities, v)
  <2> WITNESS {} \in SUBSET lostWallets
  <2> QED
    OBVIOUS
<1> QED
  BY <1>1 DEF ForgotSome

\* The part of the invariant every transaction on identities starts from.
LEMMA InvFacts ==
    ASSUME RegistryInv
    PROVE  /\ identities \in [Wallets -> IdentityRecords]
           /\ identityWallets \in IndexedListsOf(Wallets)
           /\ Consistent(identityWallets)
           /\ Members(identityWallets) = RegisteredWallets
           /\ \A v \in Wallets : identities[v].recoveredWallet # None
                 => v \in lostWallets /\ ~Stored(identities, v)
BY DEF RegistryInv, StorageTypeOK, EnumerationExact, LinksOnlyFromLost,
       LinkedWalletIsUnregistered, Contains

\* What is left to show of a transaction that writes identities, once the
\* effect on the enumeration and on the links is known.
LEMMA IdentityStepInv ==
    ASSUME RegistryInv,
           UNCHANGED <<boundRegistries, storageModifiers>>,
           lostWallets' \subseteq Wallets,
           lostWallets \subseteq lostWallets',
           identities' \in [Wallets -> IdentityRecords],
           identityWallets' \in IndexedListsOf(Wallets),
           Consistent(identityWallets'),
           Members(identityWallets') = RegisteredWallets',
           \A w \in Wallets : identities'[w].recoveredWallet # None
              => w \in lostWallets' /\ ~Stored(identities', w),
           RecoveryLinksAcyclic'
    PROVE  RegistryInv'
<1>1. StorageTypeOK'
  BY DEF RegistryInv, StorageTypeOK
<1>2. EnumerationExact'
  BY DEF EnumerationExact
<1>3. BindingExact'
  BY DEF RegistryInv, BindingExact
<1>4. LinksOnlyFromLost' /\ LinkedWalletIsUnregistered'
  BY DEF LinksOnlyFromLost, LinkedWalletIsUnregistered, Contains
<1> QED
  BY <1>1, <1>2, <1>3, <1>4 DEF RegistryInv

\* A registration keeps the invariant.
LEMMA RegisterInv ==
    ASSUME RegistryInv, NEW r \in Registries, NEW w \in Wallets,
           NEW id \in Identities, NEW c \in Countries, RegisterIdentity(r, w, id, c)
    PROVE  RegistryInv' /\ ForgotSome
<1>1. /\ identities \in [Wallets -> IdentityRecords]
      /\ identityWallets \in IndexedListsOf(Wallets)
      /\ Consistent(identityWallets)
      /\ Members(identityWallets) = RegisteredWallets
      /\ \A v \in Wallets : identities[v].recoveredWallet # None
            => v \in lostWallets /\ ~Stored(identities, v)
  BY InvFacts
<1>2. /\ ~Stored(identities, w)
      /\ identities' = Added(identities, w, id, c)
      /\ identityWallets' = PushItem(identityWallets, w)
      /\ UNCHANGED <<lostWallets, boundRegistries, storageModifiers>>
  BY DEF RegisterIdentity, Contains
<1>3. /\ identities' \in [Wallets -> IdentityRecords]
      /\ Stored(identities', w)
      /\ identities'[w].recoveredWallet = None
      /\ \A v \in Wallets \ {w} : identities'[v] = identities[v]
  BY <1>1, <1>2, AddedFacts
<1>4. w \notin Members(identityWallets)
  BY <1>1, <1>2 DEF RegisteredWallets
<1>5. /\ identityWallets' \in IndexedListsOf(Wallets)
      /\ Consistent(identityWallets')
      /\ Members(identityWallets') = Members(identityWallets) \cup {w}
  BY <1>1, <1>2, <1>4, PushItemFacts
<1>6. RegisteredWallets' = RegisteredWallets \cup {w}
  BY <1>3 DEF RegisteredWallets, Stored
<1>7. RecoveryLinksAcyclic'
  <2>1. \A v \in Wallets :
           identities'[v].recoveredWallet \in {None, identities[v].recoveredWallet}
    BY <1>3
  <2> QED
    BY <2>1, FewerLinksAcyclic DEF RegistryInv
<1>8. \A v \in Wallets : identities'[v].recoveredWallet # None
         => v \in lostWallets' /\ ~Stored(identities', v)
  BY <1>1, <1>2, <1>3 DEF Stored
<1>9. lostWallets' \subseteq Wallets /\ lostWallets \subseteq lostWallets'
  BY <1>2 DEF RegistryInv, StorageTypeOK
<1>10. ForgotSome
  <2>1. \A v \in Wallets : LinkOf(identities', v) =
           IF v \in {w} \cap lostWallets THEN None ELSE LinkOf(identities, v)
    BY <1>1, <1>3 DEF LinkOf
  <2> QED
    BY <2>1, <1>2 DEF ForgotSome
<1> QED
  BY <1>1, <1>2, <1>3, <1>5, <1>6, <1>7, <1>8, <1>9, IdentityStepInv, <1>10

\* The batch is the second registration applied to the first one's result.
LEMMA BatchRegisterInv ==
    ASSUME RegistryInv, NEW r \in Registries, NEW w1 \in Wallets, NEW w2 \in Wallets,
           NEW id1 \in Identities, NEW id2 \in Identities, NEW c \in Countries,
           BatchRegisterIdentity(r, w1, w2, id1, id2, c)
    PROVE  RegistryInv' /\ ForgotSome
<1> DEFINE first == Added(identities, w1, id1, c)
<1> DEFINE list == PushItem(identityWallets, w1)
<1>1. /\ identities \in [Wallets -> IdentityRecords]
      /\ identityWallets \in IndexedListsOf(Wallets)
      /\ Consistent(identityWallets)
      /\ Members(identityWallets) = RegisteredWallets
      /\ \A v \in Wallets : identities[v].recoveredWallet # None
            => v \in lostWallets /\ ~Stored(identities, v)
  BY InvFacts
<1>2. /\ ~Stored(identities, w1)
      /\ ~Stored(first, w2)
      /\ identities' = Added(first, w2, id2, c)
      /\ identityWallets' = PushItem(list, w2)
      /\ UNCHANGED <<lostWallets, boundRegistries, storageModifiers>>
  BY DEF BatchRegisterIdentity, Contains
<1>3. /\ first \in [Wallets -> IdentityRecords]
      /\ Stored(first, w1)
      /\ first[w1].recoveredWallet = None
      /\ \A v \in Wallets \ {w1} : first[v] = identities[v]
  BY <1>1, AddedFacts
<1> HIDE DEF first
<1>4. /\ identities' \in [Wallets -> IdentityRecords]
      /\ Stored(identities', w2)
      /\ identities'[w2].recoveredWallet = None
      /\ \A v \in Wallets \ {w2} : identities'[v] = first[v]
  BY <1>2, <1>3, AddedFacts
<1>5. w1 # w2
  BY <1>2, <1>3
<1>6. ~Stored(identities, w2)
  BY <1>2, <1>3, <1>5 DEF Stored
<1>7. w1 \notin Members(identityWallets)
  BY <1>1, <1>2 DEF RegisteredWallets
<1>8. /\ list \in IndexedListsOf(Wallets)
      /\ Consistent(list)
      /\ Members(list) = Members(identityWallets) \cup {w1}
  BY <1>1, <1>7, PushItemFacts
<1> HIDE DEF list
<1>9. w2 \notin Members(list)
  BY <1>1, <1>5, <1>6, <1>8 DEF RegisteredWallets
<1>10. /\ identityWallets' \in IndexedListsOf(Wallets)
       /\ Consistent(identityWallets')
       /\ Members(identityWallets') = Members(list) \cup {w2}
  BY <1>2, <1>8, <1>9, PushItemFacts
<1>11. /\ Stored(identities', w1)
       /\ identities'[w1].recoveredWallet = None
       /\ \A v \in Wallets \ {w1, w2} : identities'[v] = identities[v]
  BY <1>3, <1>4, <1>5 DEF Stored
<1>12. RegisteredWallets' = RegisteredWallets \cup {w1, w2}
  BY <1>4, <1>11 DEF RegisteredWallets, Stored
<1>13. RecoveryLinksAcyclic'
  <2>1. \A v \in Wallets :
           identities'[v].recoveredWallet \in {None, identities[v].recoveredWallet}
    BY <1>4, <1>11
  <2> QED
    BY <2>1, FewerLinksAcyclic DEF RegistryInv
<1>14. \A v \in Wallets : identities'[v].recoveredWallet # None
         => v \in lostWallets' /\ ~Stored(identities', v)
  BY <1>1, <1>2, <1>4, <1>11 DEF Stored
<1>15. lostWallets' \subseteq Wallets /\ lostWallets \subseteq lostWallets'
  BY <1>2 DEF RegistryInv, StorageTypeOK
<1>16. Members(identityWallets') = RegisteredWallets'
  BY <1>1, <1>8, <1>10, <1>12
<1>17. ForgotSome
  <2>1. \A v \in Wallets : LinkOf(identities', v) =
           IF v \in {w1, w2} \cap lostWallets THEN None ELSE LinkOf(identities, v)
    BY <1>1, <1>4, <1>11 DEF LinkOf
  <2> QED
    BY <2>1, <1>2 DEF ForgotSome
<1> QED
  BY <1>2, <1>4, <1>10, <1>13, <1>14, <1>15, <1>16, IdentityStepInv, <1>17

\* A removal keeps the invariant.
LEMMA DeleteInv ==
    ASSUME RegistryInv, NEW r \in Registries, NEW w \in Wallets, DeleteIdentity(r, w)
    PROVE  RegistryInv' /\ ForgotSome
<1>1. /\ identities \in [Wallets -> IdentityRecords]
      /\ identityWallets \in IndexedListsOf(Wallets)
      /\ Consistent(identityWallets)
      /\ Members(identityWallets) = RegisteredWallets
      /\ \A v \in Wallets : identities[v].recoveredWallet # None
            => v \in lostWallets /\ ~Stored(identities, v)
  BY InvFacts
<1>2. /\ Stored(identities, w)
      /\ identities' = Removed(identities, w)
      /\ identityWallets' = SwapAndPop(identityWallets, w)
      /\ UNCHANGED <<lostWallets, boundRegistries, storageModifiers>>
  BY DEF DeleteIdentity, Contains
<1>3. /\ identities' \in [Wallets -> IdentityRecords]
      /\ ~Stored(identities', w)
      /\ identities'[w].recoveredWallet = None
      /\ \A v \in Wallets \ {w} : identities'[v] = identities[v]
  BY <1>1, <1>2, RemovedFacts
<1>4. w \in Members(identityWallets)
  BY <1>1, <1>2 DEF RegisteredWallets
<1>5. /\ identityWallets' \in IndexedListsOf(Wallets)
      /\ Consistent(identityWallets')
      /\ Members(identityWallets') = Members(identityWallets) \ {w}
  BY <1>1, <1>2, <1>4, SwapAndPopFacts
<1>6. RegisteredWallets' = RegisteredWallets \ {w}
  BY <1>3 DEF RegisteredWallets, Stored
<1>7. RecoveryLinksAcyclic'
  <2>1. \A v \in Wallets :
           identities'[v].recoveredWallet \in {None, identities[v].recoveredWallet}
    BY <1>3
  <2> QED
    BY <2>1, FewerLinksAcyclic DEF RegistryInv
<1>8. \A v \in Wallets : identities'[v].recoveredWallet # None
         => v \in lostWallets' /\ ~Stored(identities', v)
  BY <1>1, <1>2, <1>3 DEF Stored
<1>9. lostWallets' \subseteq Wallets /\ lostWallets \subseteq lostWallets'
  BY <1>2 DEF RegistryInv, StorageTypeOK
<1>10. ForgotSome
  <2>1. \A v \in Wallets : LinkOf(identities', v) = LinkOf(identities, v)
    BY <1>1, <1>2, <1>3 DEF LinkOf
  <2> QED
    BY <2>1, <1>2, NothingForgotten
<1> QED
  BY <1>1, <1>2, <1>3, <1>5, <1>6, <1>7, <1>8, <1>9, IdentityStepInv, <1>10

\* Updating a field of a registered wallet moves neither links nor registration.
LEMMA UpdateInv ==
    ASSUME RegistryInv, NEW r \in Registries, NEW w \in Wallets,
           \/ \E c \in Countries : UpdateCountry(r, w, c)
           \/ \E id \in Identities : UpdateIdentity(r, w, id)
    PROVE  RegistryInv' /\ ForgotSome
<1>1. /\ identities \in [Wallets -> IdentityRecords]
      /\ identityWallets \in IndexedListsOf(Wallets)
      /\ Consistent(identityWallets)
      /\ Members(identityWallets) = RegisteredWallets
      /\ \A v \in Wallets : identities[v].recoveredWallet # None
            => v \in lostWallets /\ ~Stored(identities, v)
  BY InvFacts
<1>2. /\ Stored(identities, w)
      /\ \/ \E id \in Identities : identities' = ModifyIdentity(identities, w, id)
         \/ \E c \in Countries : identities' = ModifyCountry(identities, w, c)
      /\ UNCHANGED <<identityWallets, lostWallets, boundRegistries, storageModifiers>>
  BY DEF UpdateCountry, UpdateIdentity, Contains
<1>3. /\ identities' \in [Wallets -> IdentityRecords]
      /\ \A v \in Wallets : /\ Stored(identities', v) <=> Stored(identities, v)
                            /\ identities'[v].recoveredWallet = identities[v].recoveredWallet
  BY <1>1, <1>2, ModifiedFacts
<1>4. RegisteredWallets' = RegisteredWallets
  BY <1>3 DEF RegisteredWallets
<1>5. RecoveryLinksAcyclic'
  <2>1. \A v \in Wallets :
           identities'[v].recoveredWallet \in {None, identities[v].recoveredWallet}
    BY <1>3
  <2> QED
    BY <2>1, FewerLinksAcyclic DEF RegistryInv
<1>6. \A v \in Wallets : identities'[v].recoveredWallet # None
         => v \in lostWallets' /\ ~Stored(identities', v)
  BY <1>1, <1>2, <1>3
<1>7. lostWallets' \subseteq Wallets /\ lostWallets \subseteq lostWallets'
  BY <1>2 DEF RegistryInv, StorageTypeOK
<1>8. ForgotSome
  <2>1. \A v \in Wallets : LinkOf(identities', v) = LinkOf(identities, v)
    BY <1>3 DEF LinkOf
  <2> QED
    BY <2>1, <1>2, NothingForgotten
<1> QED
  BY <1>1, <1>2, <1>3, <1>4, <1>5, <1>6, <1>7, IdentityStepInv, <1>8

\* A recovery, of a wallet that may be linked to already, keeps the invariant.
LEMMA RecoverInv ==
    ASSUME RegistryInv, NEW r \in Registries, NEW lost \in Wallets, NEW new \in Wallets,
           NEW id \in Identities, RecoverIdentity(r, lost, new, id)
    PROVE  RegistryInv' /\ RecoveredOne
<1> DEFINE needsRegistration == ~Contains(new)
<1> DEFINE country == identities[lost].country
<1> DEFINE removed == Removed(identities, lost)
<1> DEFINE added == IF needsRegistration THEN Added(removed, new, id, country) ELSE removed
<1> DEFINE listed == SwapAndPop(identityWallets, lost)
<1>1. /\ identities \in [Wallets -> IdentityRecords]
      /\ identityWallets \in IndexedListsOf(Wallets)
      /\ Consistent(identityWallets)
      /\ Members(identityWallets) = RegisteredWallets
      /\ \A v \in Wallets : identities[v].recoveredWallet # None
            => v \in lostWallets /\ ~Stored(identities, v)
  BY InvFacts
<1>2. /\ Stored(identities, lost)
      /\ lost \notin lostWallets
      /\ new \notin lostWallets
      /\ identities' = Linked(added, lost, new)
      /\ identityWallets' = IF needsRegistration THEN PushItem(listed, new) ELSE listed
      /\ lostWallets' = lostWallets \cup {lost}
      /\ UNCHANGED <<boundRegistries, storageModifiers>>
  BY DEF RecoverIdentity, CanReplace, Contains
<1>3. /\ needsRegistration <=> ~Stored(identities, new)
      /\ needsRegistration => new # lost
      /\ identities[new].recoveredWallet = None
      /\ country \in Countries
  BY <1>1, <1>2 DEF Contains, IdentityRecords
<1>4. /\ removed \in [Wallets -> IdentityRecords]
      /\ ~Stored(removed, lost)
      /\ removed[lost].recoveredWallet = None
      /\ \A v \in Wallets \ {lost} : removed[v] = identities[v]
  BY <1>1, RemovedFacts
<1> HIDE DEF removed
<1>5. /\ added \in [Wallets -> IdentityRecords]
      /\ ~Stored(added, lost)
      /\ new # lost => Stored(added, new) /\ added[new].recoveredWallet = None
      /\ \A v \in Wallets \ {lost, new} : added[v] = identities[v]
  <2>1. CASE needsRegistration
    <3> DEFINE a == Added(removed, new, id, country)
    <3>1. added = a
      BY <2>1
    <3>4. removed \in [Wallets -> IdentityRecords] /\ country \in Countries
      BY <1>3, <1>4
    <3> HIDE DEF country, added
    <3>2. /\ a \in [Wallets -> IdentityRecords]
          /\ Stored(a, new)
          /\ a[new].recoveredWallet = None
          /\ \A v \in Wallets \ {new} : a[v] = removed[v]
      BY ONLY <3>4, new \in Wallets, id \in Identities, AddedFacts
    <3> HIDE DEF a
    <3>3. /\ ~Stored(a, lost)
          /\ \A v \in Wallets \ {lost, new} : a[v] = identities[v]
      BY <3>2, <2>1, <1>3, <1>4 DEF Stored
    <3> QED
      BY <3>1, <3>2, <3>3
  <2>2. CASE ~needsRegistration
    BY <2>2, <1>3, <1>4 DEF Stored
  <2> QED
    BY <2>1, <2>2
<1> HIDE DEF added
<1>6. /\ identities' \in [Wallets -> IdentityRecords]
      /\ identities'[lost].recoveredWallet = new
      /\ ~Stored(identities', lost)
      /\ new # lost => Stored(identities', new) /\ identities'[new].recoveredWallet = None
      /\ \A v \in Wallets \ {lost, new} : identities'[v] = identities[v]
  <2>1. /\ identities' \in [Wallets -> IdentityRecords]
        /\ identities'[lost].recoveredWallet = new
        /\ Stored(identities', lost) <=> Stored(added, lost)
        /\ \A v \in Wallets \ {lost} : identities'[v] = added[v]
    BY <1>2, <1>5, LinkedFacts
  <2> QED
    BY <2>1, <1>5 DEF Stored
<1>7. RegisteredWallets' = (RegisteredWallets \ {lost}) \cup ({new} \ {lost})
  BY <1>6 DEF RegisteredWallets, Stored
<1>8. lost \in Members(identityWallets)
  BY <1>1, <1>2 DEF RegisteredWallets
<1>9. /\ listed \in IndexedListsOf(Wallets)
      /\ Consistent(listed)
      /\ Members(listed) = RegisteredWallets \ {lost}
  BY <1>1, <1>8, SwapAndPopFacts
<1> HIDE DEF listed
<1>10. /\ identityWallets' \in IndexedListsOf(Wallets)
       /\ Consistent(identityWallets')
       /\ Members(identityWallets') = RegisteredWallets'
  <2>1. CASE needsRegistration
    <3>1. new \notin Members(listed)
      BY <2>1, <1>3, <1>9 DEF RegisteredWallets
    <3>2. identityWallets' = PushItem(listed, new)
      BY <2>1, <1>2
    <3> QED
      BY <3>1, <3>2, <2>1, <1>3, <1>7, <1>9, PushItemFacts
  <2>2. CASE ~needsRegistration
    <3>1. identityWallets' = listed /\ new \in RegisteredWallets
      BY <2>2, <1>2, <1>3 DEF RegisteredWallets
    <3> QED
      BY <3>1, <1>7, <1>9
  <2> QED
    BY <2>1, <2>2
<1>11. RecoveryLinksAcyclic'
  <2>1. RecoveryLinksAcyclic
    BY DEF RegistryInv
  <2>2. \A w \in Wallets \ {lost} :
           identities'[w].recoveredWallet \in {None, identities[w].recoveredWallet}
    BY <1>6
  <2> QED
    BY <2>1, <2>2, <1>6, NewLinkAcyclic
<1>12. \A v \in Wallets : identities'[v].recoveredWallet # None
         => v \in lostWallets' /\ ~Stored(identities', v)
  BY <1>1, <1>2, <1>6 DEF Stored
<1>13. lostWallets' \subseteq Wallets /\ lostWallets \subseteq lostWallets'
  BY <1>2 DEF RegistryInv, StorageTypeOK
<1>14. RecoveredOne
  <2>1. \A v \in Wallets \ {lost} : LinkOf(identities', v) = LinkOf(identities, v)
    BY <1>3, <1>6 DEF LinkOf
  <2>2. LinkOf(identities', lost) = new
    BY <1>6 DEF LinkOf
  <2> QED
    BY <2>1, <2>2, <1>2 DEF RecoveredOne
<1> QED
  BY <1>2, <1>6, <1>10, <1>11, <1>12, <1>13, IdentityStepInv, <1>14

\* Every transaction of a registry keeps the invariant.
LEMMA StepInv == RegistryInv /\ [RegistryNext]_storageVars => RegistryInv'
<1> SUFFICES ASSUME RegistryInv, [RegistryNext]_storageVars PROVE RegistryInv'
  OBVIOUS
<1>1. CASE RegistryNext
  BY <1>1, BindingInv, RegisterInv, BatchRegisterInv, DeleteInv, UpdateInv, RecoverInv
     DEF RegistryNext, RightsStep
<1>2. CASE UNCHANGED storageVars
  BY <1>2 DEF storageVars, RegistryInv, StorageTypeOK, EnumerationExact, BindingExact,
              LinksOnlyFromLost, LinkedWalletIsUnregistered, RecoveryLinksAcyclic,
              RegisteredWallets, Contains, Stored
<1> QED
  BY <1>1, <1>2

-----------------------------------------------------------------------------
(* The theorems.                                                           *)

\* The invariant holds in every state of every run of the registries.
THEOREM RegistryInvariant == RegistrySpec => []RegistryInv
<1>1. RegistryInit => RegistryInv
  BY InitInv
<1>2. RegistryInv /\ [RegistryNext]_storageVars => RegistryInv'
  BY StepInv
<1> QED
  BY <1>1, <1>2, PTL DEF RegistrySpec

\* The enumeration of registered wallets and the list of bound registries
\* are exact whatever the order of insertions, removals and recoveries.
THEOREM EnumerationsExact == RegistrySpec => []ListsExact
<1>1. RegistryInv => ListsExact
  BY DEF RegistryInv, ListsExact
<1> QED
  BY <1>1, RegistryInvariant, PTL

\* Links never run in a circle: every chain of token recoveries ends, for any
\* number of wallets.
THEOREM RecoveryChainsEnd == RegistrySpec => []RecoveryLinksAcyclic
<1>1. RegistryInv => RecoveryLinksAcyclic
  BY DEF RegistryInv
<1> QED
  BY <1>1, RegistryInvariant, PTL

\* A link starts at a lost wallet without a registration, whatever is
\* registered, removed and recovered around it.
THEOREM LinksStartAtRetired == RegistrySpec => []LinksOnlyFromRetired
<1>1. RegistryInv => LinksOnlyFromRetired
  BY DEF RegistryInv, LinksOnlyFromRetired
<1> QED
  BY <1>1, RegistryInvariant, PTL

\* What one wallet's link may do in a step.
LinkKept(w) ==
    identities[w].recoveredWallet \notin {None, identities'[w].recoveredWallet}
        => ~Stored(identities, w) /\ Stored(identities', w)

\* Every transaction keeps the link of a wallet that has one, unless it
\* registers that wallet.
LEMMA LinkKeptByStep ==
    ASSUME RegistryInv, RegistryNext, NEW w \in Wallets
    PROVE  LinkKept(w)
<1>1. /\ identities \in [Wallets -> IdentityRecords]
      /\ identities[w].recoveredWallet # None => w \in lostWallets /\ ~Stored(identities, w)
  BY DEF RegistryInv, StorageTypeOK, LinksOnlyFromLost, LinkedWalletIsUnregistered, Contains
<1>2. ASSUME RightsStep PROVE LinkKept(w)
  BY <1>2 DEF LinkKept, RightsStep, BindIdentityRegistry, UnbindIdentityRegistry,
              RevokeFromAdmin, GrantToAdmin
<1>3. ASSUME NEW r \in Registries, NEW v \in Wallets, NEW id \in Identities,
             NEW c \in Countries, RegisterIdentity(r, v, id, c)
      PROVE  LinkKept(w)
  <2>1. ~Stored(identities, v) /\ identities' = Added(identities, v, id, c)
    BY <1>3 DEF RegisterIdentity, Contains
  <2>2. /\ Stored(identities', v)
        /\ \A x \in Wallets \ {v} : identities'[x] = identities[x]
    BY <1>1, <2>1, AddedFacts
  <2> QED
    BY <2>1, <2>2 DEF LinkKept
<1>4. ASSUME NEW r \in Registries, NEW w1 \in Wallets, NEW w2 \in Wallets,
             NEW id1 \in Identities, NEW id2 \in Identities, NEW c \in Countries,
             BatchRegisterIdentity(r, w1, w2, id1, id2, c)
      PROVE  LinkKept(w)
  <2> DEFINE first == Added(identities, w1, id1, c)
  <2>1. /\ ~Stored(identities, w1) /\ ~Stored(first, w2)
        /\ identities' = Added(first, w2, id2, c)
    BY <1>4 DEF BatchRegisterIdentity, Contains
  <2>2. /\ first \in [Wallets -> IdentityRecords]
        /\ Stored(first, w1)
        /\ \A v \in Wallets \ {w1} : first[v] = identities[v]
    BY <1>1, AddedFacts
  <2> HIDE DEF first
  <2>3. /\ Stored(identities', w2)
        /\ \A v \in Wallets \ {w2} : identities'[v] = first[v]
    BY <2>1, <2>2, AddedFacts
  <2>4. w1 # w2
    BY <2>1, <2>2
  <2> QED
    BY <2>1, <2>2, <2>3, <2>4 DEF LinkKept, Stored
<1>5. ASSUME NEW r \in Registries, NEW v \in Wallets, DeleteIdentity(r, v)
      PROVE  LinkKept(w)
  BY <1>1, <1>5, RemovedFacts DEF LinkKept, DeleteIdentity, Contains
<1>6. ASSUME NEW r \in Registries, NEW v \in Wallets,
             \/ \E c \in Countries : UpdateCountry(r, v, c)
             \/ \E id \in Identities : UpdateIdentity(r, v, id)
      PROVE  LinkKept(w)
  <2>1. Stored(identities, v)
    BY <1>6 DEF UpdateCountry, UpdateIdentity, Contains
  <2>2. \/ \E id \in Identities : identities' = ModifyIdentity(identities, v, id)
        \/ \E c \in Countries : identities' = ModifyCountry(identities, v, c)
    BY <1>6 DEF UpdateCountry, UpdateIdentity
  <2>3. identities'[w].recoveredWallet = identities[w].recoveredWallet
    BY <1>1, <2>1, <2>2, ModifiedFacts
  <2> QED
    BY <2>3 DEF LinkKept
<1>7. ASSUME NEW r \in Registries, NEW lost \in Wallets, NEW new \in Wallets,
             NEW id \in Identities, RecoverIdentity(r, lost, new, id)
      PROVE  LinkKept(w)
  <2> DEFINE removed == Removed(identities, lost)
             c == identities[lost].country
             added == IF ~Contains(new) THEN Added(removed, new, id, c) ELSE removed
  <2>1. /\ Stored(identities, lost) /\ new \notin lostWallets
        /\ identities' = Linked(added, lost, new)
    BY <1>7 DEF RecoverIdentity, CanReplace, Contains
  <2>2. /\ removed \in [Wallets -> IdentityRecords]
        /\ \A v \in Wallets \ {lost} : removed[v] = identities[v]
    BY <1>1, RemovedFacts
  <2> HIDE DEF removed
  <2>3. c \in Countries
    BY <1>1 DEF IdentityRecords
  <2> HIDE DEF c
  <2>4. /\ added \in [Wallets -> IdentityRecords]
        /\ \A v \in Wallets \ {lost, new} : added[v] = identities[v]
    <3>1. CASE Contains(new)
      BY <2>2, <3>1
    <3>2. CASE ~Contains(new)
      <4>1. /\ added = Added(removed, new, id, c)
            /\ added \in [Wallets -> IdentityRecords]
            /\ \A v \in Wallets \ {new} : added[v] = removed[v]
        BY <2>2, <2>3, <3>2, AddedFacts
      <4> QED
        BY <2>2, <4>1
    <3> QED
      BY <3>1, <3>2
  <2> HIDE DEF added
  <2>5. \A v \in Wallets \ {lost, new} : identities'[v] = identities[v]
    BY <2>1, <2>4, LinkedFacts
  <2> QED
    BY <1>1, <2>1, <2>5 DEF LinkKept
<1> QED
  BY <1>2, <1>3, <1>4, <1>5, <1>6, <1>7 DEF RegistryNext, RightsStep

\* A link once set is neither erased nor redirected but by registering the lost
\* wallet itself again: not by the recovery of its target, nor by a removal.
THEOREM LinksArePermanent == RegistrySpec => LinkChangedOnlyByRegistration
<1>1. RegistryInv /\ [RegistryNext]_storageVars
        => [\A w \in Wallets :
              identities[w].recoveredWallet \notin {None, identities'[w].recoveredWallet}
                => ~Stored(identities, w) /\ Stored(identities', w)]_storageVars
  BY LinkKeptByStep DEF LinkKept
<1> QED
  BY <1>1, RegistryInvariant, PTL DEF RegistrySpec, LinkChangedOnlyByRegistration

-----------------------------------------------------------------------------
(* The registry implements what the tokens rely on.                        *)

\* What a transaction of a registry may look like to a token: one recovery, or
\* wallets forgotten.
LEMMA StepSeenByTokens ==
    ASSUME RegistryInv, RegistryNext
    PROVE  RecoveredOne \/ ForgotSome
<1>1. CASE RightsStep
  <2>1. UNCHANGED <<identities, lostWallets>>
    BY <1>1 DEF RightsStep, BindIdentityRegistry, UnbindIdentityRegistry,
                RevokeFromAdmin, GrantToAdmin
  <2>2. \A v \in Wallets : LinkOf(identities', v) = LinkOf(identities, v)
    BY <2>1
  <2> QED
    BY <2>1, <2>2, NothingForgotten
<1> QED
  BY <1>1, RegisterInv, BatchRegisterInv, DeleteInv, UpdateInv, RecoverInv
     DEF RegistryNext, RightsStep

\* Every step of the registry is, for the tokens, a recovery, a forgetting or
\* nothing: the specification SMARTToken builds on is implemented by the
\* registry for any number of wallets, identities and registries.
THEOREM RegistryImplementsRecovery == RegistrySpec => ImplementsRecovery
<1> DEFINE links == [w \in Wallets |-> identities[w].recoveredWallet]
<1>1. RegistryInit => Tokens!RecoveryInit
  BY DEF RegistryInit, StorageInit, NoIdentity, Tokens!RecoveryInit
<1>2. RegistryInv /\ [RegistryNext]_storageVars
         => [Tokens!RecoveryNext]_(Tokens!recoveryVars)
  <2> SUFFICES ASSUME RegistryInv, RegistryNext
               PROVE  Tokens!RecoveryNext
    BY DEF storageVars, Tokens!recoveryVars
  <2>1. lostWallets \subseteq Wallets
    BY DEF RegistryInv, StorageTypeOK
  <2>2. CASE RecoveredOne
    <3>1. PICK l \in Wallets \ lostWallets, n \in Wallets \ lostWallets :
             /\ lostWallets' = lostWallets \cup {l}
             /\ LinkOf(identities', l) = n
             /\ \A v \in Wallets \ {l} : LinkOf(identities', v) = LinkOf(identities, v)
      BY <2>2 DEF RecoveredOne
    <3>2. links' = [links EXCEPT ![l] = n]
      BY <3>1 DEF LinkOf
    <3>3. Tokens!Recover(l, n)
      BY <3>1, <3>2 DEF Tokens!Recover
    <3> QED
      BY <3>3 DEF Tokens!RecoveryNext
  <2>3. CASE ForgotSome
    <3>1. PICK ws \in SUBSET lostWallets : \A v \in Wallets :
             LinkOf(identities', v) = IF v \in ws THEN None ELSE LinkOf(identities, v)
      BY <2>3 DEF ForgotSome
    <3>2. links' = [w \in Wallets |-> IF w \in ws THEN None ELSE links[w]]
      BY <3>1 DEF LinkOf
    <3>3. Tokens!Forget(ws)
      BY <3>1, <3>2, <2>3 DEF Tokens!Forget, ForgotSome
    <3> QED
      BY <3>3, <2>1 DEF Tokens!RecoveryNext
  <2> QED
    BY <2>2, <2>3, StepSeenByTokens
<1> QED
  BY <1>1, <1>2, RegistryInvariant, PTL
     DEF RegistrySpec, ImplementsRecovery, Tokens!RecoverySpec

(***************************************************************************)
(* The index of the registries observes them without disturbing them, and  *)
(* only a recovery, or a removal from a shared identity, makes it stale.   *)
(* Its list of the storage's writers is the storage's own set of them,     *)
(* however it is reordered: that needs that it names nobody twice.         *)
(***************************************************************************)

USE RegistryAssumption

\* The holders of the role, each listed once.
HoldersExact ==
    /\ storageModifier \in Seq(Registries \cup {Admin})
    /\ IndexedHoldersExact

RegistryIndexInv ==
    /\ RegistryInv
    /\ identityRegistry \in [Identities -> Registries \cup {None}]
    /\ accountCountry \in [Wallets -> Countries \cup {None}]
    /\ HoldersExact

\* What a step keeps of the index.
IdentitiesKept ==
    \A id \in Identities :
        IdentityIndexed(id) /\ (\A v, w \in WalletsOf(id) : v = w) => IdentityIndexed(id)'

CountriesKept == \A w \in Wallets : CountryIndexed(w) => CountryIndexed(w)'

IndexTypesKept ==
    /\ identityRegistry' \in [Identities -> Registries \cup {None}]
    /\ accountCountry' \in [Wallets -> Countries \cup {None}]

-----------------------------------------------------------------------------
(* The index is an observer.                                               *)

\* A transaction with its handlers is a transaction.
LEMMA IndexedStepIsRegistryStep == IndexedRegistryNext => RegistryNext
BY DEF IndexedRegistryNext, SomeRecovery, IndexedRecover, IndexedBind, IndexedUnbind,
       IndexedRegister, IndexedBatchRegister, IndexedDelete, IndexedUpdateCountry,
       IndexedUpdateIdentity, IndexedRevokeFromAdmin, IndexedGrantToAdmin, RegistryNext

\* The registries beside their index behave as the registries alone.
THEOREM IndexedRegistryIsRegistry == IndexedRegistrySpec => RegistrySpec
<1>1. IndexedRegistryInit => RegistryInit
  BY DEF IndexedRegistryInit
<1>2. [IndexedRegistryNext]_indexedRegistryVars => [RegistryNext]_storageVars
  BY IndexedStepIsRegistryStep DEF indexedRegistryVars
<1> QED
  BY <1>1, <1>2, PTL DEF IndexedRegistrySpec, RegistrySpec

-----------------------------------------------------------------------------
(* The transactions.                                                       *)

\* The parts of the index invariant the steps below need.
LEMMA RegistryIndexFacts ==
    ASSUME RegistryIndexInv
    PROVE  /\ identities \in [Wallets -> IdentityRecords]
           /\ \A w \in Wallets : /\ identities[w].identityContract \in Identities \cup {None}
                                 /\ Contains(w) => identities[w].identityContract \in Identities
           /\ identityRegistry \in [Identities -> Registries \cup {None}]
           /\ accountCountry \in [Wallets -> Countries \cup {None}]
BY DEF RegistryIndexInv, RegistryInv, StorageTypeOK, IdentityRecords, Contains, Stored

\* New registrations of the wallets ws, whichever identities they share.
LEMMA RegisteringKeeps ==
    ASSUME RegistryIndexInv, NEW ws \in SUBSET Wallets,
           \A w \in ws :
              /\ ~Contains(w)
              /\ identities'[w].identityContract \in Identities
              /\ identityRegistry'[identities'[w].identityContract] \in Registries
              /\ accountCountry'[w] = identities'[w].country,
           \A w \in Wallets \ ws :
              identities'[w] = identities[w] /\ accountCountry'[w] = accountCountry[w],
           \A id \in Identities :
              \/ \E w \in ws : identities'[w].identityContract = id
              \/ identityRegistry'[id] = identityRegistry[id]
    PROVE  IdentitiesKept /\ CountriesKept
<1>1. ASSUME NEW id \in Identities, IdentityIndexed(id)
      PROVE  IdentityIndexed(id)'
  <2>1. CASE \E w \in ws : identities'[w].identityContract = id
    BY <2>1 DEF IdentityIndexed, WalletsOf
  <2>2. CASE ~\E w \in ws : identities'[w].identityContract = id
    <3>1. identityRegistry'[id] = identityRegistry[id]
      BY <2>2
    <3>2. \A w \in Wallets :
             identities'[w].identityContract = id <=> identities[w].identityContract = id
      BY <2>2 DEF Contains, Stored
    <3> QED
      BY <1>1, <3>1, <3>2 DEF IdentityIndexed, WalletsOf
  <2> QED
    BY <2>1, <2>2
<1>2. CountriesKept
  BY DEF CountriesKept, CountryIndexed, Contains, Stored
<1> QED
  BY <1>1, <1>2 DEF IdentitiesKept

\* A registration with its handlers leaves no identity or country staler than
\* it was.
LEMMA RegisterKeeps ==
    ASSUME RegistryIndexInv, NEW r \in Registries, NEW w \in Wallets, NEW id \in Identities,
           NEW c \in Countries, IndexedRegister(r, w, id, c)
    PROVE  IdentitiesKept /\ CountriesKept /\ IndexTypesKept
<1>1. /\ ~Contains(w)
      /\ identities' = Added(identities, w, id, c)
      /\ identityRegistry' = [identityRegistry EXCEPT ![id] = r]
      /\ accountCountry' = [accountCountry EXCEPT ![w] = c]
  BY DEF IndexedRegister, RegisterIdentity, HandleIdentityRegistered, HandleCountryUpdated
<1>2. /\ identities'[w].identityContract = id
      /\ identities'[w].country = c
      /\ \A v \in Wallets \ {w} : identities'[v] = identities[v]
  BY <1>1, RegistryIndexFacts DEF Added
<1>3. /\ identityRegistry'[id] = r
      /\ \A i \in Identities \ {id} : identityRegistry'[i] = identityRegistry[i]
      /\ accountCountry'[w] = c
      /\ \A v \in Wallets \ {w} : accountCountry'[v] = accountCountry[v]
  BY <1>1, RegistryIndexFacts
<1>4. IndexTypesKept
  BY <1>1, RegistryIndexFacts DEF IndexTypesKept
<1> DEFINE ws == {w}
<1>5. \A v \in ws :
         /\ ~Contains(v)
         /\ identities'[v].identityContract \in Identities
         /\ identityRegistry'[identities'[v].identityContract] \in Registries
         /\ accountCountry'[v] = identities'[v].country
  BY <1>1, <1>2, <1>3
<1>6. \A v \in Wallets \ ws :
         identities'[v] = identities[v] /\ accountCountry'[v] = accountCountry[v]
  BY <1>1, <1>2, <1>3
<1>7. \A i \in Identities :
         \/ \E v \in ws : identities'[v].identityContract = i
         \/ identityRegistry'[i] = identityRegistry[i]
  BY <1>1, <1>2, <1>3
<1>8. ws \in SUBSET Wallets
  OBVIOUS
<1> HIDE DEF ws
<1> QED
  BY <1>4, <1>5, <1>6, <1>7, <1>8, RegisteringKeeps

\* So does a batch of two registrations.
LEMMA BatchKeeps ==
    ASSUME RegistryIndexInv, NEW r \in Registries, NEW w1 \in Wallets, NEW w2 \in Wallets,
           NEW id1 \in Identities, NEW id2 \in Identities, NEW c \in Countries,
           IndexedBatchRegister(r, w1, w2, id1, id2, c)
    PROVE  IdentitiesKept /\ CountriesKept /\ IndexTypesKept
<1> DEFINE first == Added(identities, w1, id1, c)
<1>1. /\ ~Contains(w1)
      /\ ~Stored(first, w2)
      /\ identities' = Added(first, w2, id2, c)
      /\ identityRegistry' = [[identityRegistry EXCEPT ![id1] = r] EXCEPT ![id2] = r]
      /\ accountCountry' = [[accountCountry EXCEPT ![w1] = c] EXCEPT ![w2] = c]
  BY DEF IndexedBatchRegister, BatchRegisterIdentity, HandleIdentityRegistered,
         HandleCountryUpdated
<1>2. /\ first \in [Wallets -> IdentityRecords]
      /\ first[w1].identityContract = id1 /\ first[w1].country = c
      /\ \A v \in Wallets \ {w1} : first[v] = identities[v]
  BY RegistryIndexFacts, AddedFacts DEF Added
<1> HIDE DEF first
<1>3. w1 # w2 /\ ~Contains(w2)
  BY <1>1, <1>2 DEF Contains, Stored
<1>4. /\ identities'[w2].identityContract = id2 /\ identities'[w2].country = c
      /\ \A v \in Wallets \ {w2} : identities'[v] = first[v]
  BY <1>1, <1>2 DEF Added
<1>5. /\ identityRegistry'[id1] = r /\ identityRegistry'[id2] = r
      /\ \A i \in Identities \ {id1, id2} : identityRegistry'[i] = identityRegistry[i]
      /\ accountCountry'[w1] = c /\ accountCountry'[w2] = c
      /\ \A v \in Wallets \ {w1, w2} : accountCountry'[v] = accountCountry[v]
  BY <1>1, RegistryIndexFacts
<1>6. IndexTypesKept
  BY <1>1, RegistryIndexFacts DEF IndexTypesKept
<1> DEFINE ws == {w1, w2}
<1>7. \A v \in ws :
         /\ ~Contains(v)
         /\ identities'[v].identityContract \in Identities
         /\ identityRegistry'[identities'[v].identityContract] \in Registries
         /\ accountCountry'[v] = identities'[v].country
  BY <1>1, <1>2, <1>3, <1>4, <1>5
<1>8. \A v \in Wallets \ ws :
         identities'[v] = identities[v] /\ accountCountry'[v] = accountCountry[v]
  BY <1>1, <1>2, <1>3, <1>4, <1>5
<1>9. \A i \in Identities :
         \/ \E v \in ws : identities'[v].identityContract = i
         \/ identityRegistry'[i] = identityRegistry[i]
  BY <1>1, <1>2, <1>3, <1>4, <1>5
<1>10. ws \in SUBSET Wallets
  OBVIOUS
<1> HIDE DEF ws
<1> QED
  BY <1>6, <1>7, <1>8, <1>9, <1>10, RegisteringKeeps

\* So does a removal, unless the identity is shared.
LEMMA DeleteKeeps ==
    ASSUME RegistryIndexInv, NEW r \in Registries, NEW w \in Wallets, IndexedDelete(r, w)
    PROVE  IdentitiesKept /\ CountriesKept /\ IndexTypesKept
<1> DEFINE id == identities[w].identityContract
<1>1. /\ Contains(w)
      /\ identities' = Removed(identities, w)
      /\ identityRegistry' = [identityRegistry EXCEPT ![id] = None]
      /\ UNCHANGED accountCountry
  BY DEF IndexedDelete, DeleteIdentity, HandleIdentityRemoved
<1>2. /\ identities'[w].identityContract = None
      /\ \A v \in Wallets \ {w} : identities'[v] = identities[v]
  BY <1>1, RegistryIndexFacts DEF Removed, NoIdentity
<1>3. ASSUME NEW i \in Identities, IdentityIndexed(i), \A u, v \in WalletsOf(i) : u = v
      PROVE  IdentityIndexed(i)'
  <2>1. CASE i = id
    <3>1. identityRegistry'[i] = None
      BY <1>1, <2>1, RegistryIndexFacts
    <3>2. WalletsOf(i)' = {}
      BY <1>2, <1>3, <2>1 DEF WalletsOf
    <3> QED
      BY <3>1, <3>2 DEF IdentityIndexed
  <2>2. CASE i # id
    <3>1. identityRegistry'[i] = identityRegistry[i]
      BY <1>1, <2>2, RegistryIndexFacts
    <3>2. WalletsOf(i)' = WalletsOf(i)
      BY <1>2, <2>2 DEF WalletsOf
    <3> QED
      BY <1>3, <3>1, <3>2 DEF IdentityIndexed
  <2> QED
    BY <2>1, <2>2
<1>4. CountriesKept
  BY <1>1, <1>2 DEF CountriesKept, CountryIndexed, Contains, Stored
<1>5. IndexTypesKept
  BY <1>1, RegistryIndexFacts DEF IndexTypesKept
<1> QED
  BY <1>3, <1>4, <1>5 DEF IdentitiesKept

\* So does a change of country.
LEMMA UpdateCountryKeeps ==
    ASSUME RegistryIndexInv, NEW r \in Registries, NEW w \in Wallets, NEW c \in Countries,
           IndexedUpdateCountry(r, w, c)
    PROVE  IdentitiesKept /\ CountriesKept /\ IndexTypesKept
<1>1. /\ identities' = [identities EXCEPT ![w].country = c]
      /\ accountCountry' = [accountCountry EXCEPT ![w] = c]
      /\ UNCHANGED identityRegistry
  BY DEF IndexedUpdateCountry, UpdateCountry, ModifyCountry, HandleCountryUpdated
<1>2. /\ \A v \in Wallets : identities'[v].identityContract = identities[v].identityContract
      /\ identities'[w].country = c
      /\ \A v \in Wallets \ {w} : identities'[v] = identities[v]
  BY <1>1, RegistryIndexFacts DEF IdentityRecords
<1>3. IdentitiesKept
  BY <1>1, <1>2 DEF IdentitiesKept, IdentityIndexed, WalletsOf
<1>4. CountriesKept
  BY <1>1, <1>2, RegistryIndexFacts DEF CountriesKept, CountryIndexed, Contains, Stored
<1>5. IndexTypesKept
  BY <1>1, RegistryIndexFacts DEF IndexTypesKept
<1> QED
  BY <1>3, <1>4, <1>5

\* So does a change of identity.
LEMMA UpdateIdentityKeeps ==
    ASSUME RegistryIndexInv, NEW r \in Registries, NEW w \in Wallets, NEW new \in Identities,
           IndexedUpdateIdentity(r, w, new)
    PROVE  IdentitiesKept /\ CountriesKept /\ IndexTypesKept
<1> DEFINE old == identities[w].identityContract
<1>1. /\ Contains(w)
      /\ identities' = [identities EXCEPT ![w].identityContract = new]
      /\ identityRegistry' = [identityRegistry EXCEPT ![old] = None, ![new] = r]
      /\ UNCHANGED accountCountry
  BY DEF IndexedUpdateIdentity, UpdateIdentity, ModifyIdentity, HandleIdentityUpdated
<1>2. /\ identities'[w].identityContract = new
      /\ identities'[w].country = identities[w].country
      /\ \A v \in Wallets \ {w} : identities'[v] = identities[v]
  BY <1>1, RegistryIndexFacts DEF IdentityRecords
<1>3. ASSUME NEW i \in Identities, IdentityIndexed(i), \A u, v \in WalletsOf(i) : u = v
      PROVE  IdentityIndexed(i)'
  <2>1. CASE i = new
    <3>1. identityRegistry'[i] = r /\ w \in WalletsOf(i)'
      BY <1>1, <1>2, <2>1, RegistryIndexFacts DEF WalletsOf
    <3> QED
      BY <3>1 DEF IdentityIndexed
  <2>2. CASE i # new /\ i = old
    <3>1. identityRegistry'[i] = None
      BY <1>1, <2>2, RegistryIndexFacts
    <3>2. WalletsOf(i)' = {}
      BY <1>2, <1>3, <2>2 DEF WalletsOf
    <3> QED
      BY <3>1, <3>2 DEF IdentityIndexed
  <2>3. CASE i # new /\ i # old
    <3>1. identityRegistry'[i] = identityRegistry[i]
      BY <1>1, <2>3, RegistryIndexFacts
    <3>2. WalletsOf(i)' = WalletsOf(i)
      BY <1>2, <2>3 DEF WalletsOf
    <3> QED
      BY <1>3, <3>1, <3>2 DEF IdentityIndexed
  <2> QED
    BY <2>1, <2>2, <2>3
<1>4. CountriesKept
  BY <1>1, <1>2 DEF CountriesKept, CountryIndexed, Contains, Stored
<1>5. IndexTypesKept
  BY <1>1, RegistryIndexFacts DEF IndexTypesKept
<1> QED
  BY <1>3, <1>4, <1>5 DEF IdentitiesKept

\* A step that only changes who may write, with its handler.
IndexedRightsStep ==
    \/ \E r \in Registries : IndexedBind(r) \/ IndexedUnbind(r)
    \/ IndexedRevokeFromAdmin
    \/ IndexedGrantToAdmin

\* So does any change of who may write.
LEMMA BindingKeeps ==
    ASSUME RegistryIndexInv, IndexedRightsStep
    PROVE  IdentitiesKept /\ CountriesKept /\ IndexTypesKept
<1>1. UNCHANGED <<identities, identityRegistry, accountCountry>>
  BY DEF IndexedRightsStep, IndexedBind, IndexedUnbind, BindIdentityRegistry,
         UnbindIdentityRegistry, IndexedRevokeFromAdmin, IndexedGrantToAdmin,
         RevokeFromAdmin, GrantToAdmin
<1> QED
  BY <1>1, RegistryIndexFacts
  DEF IdentitiesKept, CountriesKept, IndexTypesKept, IdentityIndexed, WalletsOf,
      CountryIndexed, Contains, Stored

\* Every transaction that is no recovery keeps what the index has right.
LEMMA IndexStepKeeps ==
    ASSUME RegistryIndexInv, IndexedRegistryNext
    PROVE  /\ SomeRecovery \/ (IdentitiesKept /\ CountriesKept)
           /\ IndexTypesKept
<1>1. CASE SomeRecovery
  BY <1>1, RegistryIndexFacts
  DEF SomeRecovery, IndexedRecover, registryIndexVars, IndexTypesKept
<1>2. CASE ~SomeRecovery
  BY <1>2, BindingKeeps, RegisterKeeps, BatchKeeps, DeleteKeeps, UpdateCountryKeeps,
     UpdateIdentityKeeps DEF IndexedRegistryNext, IndexedRightsStep
<1> QED
  BY <1>1, <1>2

\* A grant of the role with its handler, and a revocation with its own, keep
\* the list exact, whoever the holder is.
LEMMA GrantKeepsHolders ==
    ASSUME HoldersExact, NEW h \in Registries \cup {Admin}, h \notin storageModifiers,
           HandleRoleGranted(h), storageModifiers' = storageModifiers \cup {h}
    PROVE  HoldersExact'
<1> DEFINE Holders == Registries \cup {Admin}
<1>1. /\ storageModifier \in Seq(Holders)
      /\ IsInjective(storageModifier)
      /\ Range(storageModifier) = storageModifiers
      /\ h \in Holders
  BY DEF HoldersExact, IndexedHoldersExact
<1>2. /\ h \notin Range(storageModifier)
      /\ storageModifier' = Append(storageModifier, h)
  BY <1>1 DEF HandleRoleGranted, Range
<1> HIDE DEF Holders
<1>3. /\ Append(storageModifier, h) \in Seq(Holders)
      /\ IsInjective(Append(storageModifier, h))
      /\ Range(Append(storageModifier, h)) = Range(storageModifier) \cup {h}
  BY <1>1, <1>2, AppendedFacts
<1> QED
  BY <1>1, <1>2, <1>3 DEF HoldersExact, IndexedHoldersExact, Holders

\* See GrantKeepsHolders.
LEMMA RevocationKeepsHolders ==
    ASSUME HoldersExact, NEW h \in Registries \cup {Admin}, h \in storageModifiers,
           HandleRoleRevoked(h), storageModifiers' = storageModifiers \ {h}
    PROVE  HoldersExact'
<1> DEFINE Holders == Registries \cup {Admin}
<1>1. /\ storageModifier \in Seq(Holders)
      /\ IsInjective(storageModifier)
      /\ Range(storageModifier) = storageModifiers
      /\ storageModifier' = WithoutItem(storageModifier, h)
  BY DEF HoldersExact, IndexedHoldersExact, HandleRoleRevoked
<1> HIDE DEF Holders
<1>2. /\ WithoutItem(storageModifier, h) \in Seq(Holders)
      /\ IsInjective(WithoutItem(storageModifier, h))
      /\ Range(WithoutItem(storageModifier, h)) = Range(storageModifier) \ {h}
  BY <1>1, WithoutItemFacts
<1> QED
  BY <1>1, <1>2 DEF HoldersExact, IndexedHoldersExact, Holders

\* A registry that is bound gains the role and one that is unbound had it,
\* since the list of bound registries is exact.
LEMMA HoldersKept ==
    ASSUME RegistryIndexInv, [IndexedRegistryNext]_indexedRegistryVars
    PROVE  HoldersExact'
<1>1. HoldersExact /\ Members(boundRegistries) = storageModifiers \ {Admin}
  BY DEF RegistryIndexInv, RegistryInv, BindingExact
<1>2. ASSUME NEW r \in Registries, IndexedBind(r)
      PROVE  HoldersExact'
  <2>1. /\ r \notin Members(boundRegistries)
        /\ HandleRoleGranted(r)
        /\ storageModifiers' = storageModifiers \cup {r}
    BY <1>2 DEF IndexedBind, BindIdentityRegistry
  <2>2. r \notin storageModifiers
    BY <1>1, <2>1
  <2> QED
    BY <1>1, <2>1, <2>2, GrantKeepsHolders
<1>3. ASSUME NEW r \in Registries, IndexedUnbind(r)
      PROVE  HoldersExact'
  <2>1. /\ r \in Members(boundRegistries)
        /\ HandleRoleRevoked(r)
        /\ storageModifiers' = storageModifiers \ {r}
    BY <1>3 DEF IndexedUnbind, UnbindIdentityRegistry
  <2>2. r \in storageModifiers
    BY <1>1, <2>1
  <2> QED
    BY <1>1, <2>1, <2>2, RevocationKeepsHolders
<1>4. CASE IndexedGrantToAdmin
  BY <1>1, <1>4, GrantKeepsHolders DEF IndexedGrantToAdmin, GrantToAdmin
<1>5. CASE IndexedRevokeFromAdmin
  BY <1>1, <1>5, RevocationKeepsHolders DEF IndexedRevokeFromAdmin, RevokeFromAdmin
<1>6. CASE ~IndexedRightsStep
  <2>1. UNCHANGED <<storageModifier, storageModifiers>>
    BY <1>6 DEF IndexedRightsStep, IndexedRegistryNext, indexedRegistryVars,
       registryIndexVars, storageVars, SomeRecovery, IndexedRecover, RecoverIdentity,
       IndexedRegister, RegisterIdentity, IndexedBatchRegister, BatchRegisterIdentity,
       IndexedDelete, DeleteIdentity, IndexedUpdateCountry, UpdateCountry,
       IndexedUpdateIdentity, UpdateIdentity
  <2> QED
    BY <1>1, <2>1 DEF HoldersExact, IndexedHoldersExact
<1> QED
  BY <1>2, <1>3, <1>4, <1>5, <1>6 DEF IndexedRightsStep

-----------------------------------------------------------------------------
(* The theorems.                                                           *)

\* Both indexes keep their types, beside registries that keep their invariant.
THEOREM RegistryIndexInvariant == IndexedRegistrySpec => []RegistryIndexInv
<1>1. IndexedRegistryInit => RegistryIndexInv
  <2> SUFFICES ASSUME IndexedRegistryInit PROVE RegistryIndexInv
    OBVIOUS
  <2>1. storageModifier = <<Admin>> /\ storageModifiers = {Admin}
    BY DEF IndexedRegistryInit, RegistryInit, StorageInit
  <2>2. HoldersExact
    BY <2>1 DEF HoldersExact, IndexedHoldersExact, IsInjective, Range
  <2> QED
    BY <2>2, InitInv DEF IndexedRegistryInit, RegistryIndexInv
<1>2. RegistryIndexInv /\ [IndexedRegistryNext]_indexedRegistryVars => RegistryIndexInv'
  <2> SUFFICES ASSUME RegistryIndexInv, [IndexedRegistryNext]_indexedRegistryVars
               PROVE  RegistryIndexInv'
    OBVIOUS
  <2>1. RegistryInv'
    <3>1. RegistryInv /\ [RegistryNext]_storageVars
      BY IndexedStepIsRegistryStep DEF RegistryIndexInv, indexedRegistryVars
    <3> QED
      BY <3>1, StepInv
  <2>2. IndexTypesKept
    BY IndexStepKeeps DEF RegistryIndexInv, IndexTypesKept, indexedRegistryVars,
                          registryIndexVars
  <2> QED
    BY <2>1, <2>2, HoldersKept DEF RegistryIndexInv, IndexTypesKept
<1> QED
  BY <1>1, <1>2, PTL DEF IndexedRegistrySpec

\* The index lists exactly the accounts that may write the storage: the admin
\* while it holds the role and the registries bound.
THEOREM HoldersIndexedExactly == IndexedRegistrySpec => []IndexedHoldersExact
<1>1. RegistryIndexInv => IndexedHoldersExact
  BY DEF RegistryIndexInv, HoldersExact
<1> QED
  BY <1>1, RegistryIndexInvariant, PTL

\* Only a recovery, or a removal from one of several wallets that share an
\* identity, makes the index of an identity or of a country stale.
THEOREM OnlyRecoveryMakesStale == IndexedRegistrySpec => IndexGoesStaleOnlyByRecovery
<1>1. RegistryIndexInv /\ [IndexedRegistryNext]_indexedRegistryVars
         => [SomeRecovery \/ (IdentitiesKept /\ CountriesKept)]_indexedRegistryVars
  BY IndexStepKeeps
<1> QED
  BY <1>1, RegistryIndexInvariant, PTL
  DEF IndexedRegistrySpec, IndexGoesStaleOnlyByRecovery, IdentitiesKept, CountriesKept
=============================================================================
