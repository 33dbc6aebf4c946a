CONSTANTS
    Wallets = {w1, w2, w3}
    Identities = {id1, id2}
    Countries = {0, 1}
    Registries = {r1, r2}
    Admin = Admin
    None = None
SYMMETRY Symmetry
SPECIFICATION IndexedRegistrySpec
INVARIANTS
    ListsExact
    LinksOnlyFromRetired
    RecoveryLinksAcyclic
    IndexedHoldersExact
PROPERTIES
    LinkChangedOnlyByRegistration
    ImplementsRecovery
    IndexGoesStaleOnlyByRecovery
