CONSTANTS
    Wallets = {w1, w2, w3}
    None = None
    Amounts = {1, 2}
    MaxUint = 2
    MaxDrift = 1
SYMMETRY Symmetry
SPECIFICATION IndexedSpec
PROPERTY
    SupplyIndexFollowsLifecycle
