CONSTANTS
    Wallets = {w1, w2}
    None = None
    Amounts = {1, 2}
    MaxUint = 4
    Cap = 3
    FaceValue = 3
    Unit = 2
    MaturityDate = 1
    YieldDates = {1}
    MaxTime = 1
    MaxUnderlying = 4
    RefusalLimits = {0, 2, 5}
    MaxIssued = 4
SYMMETRY Symmetry
SPECIFICATION BondSpec
INVARIANTS
    PartsNeverPayMore
    CoveredHoldersCanRedeem
PROPERTIES
    CoverLostOnlyToIssuer
