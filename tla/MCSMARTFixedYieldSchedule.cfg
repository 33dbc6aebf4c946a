CONSTANTS
    Wallets = {w1, w2}
    None = None
    Amounts = {1, 2}
    MaxCheckpoint = 3
    MaxTime = 5
    StartDate = 1
    EndDate = 4
    Interval = 2
    Basis = 1
    Rate = 3
    RateBasisPoints = 2
    MaxFunds = 4
    MaxTrace = 3
SYMMETRY Symmetry
SPECIFICATION ScheduleSpec
INVARIANTS
    PaidOncePerPeriod
    UnclaimedCoversHolders
    TracesFollowLedger
PROPERTIES
    OwedShrinksOnlyWhenPaid
    PastNeverChanges
    AccruedNeverFallsByWaiting
