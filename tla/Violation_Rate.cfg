CONSTANTS
    Wallets = {w1, w2}
    None = None
    Amounts = {1}
    MaxCheckpoint = 1
    MaxTime = 6
    StartDate = 1
    EndDate = 5
    Interval = 2
    Basis = 1
    Rate = 2
    RateBasisPoints = 2
    MaxFunds = 3
    MaxTrace = 3
SYMMETRY Symmetry
SPECIFICATION ScheduleSpec
INVARIANTS
    RateIsPerInterval
