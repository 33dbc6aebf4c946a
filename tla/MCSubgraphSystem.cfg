CONSTANTS
    Implementations = {"identityFactory"}
    AssetKinds = {"deposit", "bond"}
    MaxRuns = 2
    MaxFaults = 2
CHECK_DEADLOCK FALSE
SPECIFICATION SystemSpec
INVARIANTS
    SendsNeverClash
    CleanRunFailsOnlyByFault
    ExitZeroIsComplete
    ResumedRunStopsAtIdentities
    IndexFollowsChain
PROPERTIES
    EveryRunEnds
