CONSTANTS
    Issuers = {i1, i2, i3}
    None = None
    Topics = {t1, t2}
    MaxTopics = 2
SYMMETRY Symmetry
SPECIFICATION IssuersSpec
INVARIANTS
    TrustAgrees
    DistinctTopicsRemovable
CHECK_DEADLOCK FALSE
