CONSTANTS
    Accounts = {a, b}
    Self = self
    None = None
    Owner = a
    MaxExecutions = 2
SPECIFICATION IdentitySpec
INVARIANTS
    KeysAgree
    PerformedOnce
PROPERTIES
    EffectNeedsPresentKey
    UnmanagedKeysAreFixed
CHECK_DEADLOCK FALSE
