CONSTANTS
    Accounts = {a, b}
    Self = self
    None = None
    Owner = a
    MaxExecutions = 2
SPECIFICATION IdentitySpec
INVARIANT
    AutoApprovalSucceeds
