SPECIFICATION PromptSpec
CONSTANTS
  Clients = {c1, c2, c3}
  NoKey = NoKey
  Lease = 5
  Timeout = 5
  Work = 3
  MaxHold = 4
INVARIANT Exclusion
PROPERTY LockSpec
SYMMETRY Symmetry
