SPECIFICATION FairSpec
CONSTANTS
  Requests = {r1, r2}
  ListKeys = {k1}
  MaxId = 2
  MaxWrites = 2
INVARIANTS TypeOK BlogStaleExplained ListStaleExplained
PROPERTY InTheEndFresh
