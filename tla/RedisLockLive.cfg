SPECIFICATION FairSpec
CONSTANTS
  Clients = {c1, c2, c3}
  NoKey = NoKey
  Lease = 2
  Timeout = 1
  Work = 1
  MaxHold = 1
INVARIANT TypeOK
PROPERTIES TakenAwayProperly LeavesLease LeaseEnds AbandonedIsFreed
