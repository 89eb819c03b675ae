SPECIFICATION FairSpec
CONSTANTS
  Threads = {t1, t2}
  NoThread = NoThread
  Interval = 1
  MaxWrites = 2
  MaxFailures = 1
INVARIANTS TypeOK LoaderIsDue StaleExplained
PROPERTIES NeverOlder KeepsUp
