SPECIFICATION Spec
CONSTANTS
  Consumers = {1, 2}
  Partitions = {p1}
  Lineups <- Pairs
  StopAfter = 1
  MaxPoll = 2
  MaxLog = 2
  MaxGen = 3
  MaxCrashes = 1
  MaxInFlight = 1
INVARIANTS TypeOK NothingSkipped
PROPERTIES OffsetsGrow EndsCommitted
CHECK_DEADLOCK FALSE
