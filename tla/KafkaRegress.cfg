SPECIFICATION Spec
CONSTANTS
  Consumers = {1, 2}
  Partitions = {p1}
  Lineups <- Keepers
  StopAfter = 1
  MaxPoll = 2
  MaxLog = 2
  MaxGen = 3
  MaxCrashes = 0
  MaxInFlight = 1
PROPERTY NeverRegresses
CHECK_DEADLOCK FALSE
