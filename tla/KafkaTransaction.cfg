SPECIFICATION Spec
CONSTANTS
  Programs = {a, b}
  Partitions = {p1}
  StopAfter = 1
  MaxPoll = 2
  MaxLog = 3
  MaxRestarts = 1
  MaxRefusals = 2
INVARIANTS TypeOK LossExplained
PROPERTY RepliesOnce
SYMMETRY Symmetry
CHECK_DEADLOCK FALSE
