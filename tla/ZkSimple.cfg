CONSTANTS
  Clients = {c1, c2, c3}
  TravalPath = "/zookeeper_native"
SPECIFICATION FairSpec
INVARIANTS TypeOK ReadsBack FailureExplained
PROPERTY InTheEndGone
CHECK_DEADLOCK FALSE
