CONSTANTS
  Requests = {r1, r2, r3}
  Workers = {w1, w2}
  CorePoolSize = 1
  QueueCapacity = 0
  Tasks = 2
  Duration = 1
  Patience = 3
  None = None
  Free = Free
  Poll = Poll
  Take = Take
SPECIFICATION FairSpec
INVARIANTS TypeOK GetsInTime AnswersInTime
PROPERTIES PoolShrinks CallReturns
CHECK_DEADLOCK FALSE
