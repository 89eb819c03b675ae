SPECIFICATION RepeatsSpec
CONSTANTS
  Threads = {t1, t2, t3}
  Gens = {g1, g2}
  Candidates <- AroundTheMask
  NumSize = 2
  SeqSize = 2
  TimeSize = 2
  Start = 1
  BootClock = {1}
  NoThread = NoThread
  NoGen = NoGen
  MaxCalls = 1
  MaxLead = 2
  MaxSetBacks = 1
INVARIANTS TypeOK RepeatsExplained
PROPERTY CallReturns
CHECK_DEADLOCK FALSE
