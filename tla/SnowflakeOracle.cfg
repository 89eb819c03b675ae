SPECIFICATION ProperSpec
CONSTANTS
  Threads = {t1, t2}
  Gens = {g1}
  Candidates = {1}
  NumSize = 2
  SeqSize = 2
  TimeSize = 16
  Start = 1
  BootClock = {1}
  NoThread = NoThread
  NoGen = NoGen
  MaxCalls = 2
  MaxLead = 2
  MaxSetBacks = 0
PROPERTY OracleSpec
CHECK_DEADLOCK FALSE
