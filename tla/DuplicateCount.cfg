SPECIFICATION StreamSpec
CONSTANTS
  Futures = {f1, f2, f3, f4}
  Ids = {i1, i2}
  Workers = 2
INVARIANTS NeverOverCounts MissesBounded
CHECK_DEADLOCK FALSE
