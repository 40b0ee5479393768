SPECIFICATION StartSpec
CONSTANTS
  Starters = {s1, s2, s3}
  MaxRestarts = 3
INVARIANTS TableTypeOK CreatorReady
PROPERTY EveryStartEnds
CHECK_DEADLOCK FALSE
