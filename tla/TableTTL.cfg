SPECIFICATION LiveSpec
CONSTANTS
  Starters = {s1, s2}
  MaxRestarts = 1
PROPERTY TTLComesOn
CHECK_DEADLOCK FALSE
