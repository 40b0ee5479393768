SPECIFICATION Spec
CONSTANTS
  c1 = c1
  c2 = c2
  Conversations = {c1, c2}
  V2 = {c1}
  Timed = {c2}
  MaxFiles = 2
  MaxTime = 4
  CharsPerToken = 4
  TurnOf <- MCTurnOf
  SummaryOf <- MCSummaryOf
  Snaps <- MCSnaps
  Periods <- MCPeriods
\* One Collect, which ends.
CHECK_DEADLOCK FALSE
INVARIANT TypeOK
INVARIANT NewestLast
INVARIANT NothingLost
INVARIANT LastWord
INVARIANT EventsAddUp
