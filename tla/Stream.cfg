SPECIFICATION FairSpec
CONSTANTS
  Reasons <- MCReasons
  MaxBlocks = 3
  Histories <- MCHistories
  Wholes = {{{11}}}
  CallIds = {1, 2}
  Tools <- MCTools
  ToolChoices <- MCChoices
  LargestInt32s = {3, 7}
  TokenLimits <- MCLimits
  MaxParts = 3
\* A stream that ended stays ended.
CHECK_DEADLOCK FALSE
INVARIANT TypeOK
INVARIANT HeardInOrder
INVARIANT FinishMeansWhole
INVARIANT StreamAgrees
INVARIANT RequestKeepsMeaning
PROPERTY CloseReleases
