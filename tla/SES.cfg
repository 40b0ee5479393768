SPECIFICATION Spec
CONSTANTS
  s1 = s1
  s2 = s2
  g1 = g1
  g2 = g2
  plain = plain
  tagged = tagged
  badTag = badTag
  foreign = foreign
  n1 = n1
  n2 = n2
  a = a
  b = b
  Senders = {s1, s2}
  Sends = {g1, g2}
  Mails = {plain, tagged, badTag, foreign}
  TagNames = {n1, n2}
  TagValues = {a, b}
  Ascii = {plain, tagged, badTag}
  TagsOf <- MCTagsOf
  Configs <- MCConfigs
  MaxAttempts <- MCAttempts
  Refused <- MCRefused
  Faults <- MCFaults
  Statuses <- MCStatuses
  HeaderValues <- MCValues
  ClockReadings = {0, 1, 2, 3, 4, 5}
  UnitsPerSecond = {1, 10}
  LargestDurations = {63, 127}
INVARIANT TypeOK
INVARIANT ErrorsTellWhatToDo
PROPERTY MailSafety
CHECK_DEADLOCK FALSE
SYMMETRY MCSymmetry
