SPECIFICATION Spec
CONSTANTS
  g1 = g1
  g2 = g2
  g3 = g3
  r1 = r1
  r2 = r2
  p1 = p1
  p2 = p2
  p3 = p3
  Goroutines = {g1, g2, g3}
  Providers = {r1, r2}
  Paths = {p1}
  Home <- TwoHomes
  Menu <- Shared
  Matches <- Prefixes
  Rank <- OrderOf
  PageSize = 1
  MaxAttempts = 2
  MaxVersions = 2
INVARIANTS TypeOK ClosedQuiet
PROPERTY VaultSafety
