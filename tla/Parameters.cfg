SPECIFICATION HSpec
CONSTANTS
  g1 = g1
  g2 = g2
  g3 = g3
  r1 = r1
  r2 = r2
  p1 = p1
  p2 = p2
  Goroutines = {g1, g2, g3}
  Providers = {r1, r2}
  Paths = {p1, p2}
  Home <- TwoHomes
  Menu <- Shared
  Under <- Hierarchy
  Rank <- OrderOf
  PageSize = 1
  MaxAttempts = 2
  MaxSets = 2
  PathPrefixes <- SomePrefixes
  CallerPaths <- PlainPaths
INVARIANTS ClosedQuiet NamesResolve
PROPERTIES VaultSafety ListComplete CurrentIsNewest
