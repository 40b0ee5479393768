SPECIFICATION HSpec
CONSTANTS
  g1 = g1
  g2 = g2
  b1 = b1
  a = a
  b = b
  c = c
  d = d
  dir = dir
  Goroutines = {g1, g2}
  Backends = {b1}
  Files = {a, b, c, d}
  Dirs = {dir}
  Home <- OneHome
  Menu <- Everything
  Under <- InDir
  Rank <- OrderOf
  PageSize = 1
  Targets <- Apart
  Moves <- Acyclic
  Initial = {a}
  Slots = {w1}
  MaxChunks = 1
  Letters = {"a", "b"}
  Configured <- ConfigPrefixes
  WrittenPaths <- ShortPaths
  Queries <- Listed
  MaxInt64 = 15
INVARIANTS TypeOK WritersSafe MoveConserves  RangeExact
PROPERTIES ListComplete RmdirNeedsEmpty
