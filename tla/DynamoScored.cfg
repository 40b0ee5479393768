SPECIFICATION HSpec
CONSTANTS
  g1 = g1
  g2 = g2
  Goroutines = {g1, g2}
  Requests <- SearchRequests
  Embeds <- AllEmbed
  Names <- AllNames
  Ids = {"u1", "u2", "u3"}
  LetterOrder <- Order
  Score <- Scores
  NoEmbedding = "none"
  ListDefault = 2
  SearchDefault = 2
  MaxInt32 = 4
  PageItems = 4
  TicksPerSecond = 2
  MaxTime = 3
PROPERTY SearchReportsBest
