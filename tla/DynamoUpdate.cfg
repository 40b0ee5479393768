SPECIFICATION HSpec
CONSTANTS
  g1 = g1
  g2 = g2
  Goroutines = {g1, g2}
  Requests <- UpdateRequests
  Embeds <- AllEmbed
  Names <- AllNames
  Ids = {"u1"}
  LetterOrder <- Order
  Score <- Scores
  NoEmbedding = "none"
  ListDefault = 3
  SearchDefault = 2
  MaxInt32 = 4
  PageItems = 4
  TicksPerSecond = 2
  MaxTime = 2
PROPERTY UpdateOnlyExisting
