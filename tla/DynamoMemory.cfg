SPECIFICATION HSpec
CONSTANTS
  g1 = g1
  g2 = g2
  Goroutines = {g1, g2}
  Requests <- MemoryRequests
  Embeds <- AllEmbed
  Names <- AllNames
  Ids = {"u1", "u2"}
  LetterOrder <- Order
  Score <- Scores
  NoEmbedding = "none"
  ListDefault = 1
  SearchDefault = 2
  MaxInt32 = 4
  PageItems = 4
  TicksPerSecond = 2
  MaxTime = 5
INVARIANTS TypeOK EmbeddingFits
PROPERTIES ExpiryIsFinal ListSound SearchMissesOnlyBeyondPage
