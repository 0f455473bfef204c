CONSTANTS
  s1 = s1
  s2 = s2
  Skus <- SomeSkus
  JsonSkus <- OneInJson
  Requests = {r1, r2}
  Quantities <- StockLevels
  Unknown = Unknown
  NoReply = NoReply
  Mode = "auto"
  Fallback = TRUE
SPECIFICATION FairSpec
INVARIANTS TypeOK AnswerIsOwn
PROPERTIES ImplementsFresh EveryCatalogAnswered
