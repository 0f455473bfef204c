CONSTANTS
  Sessions = {s1}
  Requests = {r1, c1}
  Shopper = {r1}
  Keys = {k1}
  HoldIds = {h1}
  OrderIds = {o1}
  None = None
  Ops <- FromPage
  MaxRetries = 2
  EnforceUnique = TRUE
  ListFiltered = TRUE
  FulfillEndpoint = TRUE
  HoldsExpire = TRUE
  AmbiguousHolds = TRUE
  AmbiguousErrors = TRUE
  LateOrders = TRUE
  BadReplies = TRUE
SPECIFICATION FairShopSpec
PROPERTIES ClickAnswered PollingShows
