CONSTANTS
  Sessions = {s1}
  Requests = {r1}
  Shopper = {r1}
  Keys = {k1}
  HoldIds = {h1}
  OrderIds = {o1}
  None = None
  Ops <- FromPage
  MaxRetries = 2
  EnforceUnique = TRUE
  ListFiltered = TRUE
  FulfillEndpoint = TRUE
  HoldsExpire = FALSE
  AmbiguousHolds = FALSE
  AmbiguousErrors = FALSE
  LateOrders = FALSE
  BadReplies = FALSE
SPECIFICATION RecoveringShopSpec
PROPERTY RetryFinishes
