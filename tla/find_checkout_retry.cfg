CONSTANTS
  Sessions = {s1, s2}
  Requests = {r1, r2}
  Shopper = {r1, r2}
  Keys = {k1}
  HoldIds = {h1, h2}
  OrderIds = {o1, o2}
  None = None
  Ops <- FromPage
  MaxRetries = 2
  EnforceUnique = FALSE
  ListFiltered = TRUE
  FulfillEndpoint = TRUE
  HoldsExpire = FALSE
  AmbiguousHolds = FALSE
  AmbiguousErrors = FALSE
  LateOrders = FALSE
  BadReplies = FALSE
SPECIFICATION ShopSpec
SYMMETRY Symmetry
PROPERTY RetryReconcilesFirst
