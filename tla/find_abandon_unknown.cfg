CONSTANTS
  Sessions = {s1}
  Requests = {r1, r2}
  Keys = {k1, k2}
  HoldIds = {h1, h2}
  OrderIds = {o1, o2}
  None = None
  Ops <- AllOps
  MaxRetries = 2
  EnforceUnique = TRUE
  ListFiltered = TRUE
  FulfillEndpoint = TRUE
  HoldsExpire = FALSE
  AmbiguousHolds = FALSE
  AmbiguousErrors = FALSE
  LateOrders = FALSE
  BadReplies = FALSE
SPECIFICATION Spec
PROPERTY NoReleaseAfterOrder
