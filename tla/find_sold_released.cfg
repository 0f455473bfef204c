CONSTANTS
  Sessions = {s1}
  Requests = {r1}
  Keys = {k1, k2}
  HoldIds = {h1, h2}
  OrderIds = {o1, o2}
  None = None
  Ops <- NoAbandon
  MaxRetries = 2
  EnforceUnique = TRUE
  ListFiltered = TRUE
  FulfillEndpoint = TRUE
  HoldsExpire = TRUE
  AmbiguousHolds = FALSE
  AmbiguousErrors = FALSE
  LateOrders = FALSE
  BadReplies = FALSE
SPECIFICATION Spec
INVARIANT SoldStaysDeducted
