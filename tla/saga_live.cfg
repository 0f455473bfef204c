CONSTANTS
  Sessions = {s1}
  Requests = {r1, r2, r3}
  Keys = {k1}
  HoldIds = {h1}
  OrderIds = {o1, o2}
  None = None
  Ops <- FromCheckout
  MaxRetries = 1
  EnforceUnique = FALSE
  ListFiltered = TRUE
  FulfillEndpoint = TRUE
  HoldsExpire = FALSE
  AmbiguousHolds = TRUE
  AmbiguousErrors = FALSE
  LateOrders = FALSE
  BadReplies = TRUE
SPECIFICATION FairSpec
PROPERTIES EveryRequestAnswered
