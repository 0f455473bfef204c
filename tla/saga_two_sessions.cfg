CONSTANTS
  Sessions = {s1, s2}
  Requests = {r1, r2, r3}
  Keys = {k1, k2}
  HoldIds = {h1, h2}
  OrderIds = {o1, o2}
  None = None
  Ops <- FromCheckout
  MaxRetries = 1
  EnforceUnique = TRUE
  ListFiltered = TRUE
  FulfillEndpoint = TRUE
  HoldsExpire = FALSE
  AmbiguousHolds = FALSE
  AmbiguousErrors = TRUE
  LateOrders = TRUE
  BadReplies = TRUE
SPECIFICATION Spec
SYMMETRY Symmetry
INVARIANTS FinishedHasOrder FulfilledHasOrder
PROPERTIES ImplementsLifecycle
