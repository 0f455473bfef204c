CONSTANTS
  Sessions = {s1}
  Requests = {r1, r2, r3}
  Keys = {k1, k2}
  HoldIds = {h1}
  OrderIds = {o1, o2}
  None = None
  Ops <- NoAbandon
  MaxRetries = 2
  EnforceUnique = FALSE
  ListFiltered = TRUE
  FulfillEndpoint = FALSE
  HoldsExpire = TRUE
  AmbiguousHolds = FALSE
  AmbiguousErrors = FALSE
  LateOrders = FALSE
  BadReplies = FALSE
SPECIFICATION Spec
SYMMETRY Symmetry
INVARIANTS NoDuplicateOrder OrdersFollowed
PROPERTIES NoReleaseAfterOrder PinnedNeverPosts
