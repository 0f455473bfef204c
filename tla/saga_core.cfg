CONSTANTS
  Sessions = {s1}
  Requests = {r1, r2, r3}
  Keys = {k1, k2}
  HoldIds = {h1, h2}
  OrderIds = {o1, o2}
  None = None
  Ops <- AllOps
  MaxRetries = 2
  EnforceUnique = TRUE
  ListFiltered = TRUE
  FulfillEndpoint = TRUE
  HoldsExpire = TRUE
  AmbiguousHolds = FALSE
  AmbiguousErrors = TRUE
  LateOrders = TRUE
  BadReplies = FALSE
SPECIFICATION Spec
SYMMETRY Symmetry
INVARIANTS TypeOK LockOwned SnapshotCurrent ClosedHoldIsGone CacheAgrees NoOrphanHold ActsOnNamedHold AnswerStands
PROPERTIES SoldIsNotReleased EveryStepCounts
