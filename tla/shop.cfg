CONSTANTS
  Sessions = {s1, s2}
  Requests = {r1, r2, c1}
  Shopper = {r1, r2}
  Keys = {k1, k2}
  HoldIds = {h1, h2}
  OrderIds = {o1, o2}
  None = None
  Ops <- FromPage
  MaxRetries = 1
  EnforceUnique = TRUE
  ListFiltered = TRUE
  FulfillEndpoint = TRUE
  HoldsExpire = FALSE
  AmbiguousHolds = FALSE
  AmbiguousErrors = TRUE
  LateOrders = TRUE
  BadReplies = FALSE
SPECIFICATION ShopSpec
SYMMETRY Symmetry
INVARIANTS ShopTypeOK StoredIsSold ShownIsSaved OneOrderPerPurchase
PROPERTIES PendingKept
