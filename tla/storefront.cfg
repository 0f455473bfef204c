CONSTANTS
  sku1 = sku1
  sku2 = sku2
  tab1 = tab1
  client1 = client1
  Skus <- TwoSkus
  Products <- TwoSkus
  Stock <- InStock
  JsonSkus <- OneInJson
  Tabs = {tab1}
  Clients = {client1}
  Buyers <- TabAndClient
  ClientLines <- FewLines
  HoldIds = {h1, h2}
  Unknown = Unknown
  Blank = Blank
  MaxQuantity = 2
  Typed <- SomeInputs
SPECIFICATION StoreSpec
SYMMETRY Symmetry
INVARIANTS StoreTypeOK NeverOversold StockConserved HeldAsAsked CartFits
PROPERTIES SentFits ImplementsLedger
