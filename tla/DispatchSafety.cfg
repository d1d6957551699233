SPECIFICATION Spec
CONSTANTS
  Shops <- MCShops
  Menu <- MCMenu
  ShopOf <- MCShopOf
  DistanceOf <- MCDistanceOf
  PriceOf <- MCPriceOf
  Items = {"tea"}
  Quantities = {}
  NoQuantity = NoQuantity
  Clients = {c1, c2, c3}
  Quitters = {c3}
  LongWait = 2
  MaxAccepted = 3
  MaxPrice = 0
CHECK_DEADLOCK FALSE
SYMMETRY MCSymmetry
INVARIANTS
  MutualExclusion
  EstimateHonoured
  NeverOvercounted
  BacklogCoversWaits
PROPERTIES
  ServedInTurn
  ImplementsService
