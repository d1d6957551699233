SPECIFICATION Spec
CONSTANTS
  Shops <- MCShops
  Menu <- MCMenu
  ShopOf <- MCShopOf
  DistanceOf <- MCDistanceOf
  PriceOf <- MCPriceOf
  Items = {"cookie"}
  Quantities = {1}
  NoQuantity = NoQuantity
  Clients = {c1, c2}
  Quitters = {}
  LongWait = 2
  MaxAccepted = 2
  MaxPrice = 1
CHECK_DEADLOCK FALSE
INVARIANTS
  ResultComplete
