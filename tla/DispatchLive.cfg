SPECIFICATION PatientSpec
CONSTANTS
  Shops <- MCShops
  Menu <- MCMenu
  ShopOf <- MCShopOf
  DistanceOf <- MCDistanceOf
  PriceOf <- MCPriceOf
  Items = {"cookie", "tea"}
  Quantities = {}
  NoQuantity = NoQuantity
  Clients = {c1, c2}
  Quitters = {}
  LongWait = 1
  MaxAccepted = 2
  MaxPrice = 0
CHECK_DEADLOCK FALSE
PROPERTIES
  ConfirmIsServed
  CtrlCEndsAll
