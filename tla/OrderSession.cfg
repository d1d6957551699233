SPECIFICATION SessionSpec
CONSTANTS
  Shops <- MCShops
  Menu <- MCMenu
  ShopOf <- MCShopOf
  DistanceOf <- MCDistanceOf
  PriceOf <- MCPriceOf
  Items = {"cookie", "cake", "tea", "boba", "fried-rice", "Egg-drop-soup", "water"}
  Quantities <- MCQuantities
  NoQuantity = NoQuantity
  MaxQuantity = 4
CHECK_DEADLOCK FALSE
INVARIANTS
  OneShopAndPrice
  DistanceOfShop
