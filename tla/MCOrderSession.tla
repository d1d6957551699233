--------------------------- MODULE MCOrderSession ---------------------------
(* The menu of hw3.c (get_shop_name, update_num_price).                    *)
EXTENDS OrderSession, TLC

MCShops == {"Dessert shop", "Beverage shop", "Diner"}
MCMenu == {"cookie", "cake", "tea", "boba", "fried-rice", "Egg-drop-soup"}
MCShopOf ==
  "cookie" :> "Dessert shop" @@ "cake" :> "Dessert shop" @@
  "tea" :> "Beverage shop" @@ "boba" :> "Beverage shop" @@
  "fried-rice" :> "Diner" @@ "Egg-drop-soup" :> "Diner"
MCDistanceOf == "Dessert shop" :> 3 @@ "Beverage shop" :> 5 @@ "Diner" :> 8
MCPriceOf ==
  "cookie" :> 60 @@ "cake" :> 80 @@ "tea" :> 40 @@ "boba" :> 70 @@
  "fried-rice" :> 120 @@ "Egg-drop-soup" :> 50
MCQuantities == {-1, 0, 1, 2}
=============================================================================
