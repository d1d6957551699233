----------------------------- MODULE MCDispatch -----------------------------
(* Values for model-checking Dispatch: two shops, one and two km away.     *)
EXTENDS Dispatch, TLC

MCShops == {"Dessert shop", "Beverage shop"}
MCMenu == {"cookie", "tea"}
MCShopOf == "cookie" :> "Dessert shop" @@ "tea" :> "Beverage shop"
MCDistanceOf == "Dessert shop" :> 1 @@ "Beverage shop" :> 2
MCPriceOf == "cookie" :> 1 @@ "tea" :> 1
\* Who may hang up is not alike to who may not.
MCSymmetry == Permutations(Clients \ Quitters)
=============================================================================
