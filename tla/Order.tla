------------------------------- MODULE Order -------------------------------
(***************************************************************************)
(* The order a delivery server keeps for one client: the process globals   *)
(* first_order, initial_shop, distance, total_<item> and total_price of    *)
(* hw3.c, and what the "order" command does to them.  Every forked client  *)
(* process has its own copy, so an order is a record and each function of  *)
(* the C program an operator from orders to orders.                        *)
(***************************************************************************)
EXTENDS Integers, FiniteSets

CONSTANTS
  Shops,        \* the shops of the platform
  Menu,         \* the items the shops sell
  ShopOf,       \* the shop that sells an item
  DistanceOf,   \* its distance in km, which is also its delivery time in s
  PriceOf,      \* the price of an item
  Items,        \* every item a client may name, on the menu or not
  Quantities,   \* the numbers a client may give
  NoQuantity    \* an "order" command without its third word

Unknown == "Unknown"          \* what get_shop_name answers for any other item
NoShop == "no shop"           \* initial_shop before the first order

ASSUME OrderAssumption ==
  /\ Unknown \notin Shops
  /\ NoShop \notin Shops
  /\ ShopOf \in [Menu -> Shops]
  /\ DistanceOf \in [Shops -> Nat \ {0}]
  /\ PriceOf \in [Menu -> Nat]
  /\ IsFiniteSet(Menu)
  /\ Quantities \subseteq Int
  /\ NoQuantity \notin Quantities

Order == [first_order  : BOOLEAN,
          initial_shop : Shops \cup {Unknown, NoShop},
          distance     : Nat,
          total        : [Menu -> Int],
          total_price  : Int]

EmptyOrder == [first_order  |-> TRUE,
               initial_shop |-> NoShop,
               distance     |-> 0,
               total        |-> [item \in Menu |-> 0],
               total_price  |-> 0]

\* The shop get_shop_name returns.
ShopName(item) == IF item \in Menu THEN ShopOf[item] ELSE Unknown

\* Mutant: every item measures the distance, not only the first.
MeasureDistance_Always(order, item) ==
  IF item \in Menu THEN [order EXCEPT !.distance = DistanceOf[ShopOf[item]]] ELSE order

\* The side effect of get_shop_name: the distance is fixed by the first item.
MeasureDistance(order, item) ==
  IF order.first_order /\ item \in Menu
    THEN [order EXCEPT !.distance = DistanceOf[ShopOf[item]]]
    ELSE order

\* The first "order" command chooses the shop, whatever it names.
ChooseShop(order, item) ==
  IF order.first_order
    THEN [MeasureDistance(order, item) EXCEPT !.initial_shop = ShopName(item),
                                              !.first_order = FALSE]
    ELSE order

\* Mutant: the price of one item, whatever the quantity.
update_num_price_One(order, item, quantity) ==
  IF item \in Menu /\ ShopName(item) = order.initial_shop
    THEN [order EXCEPT !.total[item] = @ + quantity, !.total_price = @ + PriceOf[item]]
    ELSE order

\* The counts and the sum for an item of the chosen shop.
update_num_price(order, item, quantity) ==
  IF item \in Menu /\ ShopName(item) = order.initial_shop
    THEN [order EXCEPT !.total[item] = @ + quantity,
                       !.total_price = @ + PriceOf[item] * quantity]
    ELSE order

\* The counts and the sum, unless the item is of another shop or comes without
\* a quantity: it is ignored then.
AddItem(order, item, quantity) ==
  IF ShopName(item) = order.initial_shop /\ quantity # NoQuantity
    THEN update_num_price(order, item, quantity)
    ELSE order

\* The whole "order" command.  To compare the shops get_shop_name is called for
\* every item, with its side effect.
OrderItem(order, item, quantity) ==
  AddItem(MeasureDistance(ChooseShop(order, item), item), item, quantity)

\* The items show_current_order lists, with their counts, for the client.
show_current_order(order) ==
  {item \in Menu : ShopOf[item] = order.initial_shop /\ order.total[item] # 0}

\* reset_order leaves initial_shop alone: the next first order overwrites it.
reset_order(order) == [EmptyOrder EXCEPT !.initial_shop = order.initial_shop]
=============================================================================
