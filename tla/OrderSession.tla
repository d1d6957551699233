---------------------------- MODULE OrderSession ----------------------------
(***************************************************************************)
(* A process of a delivery server and the clients it serves one after the  *)
(* other: the only process of hw2.c, or one of those of hw3.c seen from its*)
(* client's side (what they share is in Dispatch).  The order globals      *)
(* outlive a client; first_order of hw2.c is local to handleClient, but    *)
(* every way out of it leaves the order reset, so it can stay in the record*)
(* of Order, whose operators the two programs share.                       *)
(***************************************************************************)
EXTENDS Order

CONSTANT MaxQuantity   \* bound: the number of one item in an order, either way

ASSUME SessionAssumption == MaxQuantity \in Nat

VARIABLES
  server,       \* "hw2" or "hw3"
  session_pc,   \* "accept", "read", "sleep" or "killed"
  client,       \* "none", "connected" or "gone": the client being served
  buffer,       \* its last command, which is taken again once it is gone
  order,        \* the order globals and first_order
  sleep_time,   \* the distance the delivery is made over
  sleeping_for, \* history: the shop whose delivery it is
  named         \* history: the shops of the items the client has named

sessionVars == <<server, session_pc, client, buffer, order, sleep_time, sleeping_for, named>>

SessionTypeOK ==
  /\ server \in {"hw2", "hw3"}
  /\ session_pc \in {"accept", "read", "sleep", "killed"}
  /\ client \in {"none", "connected", "gone"}
  /\ buffer \in {"none", "shop list", "order", "confirm"}
  /\ order \in Order
  /\ sleep_time \in Nat
  /\ sleeping_for \in Shops \cup {Unknown, NoShop}
  /\ named \subseteq Shops

\* main listens (any error before that ends it) and nobody has connected.
SessionInit ==
  /\ server \in {"hw2", "hw3"}
  /\ session_pc = "accept" /\ client = "none" /\ buffer = "none"
  /\ order = EmptyOrder
  /\ sleep_time = 0 /\ sleeping_for = NoShop /\ named = {}

\* get_shop_name of hw2.c: the distance is set by every item that is looked up,
\* of whatever shop.
get_shop_name(o, item) ==
  IF item \in Menu THEN [o EXCEPT !.distance = DistanceOf[ShopOf[item]]] ELSE o

\* Mutant: the shop is chosen anew by every item.
OrderItem_hw2_Always(o, item, quantity) ==
  AddItem([get_shop_name(o, item) EXCEPT !.initial_shop = ShopName(item), !.first_order = FALSE],
          item, quantity)

\* The "order" command of hw2.c; that of hw3.c is OrderItem.
OrderItem_hw2(o, item, quantity) ==
  LET looked_up == get_shop_name(o, item)
      chosen == IF o.first_order
                  THEN [looked_up EXCEPT !.initial_shop = ShopName(item), !.first_order = FALSE]
                  ELSE looked_up
  IN  AddItem(chosen, item, quantity)

Accept ==
  /\ session_pc = "accept"
  /\ session_pc' = "read" /\ client' = "connected"
  /\ UNCHANGED <<server, buffer, order, sleep_time, sleeping_for, named>>

\* read returns a command, or nothing when the client is gone: the loop then
\* takes the command still in the buffer.
Reads(command) ==
  /\ session_pc = "read"
  /\ client = "gone" => buffer = command
  /\ buffer' = command

ShopList ==
  /\ Reads("shop list")
  /\ UNCHANGED <<server, session_pc, client, order, sleep_time, sleeping_for, named>>

\* strtok has cut a command that is taken again: it names no item then.
OrderCommand(item, quantity) ==
  /\ Reads("order") /\ client = "connected"
  /\ order' = IF server = "hw2" THEN OrderItem_hw2(order, item, quantity)
              ELSE OrderItem(order, item, quantity)
  /\ \A x \in Menu : order'.total[x] \in -MaxQuantity .. MaxQuantity
  /\ named' = named \cup {ShopOf[x] : x \in {item} \cap Menu}
  /\ UNCHANGED <<server, session_pc, client, sleep_time, sleeping_for>>

\* Something must have been ordered.
Confirm ==
  /\ Reads("confirm")
  /\ IF order.first_order
       THEN UNCHANGED <<session_pc, sleep_time, sleeping_for>>
       ELSE session_pc' = "sleep" /\ sleep_time' = order.distance /\ sleeping_for' = order.initial_shop
  /\ UNCHANGED <<server, client, order, named>>

\* Mutant: the distance is not reset.
Leave_KeepsDistance ==
  /\ order' = [reset_order(order) EXCEPT !.distance = order.distance]
  /\ session_pc' = "accept" /\ client' = "none" /\ buffer' = "none"
  /\ sleep_time' = 0 /\ sleeping_for' = NoShop /\ named' = {}
  /\ UNCHANGED server

\* handleClient returns: reset_order, close, accept.  A new buffer is empty.
Leave ==
  /\ order' = reset_order(order)
  /\ session_pc' = "accept" /\ client' = "none" /\ buffer' = "none"
  /\ sleep_time' = 0 /\ sleeping_for' = NoShop /\ named' = {}
  /\ UNCHANGED server

Arrive == session_pc = "sleep" /\ Leave

\* The client of hw3.c may be asked whether it waits, and say No.
Refuse == server = "hw3" /\ session_pc = "read" /\ ~order.first_order /\ client = "connected" /\ Leave

Cancel == session_pc = "read" /\ client = "connected" /\ Leave

HangUp ==
  /\ client = "connected"
  /\ client' = "gone"
  /\ UNCHANGED <<server, session_pc, buffer, order, sleep_time, sleeping_for, named>>

\* A send to a client that is gone - the reply to its last command, also if it went
\* before it had read the one to an order: SIGPIPE ends the process.
SigPipe ==
  /\ client = "gone"
  /\ session_pc = "sleep" \/ (session_pc = "read" /\ buffer # "none")
  /\ session_pc' = "killed"
  /\ UNCHANGED <<server, client, buffer, order, sleep_time, sleeping_for, named>>

SessionNext ==
  \/ Accept \/ ShopList \/ Confirm \/ Arrive \/ Refuse \/ Cancel \/ HangUp \/ SigPipe
  \/ \E item \in Items, quantity \in Quantities \cup {NoQuantity} :
       OrderCommand(item, quantity)

SessionSpec == SessionInit /\ [][SessionNext]_sessionVars

-----------------------------------------------------------------------------
\* The sums of the numbers f gives to the items of the sets of items.
SumOver(f) ==
  LET sum[S \in SUBSET Menu] ==
        IF S = {} THEN 0 ELSE LET item == CHOOSE item \in S : TRUE
                              IN  f[item] + sum[S \ {item}]
  IN  sum

\* What an order costs, item by item.
Prices(o) == [item \in Menu |-> PriceOf[item] * o.total[item]]

\* An order is of one shop, over any number of clients (the globals of hw2.c
\* and hw3.c outlive them), and its price is the price of the items the client
\* is shown in its history.
OneShopAndPrice ==
  /\ \A item \in Menu : order.total[item] # 0 => ShopOf[item] = order.initial_shop
  /\ order.total_price = SumOver(Prices(order))[show_current_order(order)]

\* A delivery is made over the distance of its order's shop, and over none if
\* every item was unknown, whoever was served before and however that ended.
\* (In hw2.c only for clients that name no item of another shop: get_shop_name
\* sets the distance for an item that is then refused, too.)
DistanceOfShop ==
  session_pc = "sleep" /\ (server = "hw2" => named \subseteq {sleeping_for}) =>
    sleep_time = IF sleeping_for \in Shops THEN DistanceOf[sleeping_for] ELSE 0

-----------------------------------------------------------------------------
\* Nothing is ordered before the first order, and the sum over the menu is kept.
BooksInv ==
  /\ order.first_order =>
       order.distance = 0 /\ named = {} /\ \A item \in Menu : order.total[item] = 0
  /\ \A item \in Menu : order.total[item] # 0 => ShopOf[item] = order.initial_shop
  /\ order.total_price = SumOver(Prices(order))[Menu]

\* The distance of an order is that of its shop while hw2.c is asked for no other.
DistanceInv ==
  /\ ~order.first_order /\ (server = "hw2" => named \subseteq {order.initial_shop}) =>
       order.distance = IF order.initial_shop \in Shops THEN DistanceOf[order.initial_shop] ELSE 0
  /\ session_pc = "sleep" =>
       ~order.first_order /\ sleep_time = order.distance /\ sleeping_for = order.initial_shop

SessionInv == SessionTypeOK /\ BooksInv /\ DistanceInv
=============================================================================
