--------------------------- MODULE DispatchProofs ---------------------------
(***************************************************************************)
(* Theorems about the delivery servers, for any menu, any number of        *)
(* clients and any bounds.  Of Dispatch: SafetyInv is inductive together   *)
(* with TypeOK, and mutual exclusion, the honoured estimate and the        *)
(* couriers' order follow from it; nobody is counted without a meal; and   *)
(* the processes implement CourierService, step by step.                   *)
(***************************************************************************)
EXTENDS Dispatch, FiniteSetTheorems, TLAPS

-----------------------------------------------------------------------------
(* The operators of Order.                                                 *)

\* A fresh process holds a proper order.
LEMMA EmptyOrderType == EmptyOrder \in Order
  BY DEF EmptyOrder, Order

\* get_shop_name keeps an order proper, whatever item it is asked for.
LEMMA MeasureDistanceType ==
  ASSUME NEW o \in Order, NEW item
  PROVE  MeasureDistance(o, item) \in Order
  BY OrderAssumption DEF MeasureDistance, Order

\* The "order" command keeps an order proper, whatever item it names
\* (get_shop_name, update_num_price).
LEMMA OrderItemType ==
  ASSUME NEW o \in Order, NEW item,
         NEW quantity \in Quantities \cup {NoQuantity}
  PROVE  OrderItem(o, item, quantity) \in Order
<1> DEFINE first == ChooseShop(o, item)
           chosen == MeasureDistance(first, item)
<1>1. MeasureDistance(o, item) \in Order
  BY MeasureDistanceType
<1>2. ShopName(item) \in Shops \cup {Unknown, NoShop}
  BY OrderAssumption DEF ShopName
<1>3. chosen \in Order
  <2>1. first \in Order
    BY <1>1, <1>2 DEF ChooseShop, Order
  <2> HIDE DEF first
  <2>2. QED
    BY <2>1, MeasureDistanceType
<1>4. ASSUME quantity # NoQuantity
      PROVE  update_num_price(chosen, item, quantity) \in Order
  <2>1. quantity \in Int
    BY <1>4, OrderAssumption
  <2>2. ASSUME item \in Menu
        PROVE  PriceOf[item] \in Int
    BY <2>2, OrderAssumption
  <2> HIDE DEF chosen
  <2>3. CASE item \in Menu /\ ShopName(item) = chosen.initial_shop
    <3> DEFINE paid == chosen.total_price + PriceOf[item] * quantity
               count == [chosen.total EXCEPT ![item] = @ + quantity]
    <3>1. PriceOf[item] * quantity \in Int
      BY <2>1, <2>2, <2>3
    <3>2. paid \in Int
      BY <1>3, <3>1 DEF Order
    <3>3. count \in [Menu -> Int]
      BY <1>3, <2>1, <2>3 DEF Order
    <3> HIDE DEF paid, count
    <3>4. [chosen EXCEPT !.total = count, !.total_price = paid] \in Order
      BY <1>3, <3>2, <3>3 DEF Order
    <3>5. update_num_price(chosen, item, quantity)
            = [chosen EXCEPT !.total = count, !.total_price = paid]
      BY <2>3 DEF update_num_price, count, paid
    <3>6. QED
      BY <3>4, <3>5
  <2>4. QED
    BY <1>3, <2>3 DEF update_num_price
<1>5. QED
  BY <1>3, <1>4 DEF OrderItem, AddItem

\* A process that reset its order serves the next client like a fresh one:
\* initial_shop, which reset_order leaves alone, is overwritten by the first
\* "order" before anything looks at it.
THEOREM ResetIsFresh ==
  ASSUME NEW o \in Order, NEW item,
         NEW quantity \in Quantities \cup {NoQuantity}
  PROVE  OrderItem(reset_order(o), item, quantity) = OrderItem(EmptyOrder, item, quantity)
<1>1. ChooseShop(reset_order(o), item) = ChooseShop(EmptyOrder, item)
  BY DEF ChooseShop, MeasureDistance, reset_order, EmptyOrder, Order
<1>2. QED
  BY <1>1 DEF OrderItem, AddItem

-----------------------------------------------------------------------------
(* Type correctness.                                                       *)

LEMMA InitType == Init => TypeOK
<1> SUFFICES ASSUME Init PROVE TypeOK
  OBVIOUS
<1>1. MainTypeOK
  BY DEF Init, MainTypeOK, MainPCs
<1>2. ShmTypeOK
  BY DEF Init, ShmTypeOK
<1>3. ClientTypeOK
  BY EmptyOrderType DEF Init, ClientTypeOK, ClientPCs, Couriers
<1>4. TotalsTypeOK
  <2>1. [t \in Totals |-> 0] \in [Totals -> Int]
    OBVIOUS
  <2>2. NothingWritten \in [Totals -> Int]
    BY DEF NothingWritten
  <2>3. QED
    BY <2>1, <2>2 DEF Init, TotalsTypeOK
<1>5. RegisterTypeOK
  <2>1. [c \in Clients |-> 0] \in [Clients -> Int]
    OBVIOUS
  <2>2. QED
    BY <2>1 DEF Init, RegisterTypeOK
<1>6. SysTypeOK
  BY DEF Init, SysTypeOK
<1>7. QED
  BY <1>1, <1>2, <1>3, <1>4, <1>5, <1>6 DEF TypeOK

\* The distance of an order is a number of seconds.
LEMMA DistanceType ==
  ASSUME ClientTypeOK, NEW c \in Clients
  PROVE  order[c].distance \in Nat /\ order[c].total_price \in Int
  BY DEF ClientTypeOK, Order

LEMMA ShortestType == ASSUME ShmTypeOK PROVE Shortest \in Nat
  BY DEF ShmTypeOK, Shortest, Couriers

\* What a step does not touch keeps its type.
LEMMA MainUntouched == MainTypeOK /\ UNCHANGED mainVars => MainTypeOK'
  BY DEF MainTypeOK, mainVars
LEMMA ShmUntouched == ShmTypeOK /\ UNCHANGED <<delivery_shm, s>> => ShmTypeOK'
  BY DEF ShmTypeOK
LEMMA TotalsUntouched ==
  TotalsTypeOK /\ UNCHANGED <<result_shm, result_txt, arrived>> => TotalsTypeOK'
  BY DEF TotalsTypeOK
LEMMA ClientsUntouched == ClientTypeOK /\ UNCHANGED clientVars => ClientTypeOK'
  BY DEF ClientTypeOK, clientVars
LEMMA RegisterUntouched ==
  ASSUME RegisterTypeOK, UNCHANGED reg,
         \A c \in Clients : pc'[c] = "store" => pc[c] = "store"
  PROVE  RegisterTypeOK'
  BY DEF RegisterTypeOK
LEMMA SysUntouched == SysTypeOK /\ UNCHANGED <<sigint, accepted>> => SysTypeOK'
  BY DEF SysTypeOK

\* A process that changes its program counter, but not to the store of a
\* backlog, and not its register.
LEMMA RegisterMoved ==
  ASSUME ClientTypeOK, RegisterTypeOK, NEW c \in Clients, NEW to, to # "store",
         pc' = [pc EXCEPT ![c] = to], UNCHANGED reg
  PROVE  RegisterTypeOK'
  BY RegisterUntouched DEF ClientTypeOK

\* A process that changes both.
LEMMA RegisterSet ==
  ASSUME ClientTypeOK, RegisterTypeOK, NEW c \in Clients, NEW to, NEW value \in Int,
         to = "store" => value \in Nat,
         pc' = [pc EXCEPT ![c] = to], reg' = [reg EXCEPT ![c] = value]
  PROVE  RegisterTypeOK'
<1>1. reg' \in [Clients -> Int]
  BY DEF RegisterTypeOK
<1>2. ASSUME NEW d \in Clients, pc'[d] = "store" PROVE reg'[d] \in Nat
  <2>1. CASE d = c
    BY <1>2, <2>1 DEF ClientTypeOK, RegisterTypeOK
  <2>2. CASE d # c
    BY <1>2, <2>2 DEF ClientTypeOK, RegisterTypeOK
  <2>3. QED
    BY <2>1, <2>2
<1>3. QED
  BY <1>1, <1>2 DEF RegisterTypeOK

\* A process that changes its program counter and clears its register.
LEMMA RegisterCleared ==
  ASSUME ClientTypeOK, RegisterTypeOK, NEW c \in Clients, NEW to, to # "store",
         pc' = [pc EXCEPT ![c] = to], reg' = [reg EXCEPT ![c] = 0]
  PROVE  RegisterTypeOK'
<1>1. reg' \in [Clients -> Int]
  <2>1. reg \in [Clients -> Int]
    BY DEF RegisterTypeOK
  <2>2. QED
    BY <2>1
<1>2. ASSUME NEW d \in Clients, pc'[d] = "store" PROVE reg'[d] \in Nat
  <2>1. d # c /\ pc[d] = "store"
    BY <1>2 DEF ClientTypeOK
  <2>2. QED
    BY <2>1 DEF RegisterTypeOK
<1>3. QED
  BY <1>1, <1>2 DEF RegisterTypeOK

\* The steps of the main process keep the types.
LEMMA MainType == TypeOK /\ (MainStep \/ MainSafeClose) => TypeOK'
<1> SUFFICES ASSUME TypeOK, MainStep \/ MainSafeClose
             PROVE  TypeOK'
  OBVIOUS
<1>1. ClientTypeOK' /\ RegisterTypeOK' /\ SysTypeOK'
  BY ClientsUntouched, RegisterUntouched, SysUntouched
     DEF TypeOK, MainStep, MainP, MainLoad, MainStore, MainV, MainWake, MainSafeClose,
         clientVars, sysVars
<1>2. TotalsTypeOK'
  BY DEF TypeOK, TotalsTypeOK, MainStep, MainP, MainLoad, MainStore, MainV, MainWake,
         MainSafeClose, shmVars, sysVars
<1>3. MainTypeOK' /\ ShmTypeOK'
  <2> USE ShmUntouched DEF TypeOK, MainTypeOK, MainPCs, shmVars
  <2>1. CASE MainP
    BY <2>1 DEF MainP, ShmTypeOK
  <2>2. CASE MainLoad
    BY <2>2 DEF MainLoad, ShmTypeOK, Couriers
  <2>3. CASE MainStore
    BY <2>3 DEF MainStore, ShmTypeOK, Couriers
  <2>4. CASE MainV
    BY <2>4 DEF MainV, ShmTypeOK
  <2>5. CASE MainWake
    BY <2>5 DEF MainWake
  <2>6. CASE MainSafeClose
    BY <2>6 DEF MainSafeClose
  <2>7. QED
    BY <2>1, <2>2, <2>3, <2>4, <2>5, <2>6 DEF MainStep
<1>4. QED
  BY <1>1, <1>2, <1>3 DEF TypeOK

\* So does the end of a session.
LEMMA LeaveType ==
  ASSUME ClientTypeOK, RegisterTypeOK, NEW c \in Clients, Leave(c)
  PROVE  ClientTypeOK' /\ RegisterTypeOK'
<1>1. RegisterTypeOK'
  BY RegisterCleared DEF Leave
<1>2. ClientTypeOK'
  BY EmptyOrderType DEF ClientTypeOK, Leave, ClientPCs, Couriers
<1>3. QED
  BY <1>1, <1>2

\* The dialog: connections and commands.
LEMMA DialogType ==
  ASSUME TypeOK, NEW c \in Clients, Dialog(c)
  PROVE  TypeOK'
<1> USE MainUntouched, ShmUntouched, TotalsUntouched, SysUntouched DEF TypeOK, shmVars, sysVars
<1>1. CASE Connect(c)
  <2>1. ClientTypeOK'
    BY <1>1 DEF Connect, ClientTypeOK, ClientPCs
  <2>2. RegisterTypeOK'
    BY <1>1, RegisterMoved DEF Connect
  <2>3. SysTypeOK'
    BY <1>1 DEF Connect, SysTypeOK
  <2>4. QED
    BY <1>1, <2>1, <2>2, <2>3 DEF Connect
<1>2. CASE ShopList(c)
  <2>1. ClientTypeOK'
    BY <1>2 DEF ShopList, Reads, ClientTypeOK
  <2>2. QED
    BY <1>2, <2>1, RegisterUntouched DEF ShopList
<1>3. CASE Cancel(c)
  BY <1>3, LeaveType DEF Cancel
<1>4. CASE Confirm(c)
  <2>1. ClientTypeOK'
    BY <1>4 DEF Confirm, Reads, ClientTypeOK, ClientPCs
  <2>2. RegisterTypeOK'
    BY <1>4, RegisterMoved, RegisterUntouched DEF Confirm
  <2>3. QED
    BY <1>4, <2>1, <2>2 DEF Confirm
<1>5. CASE \E item \in Items, quantity \in Quantities \cup {NoQuantity} :
             OrderCommand(c, item, quantity)
  <2>1. PICK item \in Items, quantity \in Quantities \cup {NoQuantity} :
               OrderCommand(c, item, quantity)
    BY <1>5
  <2>2. OrderItem(order[c], item, quantity) \in Order
    BY OrderItemType DEF ClientTypeOK
  <2>3. order' \in [Clients -> Order]
    BY <2>1, <2>2 DEF OrderCommand, ClientTypeOK
  <2>4. ClientTypeOK'
    BY <2>1, <2>3 DEF OrderCommand, Reads, ClientTypeOK
  <2>5. QED
    BY <2>1, <2>4, RegisterUntouched DEF OrderCommand
<1>6. QED
  BY <1>1, <1>2, <1>3, <1>4, <1>5 DEF Dialog

\* The critical section.
LEMMA CriticalType ==
  ASSUME TypeOK, NEW c \in Clients,
         \/ ClientP(c) \/ Estimate(c) \/ Answer(c) \/ Schedule(c)
         \/ StoreBacklog(c) \/ ClientV(c)
  PROVE  TypeOK'
<1> USE MainUntouched, ShmUntouched, TotalsUntouched, SysUntouched DEF TypeOK, shmVars, sysVars
<1>1. CASE ClientP(c)
  <2>1. RegisterTypeOK'
    BY <1>1, RegisterMoved DEF ClientP
  <2>2. ClientTypeOK'
    BY <1>1 DEF ClientP, ClientTypeOK, ClientPCs
  <2>3. ShmTypeOK'
    BY <1>1 DEF ClientP, ShmTypeOK
  <2>4. QED
    BY <1>1, <2>1, <2>2, <2>3 DEF ClientP
<1>2. CASE Estimate(c)
  <2>1. Shortest + order[c].distance \in Nat
    BY ShortestType, DistanceType
  <2>2. ClientTypeOK'
    BY <1>2, <2>1 DEF Estimate, ClientTypeOK, ClientPCs
  <2>3. RegisterTypeOK'
    BY <1>2, RegisterMoved DEF Estimate
  <2>4. QED
    BY <1>2, <2>2, <2>3 DEF Estimate
<1>3. CASE AcceptWait(c)
  BY <1>3, RegisterMoved DEF AcceptWait, ClientTypeOK, ClientPCs
<1>4. CASE RefuseWait(c)
  BY <1>4, LeaveType DEF RefuseWait, ShmTypeOK
<1>5. CASE Schedule(c)
  <2> DEFINE chosen == IF delivery_shm[0] < delivery_shm[1] THEN 0 ELSE 1
  <2>1. chosen \in Couriers /\ delivery_shm[chosen] \in Nat
    BY DEF ShmTypeOK, Couriers
  <2>2. ClientTypeOK'
    BY <1>5, <2>1 DEF Schedule, ClientTypeOK, ClientPCs
  <2>3. RegisterTypeOK'
    <3>1. delivery_shm[chosen] \in Int
      BY <2>1
    <3>2. reg' = [reg EXCEPT ![c] = delivery_shm[chosen]] /\ pc' = [pc EXCEPT ![c] = "store"]
      BY <1>5 DEF Schedule
    <3>3. QED
      BY <2>1, <3>1, <3>2, RegisterSet
  <2>4. QED
    BY <1>5, <2>2, <2>3 DEF Schedule
<1>6. CASE StoreBacklog(c)
  <2>1. reg[c] + order[c].distance \in Nat
    BY <1>6, DistanceType DEF StoreBacklog, RegisterTypeOK
  <2>2. ShmTypeOK'
    BY <1>6, <2>1 DEF StoreBacklog, ShmTypeOK, ClientTypeOK
  <2>3. ClientTypeOK'
    BY <1>6, <2>1 DEF StoreBacklog, ClientTypeOK, ClientPCs
  <2>4. RegisterTypeOK'
    BY <1>6, RegisterCleared DEF StoreBacklog
  <2>5. QED
    BY <1>6, <2>2, <2>3, <2>4 DEF StoreBacklog
<1>7. CASE ClientV(c)
  <2>1. RegisterTypeOK'
    BY <1>7, RegisterMoved DEF ClientV
  <2>2. ClientTypeOK'
    BY <1>7 DEF ClientV, ClientTypeOK, ClientPCs
  <2>3. ShmTypeOK'
    BY <1>7 DEF ClientV, ShmTypeOK
  <2>4. QED
    BY <1>7, <2>1, <2>2, <2>3 DEF ClientV
<1>8. QED
  BY <1>1, <1>2, <1>3, <1>4, <1>5, <1>6, <1>7 DEF Answer

\* Arrival and the totals.
LEMMA TallyType ==
  ASSUME TypeOK, NEW c \in Clients,
         \/ Arrive(c) \/ LoadCustomer(c) \/ StoreCustomer(c)
         \/ LoadIncome(c) \/ StoreIncome(c)
  PROVE  TypeOK'
<1> USE MainUntouched, ShmUntouched, TotalsUntouched, SysUntouched DEF TypeOK, shmVars, sysVars
<1>1. order[c].total_price \in Int /\ reg[c] \in Int
  BY DistanceType DEF RegisterTypeOK
<1>2. /\ arrived["customer"] + 1 \in Int
      /\ arrived["income"] + order[c].total_price \in Int
      /\ result_shm["customer"] \in Int /\ result_shm["income"] \in Int
  BY <1>1 DEF TotalsTypeOK, Totals
<1>3. CASE Arrive(c)
  <2>1. TotalsTypeOK'
    BY <1>2, <1>3 DEF Arrive, TotalsTypeOK
  <2>2. ClientTypeOK'
    BY <1>3 DEF Arrive, ClientTypeOK, ClientPCs, Couriers
  <2>3. RegisterTypeOK'
    BY <1>3, RegisterMoved DEF Arrive
  <2>4. QED
    BY <1>3, <2>1, <2>2, <2>3 DEF Arrive
<1>4. CASE LoadCustomer(c)
  <2>1. ClientTypeOK'
    BY <1>4 DEF LoadCustomer, ClientTypeOK, ClientPCs
  <2>2. RegisterTypeOK'
    BY <1>2, <1>4, RegisterSet DEF LoadCustomer
  <2>3. QED
    BY <1>4, <2>1, <2>2 DEF LoadCustomer
<1>5. CASE StoreCustomer(c)
  <2>1. TotalsTypeOK'
    <3>1. reg[c] + 1 \in Int
      BY <1>1
    <3>2. QED
      BY <1>5, <3>1 DEF StoreCustomer, TotalsTypeOK
  <2>2. ClientTypeOK'
    BY <1>5 DEF StoreCustomer, ClientTypeOK, ClientPCs
  <2>3. RegisterTypeOK'
    BY <1>5, RegisterCleared DEF StoreCustomer
  <2>4. QED
    BY <1>5, <2>1, <2>2, <2>3 DEF StoreCustomer
<1>6. CASE LoadIncome(c)
  <2>1. ClientTypeOK'
    BY <1>6 DEF LoadIncome, ClientTypeOK, ClientPCs
  <2>2. RegisterTypeOK'
    BY <1>2, <1>6, RegisterSet DEF LoadIncome
  <2>3. QED
    BY <1>6, <2>1, <2>2 DEF LoadIncome
<1>7. CASE StoreIncome(c)
  <2>1. TotalsTypeOK'
    <3>1. reg[c] + order[c].total_price \in Int
      BY <1>1
    <3>2. QED
      BY <1>7, <3>1 DEF StoreIncome, TotalsTypeOK
  <2>2. QED
    BY <1>7, <2>1, LeaveType DEF StoreIncome
<1>8. QED
  BY <1>3, <1>4, <1>5, <1>6, <1>7

\* Hang-ups, signals and time.
LEMMA SurroundingsType ==
  ASSUME TypeOK,
         \/ CtrlC \/ Tick
         \/ \E c \in Clients : HangUp(c) \/ SigPipe(c) \/ ClientSafeClose(c)
  PROVE  TypeOK'
<1> USE MainUntouched, ShmUntouched, TotalsUntouched, SysUntouched DEF TypeOK, shmVars, sysVars
<1>1. CASE CtrlC
  BY <1>1, ClientsUntouched, RegisterUntouched DEF CtrlC, SysTypeOK, clientVars
<1>2. CASE Tick
  <2>1. ClientTypeOK'
    <3>1. sleep_time \in [Clients -> Nat]
      BY DEF ClientTypeOK
    <3>2. \A c \in Clients : sleep_time[c] > 0 => sleep_time[c] - 1 \in Nat
      BY <3>1
    <3>3. sleep_time' \in [Clients -> Nat]
      BY <1>2, <3>1, <3>2 DEF Tick, Sleepers
    <3>4. QED
      BY <1>2, <3>3 DEF Tick, ClientTypeOK
  <2>2. MainTypeOK'
    BY <1>2 DEF Tick, MainTypeOK
  <2>3. QED
    BY <1>2, <2>1, <2>2, RegisterUntouched DEF Tick
<1>3. ASSUME NEW c \in Clients, HangUp(c) PROVE TypeOK'
  BY <1>3, RegisterUntouched DEF HangUp, ClientTypeOK
<1>4. ASSUME NEW c \in Clients, SigPipe(c) PROVE TypeOK'
  BY <1>4, LeaveType DEF SigPipe
<1>5. ASSUME NEW c \in Clients, ClientSafeClose(c) PROVE TypeOK'
  BY <1>5, LeaveType DEF ClientSafeClose
<1>6. QED
  BY <1>1, <1>2, <1>3, <1>4, <1>5

\* Every step keeps the types.
LEMMA StepType == TypeOK /\ [Next]_vars => TypeOK'
<1> SUFFICES ASSUME TypeOK, [Next]_vars PROVE TypeOK'
  OBVIOUS
<1>1. CASE UNCHANGED vars
  BY <1>1, MainUntouched, ShmUntouched, TotalsUntouched, ClientsUntouched, RegisterUntouched,
     SysUntouched
     DEF vars, TypeOK, shmVars, sysVars, clientVars
<1>2. CASE Next
  BY <1>2, MainType, DialogType, CriticalType, TallyType, SurroundingsType
     DEF Next, ClientStep, Answer
<1>3. QED
  BY <1>1, <1>2

\* The variables of the platform have their types in every reachable state.
THEOREM TypeCorrect == Spec => []TypeOK
  BY InitType, StepType, PTL DEF Spec

-----------------------------------------------------------------------------
(* Safety.                                                                 *)

LEMMA InitSafety == Init => SafetyInv
  BY DEF Init, SafetyInv, LockInv, MutualExclusion, CountdownInv, AssignInv, KnowsBacklogs,
         BacklogCoversWaits, MainCritical, ClientCritical

-----------------------------------------------------------------------------
(* The semaphore.                                                          *)

\* Nobody enters the critical section and the semaphore is not touched.
LEMMA LockKept ==
  ASSUME LockInv, s' = s,
         main_pc' \in MainCritical => main_pc \in MainCritical,
         \A c \in Clients : pc'[c] \in ClientCritical => pc[c] \in ClientCritical
  PROVE  LockInv'
  BY DEF LockInv, MutualExclusion

\* A client process takes a step from one program counter to another without
\* touching the semaphore: it has not entered the critical section.
LEMMA LockMoved ==
  ASSUME LockInv, ClientTypeOK, s' = s, main_pc' = main_pc,
         NEW c \in Clients, NEW to, pc' = [pc EXCEPT ![c] = to],
         to \in ClientCritical => pc[c] \in ClientCritical
  PROVE  LockInv'
<1>1. ASSUME NEW d \in Clients, pc'[d] \in ClientCritical
      PROVE  pc[d] \in ClientCritical
  BY <1>1 DEF ClientTypeOK
<1>2. QED
  BY <1>1, LockKept

\* A client process gives the semaphore back.
LEMMA LockReleased ==
  ASSUME LockInv, ClientTypeOK, s' = s + 1, main_pc' = main_pc,
         NEW c \in Clients, NEW to, pc' = [pc EXCEPT ![c] = to],
         pc[c] \in ClientCritical, to \notin ClientCritical
  PROVE  LockInv'
<1>1. ASSUME NEW d \in Clients PROVE pc'[d] \notin ClientCritical
  BY DEF ClientTypeOK, LockInv, MutualExclusion
<1>2. main_pc \notin MainCritical /\ s' = 1
  BY DEF LockInv, MutualExclusion
<1>3. QED
  BY <1>1, <1>2 DEF LockInv, MutualExclusion

LEMMA LockStep == TypeOK /\ LockInv /\ [Next]_vars => LockInv'
<1> SUFFICES ASSUME TypeOK, LockInv, [Next]_vars PROVE LockInv'
  OBVIOUS
<1> USE DEF TypeOK
<1>1. CASE MainP
  <2>1. \A c \in Clients : pc[c] \notin ClientCritical
    BY <1>1 DEF MainP, LockInv
  <2>2. s' = 0 /\ UNCHANGED pc
    BY <1>1 DEF MainP, LockInv, clientVars
  <2>3. QED
    BY <2>1, <2>2 DEF LockInv, MutualExclusion
<1>2. CASE MainLoad \/ MainStore \/ MainWake \/ MainSafeClose
  BY <1>2, LockKept
     DEF MainLoad, MainStore, MainWake, MainSafeClose, MainCritical, clientVars, shmVars
<1>3. CASE MainV
  <2>1. main_pc \in MainCritical /\ UNCHANGED pc /\ s' = s + 1 /\ main_pc' \notin MainCritical
    BY <1>3 DEF MainV, MainCritical, clientVars
  <2>2. s' = 1 /\ \A c \in Clients : pc[c] \notin ClientCritical
    BY <2>1 DEF LockInv, MutualExclusion
  <2>3. QED
    BY <2>1, <2>2 DEF LockInv, MutualExclusion
<1>4. ASSUME NEW c \in Clients, Dialog(c) PROVE LockInv'
  <2> USE LockMoved, LockKept DEF mainVars, shmVars, ClientCritical
  <2>1. CASE Connect(c)
    BY <2>1 DEF Connect
  <2>2. CASE ShopList(c)
    BY <2>2 DEF ShopList
  <2>3. CASE Cancel(c)
    BY <2>3 DEF Cancel, Leave
  <2>4. CASE Confirm(c)
    BY <2>4 DEF Confirm
  <2>5. CASE \E item \in Items, quantity \in Quantities \cup {NoQuantity} :
               OrderCommand(c, item, quantity)
    BY <2>5 DEF OrderCommand
  <2>6. QED
    BY <1>4, <2>1, <2>2, <2>3, <2>4, <2>5 DEF Dialog
<1>5. ASSUME NEW c \in Clients, ClientP(c) PROVE LockInv'
  <2>1. /\ s' = 0 /\ UNCHANGED main_pc /\ pc' = [pc EXCEPT ![c] = "estimate"]
        /\ main_pc \notin MainCritical
        /\ \A d \in Clients : pc[d] \notin ClientCritical
    BY <1>5 DEF ClientP, LockInv, mainVars
  <2>2. \A d \in Clients : pc'[d] \in ClientCritical => d = c
    BY <2>1 DEF ClientTypeOK
  <2>3. QED
    BY <2>1, <2>2 DEF LockInv, MutualExclusion
<1>6. ASSUME NEW c \in Clients, ClientStep(c) \/ Answer(c) PROVE LockInv'
  <2> USE LockMoved DEF mainVars, shmVars, ClientCritical
  <2>1. CASE Estimate(c) \/ AcceptWait(c) \/ Schedule(c) \/ StoreBacklog(c)
    BY <2>1 DEF Estimate, AcceptWait, Schedule, StoreBacklog
  <2>2. CASE ClientV(c)
    BY <2>2, LockReleased DEF ClientV
  <2>3. CASE RefuseWait(c)
    BY <2>3, LockReleased DEF RefuseWait, Leave
  <2>4. CASE Arrive(c) \/ LoadCustomer(c) \/ StoreCustomer(c) \/ LoadIncome(c)
    BY <2>4 DEF Arrive, LoadCustomer, StoreCustomer, LoadIncome
  <2>5. CASE StoreIncome(c)
    BY <2>5 DEF StoreIncome, Leave
  <2>6. QED
    BY <1>6, <2>1, <2>2, <2>3, <2>4, <2>5 DEF ClientStep, Answer
<1>7. ASSUME NEW c \in Clients, HangUp(c) \/ SigPipe(c) \/ ClientSafeClose(c)
      PROVE  LockInv'
  BY <1>7, LockMoved, LockKept
     DEF HangUp, SigPipe, ClientSafeClose, Leave, mainVars, shmVars, ClientCritical
<1>8. CASE CtrlC \/ Tick \/ UNCHANGED vars
  BY <1>8, LockKept DEF CtrlC, Tick, vars, mainVars, clientVars, shmVars
<1>9. QED
  BY <1>1, <1>2, <1>3, <1>4, <1>5, <1>6, <1>7, <1>8 DEF Next, MainStep

\* At most one process is between P(s) and V(s).
THEOREM MutualExclusionHolds == Spec => []MutualExclusion
<1>1. Init => LockInv
  BY InitSafety DEF SafetyInv
<1>2. LockInv => MutualExclusion
  BY DEF LockInv
<1>3. QED
  BY <1>1, <1>2, LockStep, TypeCorrect, PTL DEF Spec

-----------------------------------------------------------------------------
(* What the main process has read stays true: only it and the holder of    *)
(* the semaphore change the backlogs.                                      *)

LEMMA CountdownStep ==
  TypeOK /\ LockInv /\ CountdownInv /\ [Next]_vars => CountdownInv'
<1> SUFFICES ASSUME TypeOK, LockInv, CountdownInv, [Next]_vars PROVE CountdownInv'
  OBVIOUS
<1>1. CASE MainP \/ MainV \/ MainWake \/ MainSafeClose \/ MainLoad
  BY <1>1 DEF CountdownInv, MainP, MainV, MainWake, MainSafeClose, MainLoad, shmVars
<1>2. CASE MainStore
  BY <1>2 DEF CountdownInv, MainStore
<1>3. ASSUME NEW c \in Clients, StoreBacklog(c) PROVE CountdownInv'
  <2>1. main_pc \notin MainCritical /\ UNCHANGED mainVars
    BY <1>3 DEF StoreBacklog, LockInv, MutualExclusion, ClientCritical
  <2>2. QED
    BY <2>1 DEF CountdownInv, MainCritical, mainVars
<1>4. ASSUME UNCHANGED <<main_pc, i, main_reg, delivery_shm>> PROVE CountdownInv'
  BY <1>4 DEF CountdownInv
<1>5. QED
  BY <1>1, <1>2, <1>3, <1>4
     DEF Next, MainStep, Dialog, Connect, ShopList, Cancel, Confirm, OrderCommand, ClientP,
         ClientStep, Answer, Estimate, AcceptWait, RefuseWait, Schedule, ClientV, Arrive,
         LoadCustomer, StoreCustomer, LoadIncome, StoreIncome, HangUp, SigPipe,
         ClientSafeClose, CtrlC, Tick, vars, mainVars, shmVars

-----------------------------------------------------------------------------
(* What a client process has read stays true.                              *)

\* The variables of one client.
ClientKept(c) ==
  /\ pc'[c] = pc[c] /\ order'[c] = order[c] /\ shortest_time'[c] = shortest_time[c]
  /\ courier'[c] = courier[c] /\ reg'[c] = reg[c] /\ sleep_time'[c] = sleep_time[c]

LEMMA KnowledgeKept ==
  ASSUME NEW c \in Clients, KnowsBacklogs(c), ClientKept(c), delivery_shm' = delivery_shm
  PROVE  KnowsBacklogs(c)'
  BY DEF KnowsBacklogs, ClientKept, Shortest

\* Outside the critical section nothing is known of the backlogs.
LEMMA KnowledgeIndependent ==
  ASSUME NEW c \in Clients, KnowsBacklogs(c), ClientKept(c), pc[c] \notin ClientCritical
  PROVE  KnowsBacklogs(c)'
  BY DEF KnowsBacklogs, ClientKept, ClientCritical

\* A client that leaves knows nothing.
LEMMA LeaverKnows ==
  ASSUME ClientTypeOK, RegisterTypeOK, NEW c \in Clients, Leave(c)
  PROVE  KnowsBacklogs(c)' /\ \A d \in Clients \ {c} : ClientKept(d)
  BY DEF ClientTypeOK, RegisterTypeOK, KnowsBacklogs, ClientKept, Leave

\* What the acting client knows after each of its steps.
LEMMA ActorKnows ==
  ASSUME TypeOK, LockInv, AssignInv, NEW c \in Clients,
         \/ Dialog(c) \/ ClientP(c) \/ ClientStep(c) \/ Answer(c)
         \/ HangUp(c) \/ SigPipe(c) \/ ClientSafeClose(c)
  PROVE  KnowsBacklogs(c)'
<1> USE DEF TypeOK
<1>0. KnowsBacklogs(c)
  BY DEF AssignInv
<1>1. CASE ShopList(c) \/ HangUp(c)
  BY <1>0, <1>1, KnowledgeKept DEF ShopList, HangUp, ClientKept, shmVars
<1>2. CASE Cancel(c) \/ RefuseWait(c) \/ StoreIncome(c) \/ SigPipe(c) \/ ClientSafeClose(c)
  BY <1>2, LeaverKnows DEF Cancel, RefuseWait, StoreIncome, SigPipe, ClientSafeClose
<1>3. CASE Connect(c) \/ Confirm(c) \/ ClientP(c)
  BY <1>0, <1>3 DEF Connect, Confirm, ClientP, Reads, KnowsBacklogs, ClientTypeOK
<1>4. CASE \E item \in Items, quantity \in Quantities \cup {NoQuantity} :
             OrderCommand(c, item, quantity)
  BY <1>0, <1>4 DEF OrderCommand, Reads, KnowsBacklogs, ClientTypeOK
<1>5. CASE Estimate(c)
  BY <1>0, <1>5 DEF Estimate, KnowsBacklogs, ClientTypeOK, Shortest, shmVars
<1>6. CASE AcceptWait(c)
  BY <1>0, <1>6 DEF AcceptWait, KnowsBacklogs, ClientTypeOK, Shortest, shmVars
<1>7. CASE Schedule(c)
  <2> DEFINE chosen == IF delivery_shm[0] < delivery_shm[1] THEN 0 ELSE 1
  <2>1. delivery_shm[chosen] = Shortest
    BY DEF Shortest, ShmTypeOK, Couriers
  <2>2. /\ pc'[c] = "store" /\ courier'[c] = chosen /\ reg'[c] = delivery_shm[chosen]
        /\ delivery_shm' = delivery_shm /\ order' = order
        /\ shortest_time' = shortest_time /\ sleep_time' = sleep_time
    BY <1>7 DEF Schedule, ClientTypeOK, RegisterTypeOK, shmVars
  <2>3. pc[c] = "schedule"
    BY <1>7 DEF Schedule
  <2> HIDE DEF chosen
  <2>4. QED
    BY <1>0, <2>1, <2>2, <2>3 DEF KnowsBacklogs, Shortest
<1>8. CASE StoreBacklog(c)
  <2>1. /\ pc'[c] = "V" /\ sleep_time'[c] = reg[c] + order[c].distance
        /\ courier' = courier /\ shortest_time' = shortest_time
        /\ delivery_shm'[courier[c]] = reg[c] + order[c].distance
    BY <1>8 DEF StoreBacklog, ClientTypeOK, ShmTypeOK
  <2>2. shortest_time[c] = reg[c] + order[c].distance
    BY <1>0, <1>8 DEF StoreBacklog, KnowsBacklogs
  <2>3. QED
    BY <2>1, <2>2 DEF KnowsBacklogs
<1>9. CASE ClientV(c)
  BY <1>9 DEF ClientV, KnowsBacklogs, ClientTypeOK
<1>10. CASE Arrive(c) \/ LoadCustomer(c) \/ StoreCustomer(c) \/ LoadIncome(c)
  BY <1>0, <1>10
     DEF Arrive, LoadCustomer, StoreCustomer, LoadIncome, KnowsBacklogs, ClientTypeOK
<1>11. QED
  BY <1>1, <1>2, <1>3, <1>4, <1>5, <1>6, <1>7, <1>8, <1>9, <1>10
     DEF Dialog, ClientStep, Answer

\* A step of one client leaves the others as they are.
LEMMA OthersKept ==
  ASSUME TypeOK, NEW c \in Clients, NEW d \in Clients \ {c},
         \/ Dialog(c) \/ ClientP(c) \/ ClientStep(c) \/ Answer(c)
         \/ HangUp(c) \/ SigPipe(c) \/ ClientSafeClose(c)
  PROVE  ClientKept(d)
<1> USE DEF TypeOK, ClientTypeOK, RegisterTypeOK, ClientKept
<1>1. CASE Dialog(c)
  BY <1>1 DEF Dialog, Connect, ShopList, Cancel, Confirm, OrderCommand, Reads, Leave
<1>2. CASE ClientP(c) \/ Answer(c)
  BY <1>2 DEF ClientP, Answer, AcceptWait, RefuseWait, Leave
<1>3. CASE Estimate(c) \/ Schedule(c) \/ StoreBacklog(c) \/ ClientV(c)
  BY <1>3 DEF Estimate, Schedule, StoreBacklog, ClientV
<1>4. CASE Arrive(c) \/ LoadCustomer(c) \/ StoreCustomer(c) \/ LoadIncome(c) \/ StoreIncome(c)
  BY <1>4 DEF Arrive, LoadCustomer, StoreCustomer, LoadIncome, StoreIncome, Leave
<1>5. CASE HangUp(c) \/ SigPipe(c) \/ ClientSafeClose(c)
  BY <1>5 DEF HangUp, SigPipe, ClientSafeClose, Leave
<1>6. QED
  BY <1>1, <1>2, <1>3, <1>4, <1>5 DEF ClientStep

\* Only the store of a backlog changes the backlogs among a client's steps.
LEMMA BacklogsKept ==
  ASSUME NEW c \in Clients, ~StoreBacklog(c),
         \/ Dialog(c) \/ ClientP(c) \/ ClientStep(c) \/ Answer(c)
         \/ HangUp(c) \/ SigPipe(c) \/ ClientSafeClose(c)
  PROVE  delivery_shm' = delivery_shm
  BY DEF Dialog, Connect, ShopList, Cancel, Confirm, OrderCommand, ClientP, ClientStep, Answer,
         Estimate, AcceptWait, RefuseWait, Schedule, ClientV, Arrive, LoadCustomer,
         StoreCustomer, LoadIncome, StoreIncome, HangUp, SigPipe, ClientSafeClose, shmVars

LEMMA AssignStep == TypeOK /\ LockInv /\ AssignInv /\ [Next]_vars => AssignInv'
<1> SUFFICES ASSUME TypeOK, LockInv, AssignInv, [Next]_vars,
                    NEW d \in Clients
             PROVE  KnowsBacklogs(d)'
  BY DEF AssignInv
<1>0. KnowsBacklogs(d)
  BY DEF AssignInv
<1>1. CASE MainStep \/ MainSafeClose \/ CtrlC \/ UNCHANGED vars
  <2>1. ClientKept(d)
    BY <1>1 DEF MainStep, MainP, MainLoad, MainStore, MainV, MainWake, MainSafeClose, CtrlC,
                vars, clientVars, ClientKept
  <2>2. CASE MainStore
    <3>1. pc[d] \notin ClientCritical
      BY <2>2 DEF MainStore, MainCritical, LockInv, MutualExclusion
    <3>2. QED
      BY <1>0, <2>1, <3>1, KnowledgeIndependent
  <2>3. CASE ~MainStore
    <3>1. delivery_shm' = delivery_shm
      BY <1>1, <2>3 DEF MainStep, MainP, MainLoad, MainV, MainWake, MainSafeClose, CtrlC,
                        vars, shmVars
    <3>2. QED
      BY <1>0, <2>1, <3>1, KnowledgeKept
  <2>4. QED
    BY <2>2, <2>3
<1>2. ASSUME NEW c \in Clients,
             \/ Dialog(c) \/ ClientP(c) \/ ClientStep(c) \/ Answer(c)
             \/ HangUp(c) \/ SigPipe(c) \/ ClientSafeClose(c)
      PROVE  KnowsBacklogs(d)'
  <2>1. CASE d = c
    BY <1>2, <2>1, ActorKnows
  <2>2. CASE d # c
    <3>1. ClientKept(d)
      BY <1>2, <2>2, OthersKept
    <3>2. CASE StoreBacklog(c)
      <4>1. pc[d] \notin ClientCritical
        BY <2>2, <3>2 DEF StoreBacklog, LockInv, MutualExclusion, ClientCritical
      <4>2. QED
        BY <1>0, <3>1, <4>1, KnowledgeIndependent
    <3>3. CASE ~StoreBacklog(c)
      BY <1>0, <1>2, <3>1, <3>3, BacklogsKept, KnowledgeKept
    <3>4. QED
      BY <3>2, <3>3
  <2>3. QED
    BY <2>1, <2>2
<1>3. CASE Tick
  <2>1. pc[d] # "sleep" => ClientKept(d)
    BY <1>3 DEF Tick, Sleepers, ClientKept, TypeOK, ClientTypeOK
  <2>2. pc[d] = "sleep" => pc'[d] = "sleep"
    BY <1>3 DEF Tick
  <2>3. delivery_shm' = delivery_shm
    BY <1>3 DEF Tick, shmVars
  <2>4. QED
    BY <1>0, <2>1, <2>2, <2>3, KnowledgeKept DEF KnowsBacklogs
<1>4. QED
  BY <1>1, <1>2, <1>3 DEF Next

-----------------------------------------------------------------------------
(* The backlogs cover the waits.                                           *)

Covered(c) ==
  pc[c] = "sleep" /\ ~sigint =>
    sleep_time[c] <= delivery_shm[courier[c]] + CountedAhead(courier[c])

LEMMA AheadType == ASSUME MainTypeOK, NEW k \in Couriers PROVE CountedAhead(k) \in {0, 1}
  BY DEF MainTypeOK, CountedAhead, Couriers

\* The countdown takes a second from a backlog only as it enters it as
\* counted ahead, and forgets what it counted only when the second is over.
LEMMA MainCounts ==
  ASSUME TypeOK, CountdownInv, MainStep, NEW k \in Couriers
  PROVE  delivery_shm[k] + CountedAhead(k) <= delivery_shm'[k] + CountedAhead(k)'
<1> USE DEF TypeOK, ShmTypeOK, MainTypeOK, Couriers
<1>1. CASE MainP
  BY <1>1 DEF MainP, CountedAhead, MainCritical, CountdownInv
<1>2. CASE MainLoad
  BY <1>2 DEF MainLoad, CountedAhead, MainCritical, shmVars
<1>3. CASE MainStore
  BY <1>3 DEF MainStore, CountedAhead, MainCritical, CountdownInv
<1>4. CASE MainV
  BY <1>4 DEF MainV, CountedAhead, MainCritical
<1>5. CASE MainWake
  BY <1>5 DEF MainWake, CountedAhead, MainCritical, shmVars
<1>6. QED
  BY <1>1, <1>2, <1>3, <1>4, <1>5 DEF MainStep

\* An assignment only adds to the backlogs.
LEMMA BacklogsGrow ==
  ASSUME TypeOK, AssignInv, NEW c \in Clients, StoreBacklog(c), NEW k \in Couriers
  PROVE  delivery_shm[k] <= delivery_shm'[k]
<1>1. reg[c] = delivery_shm[courier[c]] /\ courier[c] \in Couriers
  BY DEF AssignInv, KnowsBacklogs, StoreBacklog, TypeOK, ClientTypeOK
<1>2. order[c].distance \in Nat
  BY DistanceType DEF TypeOK
<1>3. delivery_shm[k] \in Nat /\ delivery_shm[courier[c]] \in Nat
  BY <1>1 DEF TypeOK, ShmTypeOK
<1>4. delivery_shm' = [delivery_shm EXCEPT ![courier[c]] = reg[c] + order[c].distance]
  BY DEF StoreBacklog
<1>5. CASE k = courier[c]
  BY <1>1, <1>2, <1>3, <1>4, <1>5 DEF TypeOK, ShmTypeOK
<1>6. CASE k # courier[c]
  BY <1>3, <1>4, <1>6 DEF TypeOK, ShmTypeOK
<1>7. QED
  BY <1>5, <1>6

LEMMA CoverStep ==
  TypeOK /\ SafetyInv /\ [Next]_vars => BacklogCoversWaits'
<1> SUFFICES ASSUME TypeOK, SafetyInv, [Next]_vars, NEW d \in Clients
             PROVE  Covered(d)'
  BY DEF BacklogCoversWaits, Covered
<1> USE DEF SafetyInv
<1>a. courier[d] \in Couriers /\ sleep_time[d] \in Nat
  BY DEF TypeOK, ClientTypeOK
<1>b. PICK k \in Couriers : k = courier[d]
  BY <1>a
<1>c. delivery_shm[k] \in Nat /\ CountedAhead(k) \in {0, 1}
  BY AheadType DEF TypeOK, ShmTypeOK
<1>d. delivery_shm'[k] \in Nat /\ CountedAhead(k)' \in {0, 1}
  <2>1. MainTypeOK' /\ ShmTypeOK'
    BY StepType DEF TypeOK
  <2>2. QED
    BY <2>1 DEF ShmTypeOK, MainTypeOK, CountedAhead, Couriers
<1>e. pc[d] = "sleep" /\ ~sigint => sleep_time[d] <= delivery_shm[k] + CountedAhead(k)
  BY <1>b DEF BacklogCoversWaits
\* What is to be shown, of the courier as it was.
<1>f. ASSUME courier'[d] = courier[d],
             pc'[d] = "sleep" /\ ~sigint' =>
               sleep_time'[d] <= delivery_shm'[k] + CountedAhead(k)'
      PROVE  Covered(d)'
  BY <1>b, <1>f DEF Covered, CountedAhead
<1>1. CASE MainStep
  <2>1. ClientKept(d) /\ sigint' = sigint
    BY <1>1 DEF MainStep, MainP, MainLoad, MainStore, MainV, MainWake, clientVars, sysVars,
                ClientKept
  <2>2. delivery_shm[k] + CountedAhead(k) <= delivery_shm'[k] + CountedAhead(k)'
    BY <1>1, MainCounts
  <2>3. QED
    BY <1>a, <1>c, <1>d, <1>e, <1>f, <2>1, <2>2 DEF ClientKept
<1>2. CASE MainSafeClose \/ CtrlC
  BY <1>2 DEF MainSafeClose, CtrlC, Covered
<1>3. CASE UNCHANGED vars
  BY <1>e, <1>f, <1>3 DEF vars, clientVars, shmVars, mainVars, sysVars, CountedAhead
<1>4. ASSUME NEW c \in Clients,
             \/ Dialog(c) \/ ClientP(c) \/ ClientStep(c) \/ Answer(c)
             \/ HangUp(c) \/ SigPipe(c) \/ ClientSafeClose(c)
      PROVE  Covered(d)'
  <2>1. UNCHANGED mainVars /\ sigint' = sigint
    BY <1>4 DEF Dialog, Connect, ShopList, Cancel, Confirm, OrderCommand, ClientP, ClientStep,
         Answer, Estimate, AcceptWait, RefuseWait, Schedule, StoreBacklog, ClientV, Arrive,
         LoadCustomer, StoreCustomer, LoadIncome, StoreIncome, HangUp, SigPipe,
         ClientSafeClose, sysVars
  <2>2. CountedAhead(k)' = CountedAhead(k)
    BY <2>1 DEF CountedAhead, mainVars
  <2>3. ASSUME ClientKept(d) PROVE Covered(d)'
    <3>1. delivery_shm[k] <= delivery_shm'[k]
      BY <1>c, <1>4, BacklogsGrow, BacklogsKept
    <3>2. QED
      BY <1>a, <1>c, <1>d, <1>e, <1>f, <2>1, <2>2, <2>3, <3>1 DEF ClientKept
  <2>4. CASE d # c
    BY <1>4, <2>3, <2>4, OthersKept
  <2>5. CASE d = c /\ ClientV(c)
    <3>1. /\ sleep_time' = sleep_time /\ courier' = courier /\ delivery_shm' = delivery_shm
          /\ sleep_time[d] = delivery_shm[k]
      BY <1>b, <2>5 DEF ClientV, AssignInv, KnowsBacklogs
    <3>2. QED
      BY <1>c, <1>d, <1>f, <3>1
  <2>6. CASE d = c /\ HangUp(c)
    BY <2>3, <2>6 DEF HangUp, ClientKept
  <2>7. CASE d = c /\ ~ClientV(c) /\ ~HangUp(c)
    <3>1. pc'[d] # "sleep"
      BY <1>4, <2>7 DEF Dialog, Connect, ShopList, Cancel, Confirm, OrderCommand, Reads,
         ClientP, ClientStep, Answer, Estimate, AcceptWait, RefuseWait, Schedule, StoreBacklog,
         Arrive, LoadCustomer, StoreCustomer, LoadIncome, StoreIncome, SigPipe,
         ClientSafeClose, Leave, TypeOK, ClientTypeOK
    <3>2. QED
      BY <3>1 DEF Covered
  <2>8. QED
    BY <2>4, <2>5, <2>6, <2>7
<1>5. CASE Tick
  <2>1. /\ delivery_shm' = delivery_shm /\ courier' = courier /\ pc' = pc
        /\ sigint' = sigint /\ main_pc' = main_pc /\ i' = i /\ main_sleep' = 0
    BY <1>5 DEF Tick, shmVars, sysVars
  <2>2. pc[d] = "sleep" =>
          sleep_time'[d] = IF sleep_time[d] > 0 THEN sleep_time[d] - 1 ELSE sleep_time[d]
    BY <1>5 DEF Tick, Sleepers
  <2>3. CountedAhead(k) <= CountedAhead(k)' + 1
    BY <1>c, <1>d
  <2>4. QED
    BY <1>a, <1>c, <1>d, <1>e, <1>f, <2>1, <2>2, <2>3
<1>6. QED
  BY <1>1, <1>2, <1>3, <1>4, <1>5 DEF Next

-----------------------------------------------------------------------------
(* The theorems.                                                           *)

\* The inductive invariant holds in every reachable state.
THEOREM SafetyInvHolds == Spec => []SafetyInv
<1>1. TypeOK /\ SafetyInv /\ [Next]_vars => SafetyInv'
  BY LockStep, CountdownStep, AssignStep, CoverStep DEF SafetyInv
<1>2. QED
  BY <1>1, InitSafety, TypeCorrect, PTL DEF Spec

\* Every client gets the wait its process compared with LongWait.
THEOREM EstimateIsHonoured == Spec => []EstimateHonoured
<1>1. SafetyInv => EstimateHonoured
  BY DEF SafetyInv, AssignInv, KnowsBacklogs, EstimateHonoured
<1>2. QED
  BY <1>1, SafetyInvHolds, PTL

\* No courier is free, by its counter, before its clients are served.
THEOREM WaitsAreCovered == Spec => []BacklogCoversWaits
<1>1. SafetyInv => BacklogCoversWaits
  BY DEF SafetyInv
<1>2. QED
  BY <1>1, SafetyInvHolds, PTL

\* Each client waits for all the earlier clients of its courier, up to the
\* one second the countdown may run ahead.
THEOREM CouriersServeInTurn == Spec => ServedInTurn
<1> DEFINE InTurn == \A c, d \in Clients :
             /\ pc[c] = "store" /\ pc'[c] = "V" /\ ~sigint
             /\ pc[d] = "sleep" /\ courier[d] = courier[c]
             => sleep_time'[c] + 1 >= sleep_time[d] + order[c].distance
<1>1. ASSUME TypeOK, SafetyInv, [Next]_vars PROVE [InTurn]_vars
  <2> SUFFICES ASSUME NEW c \in Clients, NEW d \in Clients,
                      pc[c] = "store", pc'[c] = "V", ~sigint,
                      pc[d] = "sleep", courier[d] = courier[c]
               PROVE  sleep_time'[c] + 1 >= sleep_time[d] + order[c].distance
    OBVIOUS
  <2>1. StoreBacklog(c)
    <3>1. ~ClientKept(c)
      BY DEF ClientKept
    <3>2. ~(MainStep \/ MainSafeClose \/ CtrlC \/ Tick \/ UNCHANGED vars)
      BY DEF MainStep, MainP, MainLoad, MainStore, MainV, MainWake, MainSafeClose, CtrlC, Tick,
             vars, clientVars
    <3>3. PICK e \in Clients :
             \/ Dialog(e) \/ ClientP(e) \/ ClientStep(e) \/ Answer(e)
             \/ HangUp(e) \/ SigPipe(e) \/ ClientSafeClose(e)
      BY <1>1, <3>2 DEF Next
    <3>4. e = c
      BY <1>1, <3>1, <3>3, OthersKept
    <3>5. QED
      BY <1>1, <3>3, <3>4 DEF Dialog, Connect, ShopList, Cancel, Confirm, OrderCommand, Reads,
         ClientP, ClientStep, Answer, Estimate, AcceptWait, RefuseWait, Schedule, ClientV,
         Arrive, LoadCustomer, StoreCustomer, LoadIncome, StoreIncome, HangUp, SigPipe,
         ClientSafeClose, Leave, TypeOK, ClientTypeOK
  <2>2. sleep_time'[c] = delivery_shm[courier[c]] + order[c].distance
    BY <1>1, <2>1 DEF StoreBacklog, SafetyInv, AssignInv, KnowsBacklogs, TypeOK, ClientTypeOK
  <2>3. CountedAhead(courier[c]) \in {0, 1}
    BY <1>1, AheadType DEF TypeOK, ClientTypeOK
  <2>4. sleep_time[d] <= delivery_shm[courier[c]] + CountedAhead(courier[c])
    BY <1>1 DEF SafetyInv, BacklogCoversWaits
  <2>5. /\ delivery_shm[courier[c]] \in Nat /\ sleep_time[d] \in Nat
        /\ order[c].distance \in Nat
    BY <1>1, DistanceType DEF TypeOK, ClientTypeOK, ShmTypeOK
  <2>6. QED
    BY <2>2, <2>3, <2>4, <2>5
<1>2. QED
  BY <1>1, TypeCorrect, SafetyInvHolds, PTL DEF Spec, ServedInTurn
-----------------------------------------------------------------------------
(* The total of customers.                                                 *)

LEMMA InitCount == Init => CountInv
<1> SUFFICES ASSUME Init PROVE CountInv
  OBVIOUS
<1>1. Uncounted = {}
  BY DEF Init, Uncounted
<1>2. Cardinality(Uncounted) = 0
  BY <1>1, FS_EmptySet
<1>3. QED
  BY <1>2 DEF Init, CountInv, NothingWritten, Totals

LEMMA UncountedType == IsFiniteSet(Uncounted) /\ Cardinality(Uncounted) \in Nat
<1>1. IsFiniteSet(Uncounted)
  BY DispatchAssumption, FS_Subset DEF Uncounted
<1>2. QED
  BY <1>1, FS_CardinalityType

\* Who spares a customer for each of n spares one for each of fewer.
LEMMA FewerToSpare ==
  ASSUME NEW r \in Int, NEW a \in Int, NEW n \in Nat, NEW m \in Nat, m <= n, r + n <= a
  PROVE  r + m <= a /\ r <= a
  OBVIOUS

\* A step that adds no client to the uncounted, counts nobody and announces
\* nobody's arrival.
LEMMA CountKept ==
  ASSUME TypeOK, TypeOK', CountInv, Uncounted' \subseteq Uncounted,
         result_shm'["customer"] = result_shm["customer"],
         arrived' = arrived,
         result_txt' = result_txt \/ result_txt' = result_shm,
         \A c \in Clients : pc'[c] = "store customer" =>
           \/ pc[c] = "store customer" /\ reg'[c] = reg[c]
           \/ reg'[c] = result_shm["customer"]
  PROVE  CountInv'
<1> DEFINE n == Cardinality(Uncounted)
           m == Cardinality(Uncounted')
<1>1. n \in Nat /\ m \in Nat /\ m <= n
  <2>1. IsFiniteSet(Uncounted')
    BY UncountedType, FS_Subset
  <2>2. QED
    BY <2>1, UncountedType, FS_Subset, FS_CardinalityType
<1>2. Cardinality(Uncounted)' = m
  OBVIOUS
<1>3. result_shm["customer"] \in Int /\ arrived["customer"] \in Int
  BY DEF TypeOK, TotalsTypeOK, Totals
<1>4. result_shm["customer"] + n <= arrived["customer"]
  BY DEF CountInv
<1> HIDE DEF n, m
<1>5. result_shm["customer"] + m <= arrived["customer"]
  BY <1>1, <1>3, <1>4, FewerToSpare
<1>6. ASSUME NEW c \in Clients, pc'[c] = "store customer"
      PROVE  reg'[c] + m <= arrived["customer"]
  <2>1. CASE reg'[c] = result_shm["customer"]
    BY <1>5, <2>1
  <2>2. CASE pc[c] = "store customer" /\ reg'[c] = reg[c]
    <3>1. reg[c] + n <= arrived["customer"]
      BY <2>2 DEF CountInv, n
    <3>2. reg[c] \in Int
      BY DEF TypeOK, RegisterTypeOK
    <3>3. reg[c] + m <= arrived["customer"]
      BY <1>1, <1>3, <3>1, <3>2, FewerToSpare
    <3>4. QED
      BY <2>2, <3>3
  <2>3. QED
    BY <1>6, <2>1, <2>2
<1>7. result_txt'["customer"] <= arrived["customer"]
  <2>1. result_shm["customer"] <= arrived["customer"]
    BY <1>1, <1>3, <1>4, FewerToSpare
  <2>2. QED
    BY <2>1 DEF CountInv
<1>8. QED
  BY <1>2, <1>5, <1>6, <1>7 DEF CountInv

\* An arrival: one more order is announced and one more is uncounted.
LEMMA CountArrival ==
  ASSUME TypeOK, CountInv, NEW c \in Clients, Arrive(c)
  PROVE  CountInv'
<1> DEFINE n == Cardinality(Uncounted)
<1>1. Uncounted' = Uncounted \cup {c} /\ c \notin Uncounted
  BY DEF Arrive, Uncounted, TypeOK, ClientTypeOK
<1>2. Cardinality(Uncounted)' = n + 1
  BY <1>1, UncountedType, FS_AddElement
<1>3. n \in Nat
  BY UncountedType
<1>4. arrived'["customer"] = arrived["customer"] + 1
  BY DEF Arrive, TypeOK, TotalsTypeOK, Totals
<1>5. /\ UNCHANGED <<result_shm, result_txt, reg>>
      /\ \A d \in Clients : pc'[d] = "store customer" => pc[d] = "store customer"
  BY DEF Arrive, shmVars, TypeOK, ClientTypeOK
<1>6. /\ result_shm["customer"] \in Int /\ arrived["customer"] \in Int
      /\ result_txt["customer"] \in Int
  BY DEF TypeOK, TotalsTypeOK, Totals
<1>7. /\ result_shm["customer"] + n <= arrived["customer"]
      /\ result_txt["customer"] <= arrived["customer"]
  BY DEF CountInv
<1> HIDE DEF n
<1>8. /\ result_shm["customer"] + (n + 1) <= arrived["customer"] + 1
      /\ result_txt["customer"] <= arrived["customer"] + 1
  BY <1>3, <1>6, <1>7
<1>9. ASSUME NEW d \in Clients, pc'[d] = "store customer"
      PROVE  reg[d] + (n + 1) <= arrived["customer"] + 1
  <2>1. reg[d] + n <= arrived["customer"]
    BY <1>5, <1>9 DEF CountInv, n
  <2>2. reg[d] \in Int
    BY DEF TypeOK, RegisterTypeOK
  <2>3. QED
    BY <1>3, <1>6, <2>1, <2>2
<1>10. QED
  BY <1>2, <1>4, <1>5, <1>8, <1>9 DEF CountInv

\* A count: whatever it overwrites, it is one more than a number that left a
\* customer to spare for this client.
LEMMA CountCounted ==
  ASSUME TypeOK, CountInv, NEW c \in Clients, StoreCustomer(c)
  PROVE  CountInv'
<1> DEFINE n == Cardinality(Uncounted)
<1>1. Uncounted' = Uncounted \ {c} /\ c \in Uncounted
  BY DEF StoreCustomer, Uncounted, TypeOK, ClientTypeOK
<1>2. Cardinality(Uncounted)' = n - 1
  BY <1>1, UncountedType, FS_RemoveElement
<1>3. n \in Nat
  BY UncountedType
<1>4. pc[c] = "store customer" /\ result_shm'["customer"] = reg[c] + 1
  BY DEF StoreCustomer, TypeOK, TotalsTypeOK, Totals
<1>5. /\ UNCHANGED <<arrived, result_txt>>
      /\ \A d \in Clients : pc'[d] = "store customer" =>
           pc[d] = "store customer" /\ reg'[d] = reg[d]
  BY DEF StoreCustomer, sysVars, TypeOK, ClientTypeOK, RegisterTypeOK
<1>6. arrived["customer"] \in Int
  BY DEF TypeOK, TotalsTypeOK, Totals
<1> HIDE DEF n
<1>7. ASSUME NEW d \in Clients, pc[d] = "store customer"
      PROVE  reg[d] + n <= arrived["customer"] /\ reg[d] \in Int
  BY <1>7 DEF CountInv, n, TypeOK, RegisterTypeOK
<1>8. (reg[c] + 1) + (n - 1) <= arrived["customer"]
  <2>1. reg[c] + n <= arrived["customer"] /\ reg[c] \in Int
    BY <1>4, <1>7
  <2>2. QED
    BY <1>3, <1>6, <2>1
<1>9. ASSUME NEW d \in Clients, pc'[d] = "store customer"
      PROVE  reg[d] + (n - 1) <= arrived["customer"]
  <2>1. reg[d] + n <= arrived["customer"] /\ reg[d] \in Int
    BY <1>5, <1>7, <1>9
  <2>2. QED
    BY <1>3, <1>6, <2>1
<1>10. result_txt["customer"] <= arrived["customer"]
  BY DEF CountInv
<1>11. QED
  BY <1>2, <1>4, <1>5, <1>8, <1>9, <1>10 DEF CountInv

LEMMA CountStep == TypeOK /\ CountInv /\ [Next]_vars => CountInv'
<1> SUFFICES ASSUME TypeOK, CountInv, [Next]_vars PROVE CountInv'
  OBVIOUS
<1>1. TypeOK'
  BY StepType
<1>2. CASE MainStep \/ MainSafeClose \/ CtrlC \/ Tick \/ UNCHANGED vars
  <2>1. /\ UNCHANGED <<pc, reg, result_shm, arrived>>
        /\ result_txt' = result_txt \/ result_txt' = result_shm
    BY <1>2 DEF MainStep, MainP, MainLoad, MainStore, MainV, MainWake, MainSafeClose, CtrlC,
                Tick, vars, clientVars, shmVars, sysVars
  <2>2. QED
    BY <1>1, <2>1, CountKept DEF Uncounted
<1>3. ASSUME NEW c \in Clients,
             \/ Dialog(c) \/ ClientP(c) \/ ClientStep(c) \/ Answer(c)
             \/ HangUp(c) \/ SigPipe(c) \/ ClientSafeClose(c)
      PROVE  CountInv'
  <2>1. CASE Arrive(c)
    BY <2>1, CountArrival
  <2>2. CASE StoreCustomer(c)
    BY <2>2, CountCounted
  <2>3. CASE LoadCustomer(c)
    <3>1. /\ UNCHANGED <<result_shm, arrived, result_txt>>
          /\ pc[c] = "load customer" /\ reg'[c] = result_shm["customer"]
      BY <2>3 DEF LoadCustomer, shmVars, sysVars, TypeOK, RegisterTypeOK
    <3>2. Uncounted' = Uncounted
      BY <2>3 DEF LoadCustomer, Uncounted, TypeOK, ClientTypeOK
    <3>3. ASSUME NEW d \in Clients \ {c}, pc'[d] = "store customer"
          PROVE  pc[d] = "store customer" /\ reg'[d] = reg[d]
      BY <1>3, <3>3, OthersKept DEF ClientKept
    <3>4. QED
      BY <1>1, <3>1, <3>2, <3>3, CountKept
  <2>4. CASE ~Arrive(c) /\ ~StoreCustomer(c) /\ ~LoadCustomer(c)
    <3>1. UNCHANGED <<arrived, result_txt>>
      BY <1>3, <2>4
         DEF Dialog, Connect, ShopList, Cancel, Confirm, OrderCommand, ClientP, ClientStep,
             Answer, Estimate, AcceptWait, RefuseWait, Schedule, StoreBacklog, ClientV,
             LoadIncome, StoreIncome, HangUp, SigPipe, ClientSafeClose, sysVars
    <3>2. result_shm'["customer"] = result_shm["customer"]
      BY <1>3, <2>4
         DEF Dialog, Connect, ShopList, Cancel, Confirm, OrderCommand, ClientP, ClientStep,
             Answer, Estimate, AcceptWait, RefuseWait, Schedule, StoreBacklog, ClientV,
             LoadIncome, StoreIncome, HangUp, SigPipe, ClientSafeClose, shmVars,
             TypeOK, TotalsTypeOK, Totals
    <3>3. pc'[c] \in {"load customer", "store customer"} =>
            pc'[c] = pc[c] /\ reg'[c] = reg[c]
      BY <1>3, <2>4
         DEF Dialog, Connect, ShopList, Cancel, Confirm, OrderCommand, Reads, ClientP,
             ClientStep, Answer, Estimate, AcceptWait, RefuseWait, Schedule, StoreBacklog,
             ClientV, LoadIncome, StoreIncome, HangUp, SigPipe, ClientSafeClose, Leave,
             TypeOK, ClientTypeOK
    <3>4. ASSUME NEW d \in Clients \ {c}
          PROVE  pc'[d] = pc[d] /\ reg'[d] = reg[d]
      BY <1>3, <3>4, OthersKept DEF ClientKept
    <3>5. \A d \in Clients : pc'[d] \in {"load customer", "store customer"} =>
            pc'[d] = pc[d] /\ reg'[d] = reg[d]
      BY <3>3, <3>4
    <3>6. Uncounted' \subseteq Uncounted
      BY <3>5 DEF Uncounted
    <3>7. QED
      BY <1>1, <3>1, <3>2, <3>5, <3>6, CountKept
  <2>5. QED
    BY <2>1, <2>2, <2>3, <2>4
<1>4. QED
  BY <1>2, <1>3 DEF Next

\* Nobody is counted who got no meal, whatever the client processes overwrite
\* in result_shm, and result.txt counts no more than that.
THEOREM NobodyIsOvercounted == Spec => []NeverOvercounted
<1>1. TypeOK /\ CountInv => NeverOvercounted
  <2> SUFFICES ASSUME TypeOK, CountInv PROVE NeverOvercounted
    OBVIOUS
  <2>1. /\ result_shm["customer"] \in Int /\ arrived["customer"] \in Int
        /\ Cardinality(Uncounted) \in Nat
    BY UncountedType DEF TypeOK, TotalsTypeOK, Totals
  <2>2. result_shm["customer"] + Cardinality(Uncounted) <= arrived["customer"]
    BY DEF CountInv
  <2>3. result_shm["customer"] <= arrived["customer"]
    BY <2>1, <2>2
  <2>4. QED
    BY <2>3 DEF CountInv, NeverOvercounted
<1>2. QED
  BY <1>1, InitCount, CountStep, TypeCorrect, PTL DEF Spec
-----------------------------------------------------------------------------
(* The platform implements CourierService.                                 *)

\* Whatever is ordered, an order's distance is one of the platform's.
LEMMA OrderedDistance ==
  ASSUME NEW o \in Order, o.distance \in Distances, NEW item,
         NEW quantity \in Quantities \cup {NoQuantity}
  PROVE  OrderItem(o, item, quantity).distance \in Distances
<1>1. ASSUME NEW p \in Order, p.distance \in Distances
      PROVE  MeasureDistance(p, item) \in Order /\ MeasureDistance(p, item).distance \in Distances
  <2>1. MeasureDistance(p, item) \in Order
    BY <1>1, MeasureDistanceType
  <2>2. CASE p.first_order /\ item \in Menu
    <3>1. ShopOf[item] \in Shops
      BY <2>2, OrderAssumption
    <3>2. MeasureDistance(p, item).distance = DistanceOf[ShopOf[item]]
      BY <1>1, <2>2 DEF MeasureDistance, Order
    <3>3. QED
      BY <2>1, <3>1, <3>2 DEF Distances
  <2>3. CASE ~(p.first_order /\ item \in Menu)
    BY <1>1, <2>3 DEF MeasureDistance
  <2>4. QED
    BY <2>1, <2>2, <2>3
<1>2. ChooseShop(o, item) \in Order /\ ChooseShop(o, item).distance \in Distances
  <2>1. ShopName(item) \in Shops \cup {Unknown, NoShop}
    BY OrderAssumption DEF ShopName
  <2>2. MeasureDistance(o, item) \in Order /\ MeasureDistance(o, item).distance \in Distances
    BY <1>1
  <2>3. QED
    BY <2>1, <2>2 DEF ChooseShop, Order
<1> DEFINE chosen == MeasureDistance(ChooseShop(o, item), item)
<1>3. chosen \in Order /\ chosen.distance \in Distances
  BY <1>1, <1>2
<1> HIDE DEF chosen
<1>4. AddItem(chosen, item, quantity).distance = chosen.distance
  BY <1>3 DEF AddItem, update_num_price, Order
<1>5. QED
  BY <1>3, <1>4 DEF OrderItem, chosen

LEMMA DistanceStep == TypeOK /\ DistanceInv /\ [Next]_vars => DistanceInv'
<1> SUFFICES ASSUME TypeOK, DistanceInv, [Next]_vars, NEW d \in Clients
             PROVE  order'[d].distance \in Distances
  BY DEF DistanceInv
<1>1. order[d] \in Order /\ order[d].distance \in Distances
  BY DEF DistanceInv, TypeOK, ClientTypeOK
<1>2. CASE order'[d] = order[d]
  BY <1>1, <1>2
<1>3. CASE order'[d] = EmptyOrder
  BY <1>3 DEF EmptyOrder, Distances
<1>4. ASSUME NEW item \in Items, NEW quantity \in Quantities \cup {NoQuantity},
             order'[d] = OrderItem(order[d], item, quantity)
      PROVE  order'[d].distance \in Distances
  BY <1>1, <1>4, OrderedDistance
<1>5. CASE MainStep \/ MainSafeClose \/ CtrlC \/ Tick \/ UNCHANGED vars
  BY <1>2, <1>5 DEF MainStep, MainP, MainLoad, MainStore, MainV, MainWake, MainSafeClose,
                    CtrlC, Tick, vars, clientVars
<1>6. ASSUME NEW c \in Clients,
             \/ Dialog(c) \/ ClientP(c) \/ ClientStep(c) \/ Answer(c)
             \/ HangUp(c) \/ SigPipe(c) \/ ClientSafeClose(c)
      PROVE  order'[d].distance \in Distances
  <2>1. CASE d # c
    BY <1>2, <1>6, <2>1, OthersKept DEF ClientKept
  <2>2. CASE d = c /\ \E item \in Items, quantity \in Quantities \cup {NoQuantity} :
                        OrderCommand(c, item, quantity)
    BY <1>4, <2>2 DEF OrderCommand, TypeOK, ClientTypeOK
  <2>3. CASE d = c /\ ~\E item \in Items, quantity \in Quantities \cup {NoQuantity} :
                         OrderCommand(c, item, quantity)
    <3>1. order' = order \/ order'[d] = EmptyOrder
      BY <1>6, <2>3
         DEF Dialog, Connect, ShopList, Cancel, Confirm, ClientP, ClientStep,
             Answer, Estimate, AcceptWait, RefuseWait, Schedule, StoreBacklog, ClientV, Arrive,
             LoadCustomer, StoreCustomer, LoadIncome, StoreIncome, HangUp, SigPipe,
             ClientSafeClose, Leave, TypeOK, ClientTypeOK
    <3>2. QED
      BY <1>2, <1>3, <3>1
  <2>4. QED
    BY <2>1, <2>2, <2>3
<1>7. QED
  BY <1>5, <1>6 DEF Next

\* The platform starts as the service does.
LEMMA ServiceStarts == Init => Service!Init
  BY DEF Init, Service!Init, ServiceStatus, StatusAt

\* A step that leaves the clients' states in the service alone.
LEMMA ServiceKept ==
  ASSUME UNCHANGED <<delivery_shm, sleep_time>>,
         \A c \in Clients : StatusAt(pc'[c]) = StatusAt(pc[c])
  PROVE  UNCHANGED Service!vars
  BY DEF Service!vars, ServiceStatus

\* A step of one client.
LEMMA StatusMoves ==
  ASSUME ClientTypeOK, NEW c \in Clients, NEW to, pc' = [pc EXCEPT ![c] = to]
  PROVE  ServiceStatus' = [ServiceStatus EXCEPT ![c] = StatusAt(to)]
  BY DEF ClientTypeOK, ServiceStatus

\* A client that leaves before it is assigned was never in the service; after
\* that its order is abandoned.
LEMMA LeaverAbandons ==
  ASSUME TypeOK, AssignInv, NEW c \in Clients, Leave(c), UNCHANGED delivery_shm
  PROVE  [Service!Next]_(Service!vars)
<1> USE DEF TypeOK, ClientTypeOK
<1>1. ServiceStatus' = [ServiceStatus EXCEPT ![c] = "ordering"]
  <2>1. StatusAt("closed") = "ordering"
    BY DEF StatusAt
  <2>2. ServiceStatus' = [ServiceStatus EXCEPT ![c] = StatusAt("closed")]
    BY StatusMoves DEF Leave
  <2>3. QED
    BY <2>1, <2>2
<1>2. sleep_time' = [sleep_time EXCEPT ![c] = 0]
  BY DEF Leave
<1>3. CASE pc[c] \in {"V", "sleep"}
  <2>1. ServiceStatus[c] # "ordering"
    BY <1>3 DEF ServiceStatus, StatusAt
  <2>2. Service!Abandon(c)
    BY <1>1, <1>2, <2>1 DEF Service!Abandon
  <2>3. QED
    BY <2>2 DEF Service!Next
<1>4. CASE pc[c] \notin {"V", "sleep"}
  <2>1. ServiceStatus[c] = "ordering" /\ sleep_time[c] = 0
    BY <1>4 DEF ServiceStatus, StatusAt, AssignInv, KnowsBacklogs
  <2>2. UNCHANGED <<ServiceStatus, sleep_time>>
    BY <1>1, <1>2, <2>1 DEF ServiceStatus
  <2>3. QED
    BY <2>2 DEF Service!vars
<1>5. QED
  BY <1>3, <1>4

\* The store of a backlog is the assignment: to a courier with the least work,
\* as nobody has changed the backlogs since they were compared.
LEMMA StoreAssigns ==
  ASSUME TypeOK, AssignInv, DistanceInv, NEW c \in Clients, StoreBacklog(c)
  PROVE  Service!Assign(c)
<1> DEFINE k == courier[c]
           d == order[c].distance
<1>1. k \in Couriers /\ d \in Distances
  BY DEF TypeOK, ClientTypeOK, DistanceInv
<1>2. delivery_shm[k] = Shortest /\ reg[c] = delivery_shm[k]
  BY DEF StoreBacklog, AssignInv, KnowsBacklogs
<1>3. \A other \in Couriers : delivery_shm[k] <= delivery_shm[other]
  BY <1>2 DEF Shortest, Couriers, TypeOK, ShmTypeOK
<1>4. ServiceStatus[c] = "ordering"
  BY DEF StoreBacklog, ServiceStatus, StatusAt
<1>5. ServiceStatus' = [ServiceStatus EXCEPT ![c] = "assigned"]
  BY StatusMoves DEF StoreBacklog, StatusAt, TypeOK
<1>6. /\ delivery_shm' = [delivery_shm EXCEPT ![k] = reg[c] + d]
      /\ sleep_time' = [sleep_time EXCEPT ![c] = reg[c] + d]
  BY DEF StoreBacklog
<1> HIDE DEF k, d
<1>7. /\ delivery_shm' = [delivery_shm EXCEPT ![k] = delivery_shm[k] + d]
      /\ sleep_time' = [sleep_time EXCEPT ![c] = delivery_shm[k] + d]
  BY <1>2, <1>6
<1>8. QED
  BY <1>1, <1>3, <1>4, <1>5, <1>7 DEF Service!Assign

\* The steps of a client process.
LEMMA ClientImplements ==
  ASSUME TypeOK, AssignInv, DistanceInv, NEW c \in Clients,
         \/ Dialog(c) \/ ClientP(c) \/ ClientStep(c) \/ Answer(c)
         \/ HangUp(c) \/ SigPipe(c) \/ ClientSafeClose(c)
  PROVE  [Service!Next]_(Service!vars)
<1>1. CASE Cancel(c) \/ RefuseWait(c) \/ StoreIncome(c) \/ SigPipe(c) \/ ClientSafeClose(c)
  BY <1>1, LeaverAbandons
     DEF Cancel, RefuseWait, StoreIncome, SigPipe, ClientSafeClose, shmVars
<1>2. CASE StoreBacklog(c)
  BY <1>2, StoreAssigns DEF Service!Next
<1>3. CASE ClientV(c)
  <2>1. ServiceStatus[c] = "assigned" /\ UNCHANGED <<delivery_shm, sleep_time>>
    BY <1>3 DEF ClientV, ServiceStatus, StatusAt
  <2>2. ServiceStatus' = [ServiceStatus EXCEPT ![c] = "waiting"]
    BY <1>3, StatusMoves DEF ClientV, StatusAt, TypeOK
  <2>3. QED
    BY <2>1, <2>2 DEF Service!StartWaiting, Service!Next
<1>4. CASE Arrive(c)
  <2>1. /\ ServiceStatus[c] = "waiting" /\ sleep_time[c] = 0
        /\ UNCHANGED <<delivery_shm, sleep_time>>
    BY <1>4 DEF Arrive, ServiceStatus, StatusAt, shmVars
  <2>2. ServiceStatus' = [ServiceStatus EXCEPT ![c] = "ordering"]
    <3>1. StatusAt("load customer") = "ordering"
      BY DEF StatusAt
    <3>2. ServiceStatus' = [ServiceStatus EXCEPT ![c] = StatusAt("load customer")]
      BY <1>4, StatusMoves DEF Arrive, TypeOK
    <3>3. QED
      BY <3>1, <3>2
  <2>3. QED
    BY <2>1, <2>2 DEF Service!Deliver, Service!Next
<1>5. CASE \/ Connect(c) \/ ShopList(c) \/ Confirm(c) \/ ClientP(c) \/ Estimate(c)
           \/ AcceptWait(c) \/ Schedule(c) \/ LoadCustomer(c) \/ StoreCustomer(c)
           \/ LoadIncome(c) \/ HangUp(c)
           \/ \E item \in Items, quantity \in Quantities \cup {NoQuantity} :
                OrderCommand(c, item, quantity)
  <2>1. UNCHANGED <<delivery_shm, sleep_time>>
    BY <1>5 DEF Connect, ShopList, Confirm, ClientP, Estimate, AcceptWait, Schedule,
                LoadCustomer, StoreCustomer, LoadIncome, HangUp, OrderCommand, shmVars
  <2>2. StatusAt(pc'[c]) = StatusAt(pc[c])
    BY <1>5 DEF Connect, ShopList, Confirm, ClientP, Estimate, AcceptWait, Schedule,
                LoadCustomer, StoreCustomer, LoadIncome, HangUp, OrderCommand, Reads,
                StatusAt, TypeOK, ClientTypeOK
  <2>3. \A d \in Clients \ {c} : pc'[d] = pc[d]
    BY OthersKept DEF ClientKept
  <2>4. QED
    BY <2>1, <2>2, <2>3, ServiceKept
<1>6. QED
  BY <1>1, <1>2, <1>3, <1>4, <1>5 DEF Dialog, ClientStep, Answer

\* Every step of the platform is a step of the service, or none.
LEMMA StepImplements ==
  TypeOK /\ SafetyInv /\ DistanceInv /\ [Next]_vars => [Service!Next]_(Service!vars)
<1> SUFFICES ASSUME TypeOK, SafetyInv, DistanceInv, [Next]_vars
             PROVE  [Service!Next]_(Service!vars)
  OBVIOUS
<1>1. CASE MainStore
  <2>1. /\ i \in Couriers /\ delivery_shm[i] > 0
        /\ delivery_shm' = [delivery_shm EXCEPT ![i] = delivery_shm[i] - 1]
    BY <1>1 DEF MainStore, TypeOK, MainTypeOK, SafetyInv, CountdownInv
  <2>2. UNCHANGED <<ServiceStatus, sleep_time>>
    BY <1>1 DEF MainStore, clientVars, ServiceStatus
  <2>3. Service!Work(i)
    BY <2>1, <2>2 DEF Service!Work
  <2>4. QED
    BY <2>1, <2>3 DEF Service!Next
<1>2. CASE MainP \/ MainLoad \/ MainV \/ MainWake \/ MainSafeClose \/ CtrlC \/ UNCHANGED vars
  <2>1. UNCHANGED <<delivery_shm, pc, sleep_time>>
    BY <1>2 DEF MainP, MainLoad, MainV, MainWake, MainSafeClose, CtrlC, vars, clientVars, shmVars
  <2>2. QED
    BY <2>1, ServiceKept
<1>3. CASE Tick
  <2>1. \A c \in Clients : c \in Sleepers <=> ServiceStatus[c] = "waiting" /\ sleep_time[c] > 0
    BY DEF Sleepers, ServiceStatus, StatusAt
  <2>2. UNCHANGED <<delivery_shm, ServiceStatus>>
    BY <1>3 DEF Tick, shmVars, ServiceStatus
  <2>3. Service!Second
    BY <1>3, <2>1, <2>2 DEF Tick, Service!Second
  <2>4. QED
    BY <2>3 DEF Service!Next
<1>4. ASSUME NEW c \in Clients,
             \/ Dialog(c) \/ ClientP(c) \/ ClientStep(c) \/ Answer(c)
             \/ HangUp(c) \/ SigPipe(c) \/ ClientSafeClose(c)
      PROVE  [Service!Next]_(Service!vars)
  BY <1>4, ClientImplements DEF SafetyInv
<1>5. QED
  BY <1>1, <1>2, <1>3, <1>4 DEF Next, MainStep

\* Processes, semaphore and shared memory together keep the promise of
\* CourierService: every order goes to a courier with the least work and its
\* client waits for all of that work.
THEOREM PlatformImplementsService == Spec => ImplementsService
<1>1. Init => DistanceInv
  BY DEF Init, DistanceInv, EmptyOrder, Distances
<1>2. Spec => []DistanceInv
  BY <1>1, DistanceStep, TypeCorrect, PTL DEF Spec
<1>3. QED
  BY <1>2, ServiceStarts, StepImplements, TypeCorrect, SafetyInvHolds, PTL
     DEF Spec, ImplementsService, Service!Spec
=============================================================================
