------------------------------ MODULE Dispatch ------------------------------
(***************************************************************************)
(* The delivery platform of hw3.c: one process per connected client, the   *)
(* main process that counts the couriers' backlogs down once a second, and *)
(* what they share: the backlogs (delivery_shm), the totals for result.txt *)
(* (result_shm) and the System V semaphore s that guards the backlogs.     *)
(*                                                                         *)
(* A step is what a process does between two accesses to shared memory or  *)
(* two system calls.  Time is discrete: Tick lets one second pass for      *)
(* every process in sleep(), which returns no earlier than asked but       *)
(* possibly later, as sleep() promises no more than that.                  *)
(*                                                                         *)
(* A client process that is done with its client falls back into main's    *)
(* accept loop, so every finished process is one more acceptor.  All of    *)
(* them hold a reset order (initial_shop apart, which the next first order *)
(* overwrites), and which of them accepts makes no difference: a client    *)
(* slot is simply taken again.  A local variable that is not read again    *)
(* goes back to its initial value, to keep the states few.                 *)
(***************************************************************************)
EXTENDS Order, FiniteSets

CONSTANTS
  Clients,      \* slots for simultaneously connected clients
  Quitters,     \* the clients that may close their connection at any time
  LongWait,     \* 30: a longer wait is put to the client as a question
  MaxAccepted,  \* bound: connections accepted in a behaviour
  MaxPrice      \* bound: total_price of an order

ASSUME DispatchAssumption ==
  /\ IsFiniteSet(Clients)
  /\ Quitters \subseteq Clients
  /\ LongWait \in Nat
  /\ MaxAccepted \in Nat
  /\ MaxPrice \in Int

Couriers == {0, 1}
Totals == {"customer", "income"}      \* the two entries of result_shm

VARIABLES
  delivery_shm,   \* seconds of work each courier has left
  result_shm,     \* what was counted: customers served and their payments
  s,              \* the value of the semaphore
  main_pc, i, main_reg, main_sleep,   \* the main process: counting_time_CS
  pc,             \* where each client process is
  order,          \* its order
  buffer,         \* the last command it read (of a Quitter: nobody else's is read twice)
  hung_up,        \* the clients that closed their end of the connection
  shortest_time,  \* its estimate of the waiting time
  courier,        \* the courier schedule_and_wait chose
  reg,            \* the value it loaded and is about to store increased
  sleep_time,     \* the result of schedule_and_wait, then the seconds left of it
  sigint,         \* Ctrl+C was pressed
  result_txt,     \* what result.txt holds
  accepted,       \* connections accepted so far (for MaxAccepted)
  arrived         \* history: orders announced as arrived, and their prices

mainVars == <<main_pc, i, main_reg, main_sleep>>
clientVars == <<pc, order, buffer, hung_up, shortest_time, courier, reg, sleep_time>>
shmVars == <<delivery_shm, result_shm, s>>
sysVars == <<sigint, result_txt, accepted, arrived>>
vars == <<mainVars, clientVars, shmVars, sysVars>>

MainPCs == {"P", "load", "store", "sleep", "exited"}
ClientPCs == {"closed", "read", "P", "estimate", "reply", "schedule", "store", "V",
              "sleep", "load customer", "store customer", "load income", "store income"}

\* The program counters between P(s) and V(s).
MainCritical == {"load", "store"}
ClientCritical == {"estimate", "reply", "schedule", "store", "V"}

NothingWritten == [t \in Totals |-> -1]    \* result.txt before the program ends

MainTypeOK ==
  /\ main_pc \in MainPCs
  /\ i \in 0..2
  /\ main_reg \in Nat
  /\ main_pc = "store" => i \in Couriers /\ main_reg > 0
  /\ main_sleep \in 0..1

ShmTypeOK ==
  /\ delivery_shm \in [Couriers -> Nat]
  /\ s \in Nat

TotalsTypeOK ==
  /\ result_shm \in [Totals -> Int]
  /\ result_txt \in [Totals -> Int]
  /\ arrived \in [Totals -> Int]

ClientTypeOK ==
  /\ pc \in [Clients -> ClientPCs]
  /\ order \in [Clients -> Order]
  /\ buffer \in [Clients -> {"none", "shop list", "order", "confirm"}]
  /\ hung_up \subseteq Clients
  /\ shortest_time \in [Clients -> Nat]
  /\ courier \in [Clients -> Couriers]
  /\ sleep_time \in [Clients -> Nat]

RegisterTypeOK ==
  /\ reg \in [Clients -> Int]
  /\ \A c \in Clients : pc[c] = "store" => reg[c] \in Nat

SysTypeOK == sigint \in BOOLEAN /\ accepted \in Nat

\* The type invariant, by the owner of the variables: the main process, the
\* shared backlogs, the totals, the client processes, the surroundings.
TypeOK ==
  /\ MainTypeOK /\ ShmTypeOK /\ TotalsTypeOK
  /\ ClientTypeOK /\ RegisterTypeOK /\ SysTypeOK

Init ==
  /\ delivery_shm = [k \in Couriers |-> 0]
  /\ result_shm = [t \in Totals |-> 0]
  /\ s = 1
  /\ main_pc = "P" /\ i = 0 /\ main_reg = 0 /\ main_sleep = 0
  /\ pc = [c \in Clients |-> "closed"]
  /\ order = [c \in Clients |-> EmptyOrder]
  /\ buffer = [c \in Clients |-> "none"]
  /\ hung_up = {}
  /\ shortest_time = [c \in Clients |-> 0]
  /\ courier = [c \in Clients |-> 0]
  /\ reg = [c \in Clients |-> 0]
  /\ sleep_time = [c \in Clients |-> 0]
  /\ sigint = FALSE
  /\ result_txt = NothingWritten
  /\ accepted = 0
  /\ arrived = [t \in Totals |-> 0]

-----------------------------------------------------------------------------
(* The main process.                                                       *)

\* Mutant: an interrupted semop is taken for a success.
MainP_Interrupted ==
  /\ main_pc = "P" /\ ~sigint
  /\ s' = IF s > 0 THEN s - 1 ELSE s
  /\ main_pc' = "load"
  /\ UNCHANGED <<i, main_reg, main_sleep, delivery_shm, result_shm, clientVars, sysVars>>

MainP ==
  /\ main_pc = "P" /\ ~sigint
  /\ s > 0
  /\ s' = s - 1
  /\ main_pc' = "load"
  /\ UNCHANGED <<i, main_reg, main_sleep, delivery_shm, result_shm, clientVars, sysVars>>

\* Mutant: a backlog is counted down without the test.
MainLoad_NoTest ==
  /\ main_pc = "load" /\ i \in Couriers
  /\ main_reg' = delivery_shm[i] /\ main_pc' = "store"
  /\ UNCHANGED <<i, main_sleep, shmVars, clientVars, sysVars>>

\* The test delivery_shm[i] > 0 and the load of the decrement.
MainLoad ==
  /\ main_pc = "load" /\ i \in Couriers
  /\ IF delivery_shm[i] > 0
       THEN main_reg' = delivery_shm[i] /\ main_pc' = "store" /\ UNCHANGED i
       ELSE i' = i + 1 /\ UNCHANGED <<main_reg, main_pc>>
  /\ UNCHANGED <<main_sleep, shmVars, clientVars, sysVars>>

MainStore ==
  /\ main_pc = "store"
  /\ delivery_shm' = [delivery_shm EXCEPT ![i] = main_reg - 1]
  /\ main_reg' = 0 /\ i' = i + 1 /\ main_pc' = "load"
  /\ UNCHANGED <<main_sleep, result_shm, s, clientVars, sysVars>>

\* Mutant: sleep(1) returns at once, as it does when a signal interrupts it.
MainV_NoSleep ==
  /\ main_pc = "load" /\ i = 2 /\ ~sigint
  /\ s' = s + 1
  /\ main_pc' = "sleep" /\ i' = 0
  /\ UNCHANGED <<main_reg, main_sleep, delivery_shm, result_shm, clientVars, sysVars>>

MainV ==
  /\ main_pc = "load" /\ i = 2 /\ ~sigint
  /\ s' = s + 1
  /\ main_pc' = "sleep" /\ main_sleep' = 1 /\ i' = 0
  /\ UNCHANGED <<main_reg, delivery_shm, result_shm, clientVars, sysVars>>

MainWake ==
  /\ main_pc = "sleep" /\ main_sleep = 0 /\ ~sigint
  /\ main_pc' = "P"
  /\ UNCHANGED <<i, main_reg, main_sleep, shmVars, clientVars, sysVars>>

\* safe_close_routine in the main process, wherever the signal meets it: the
\* semaphore and the segments are removed and result.txt is written.
MainSafeClose ==
  /\ sigint /\ main_pc # "exited"
  /\ main_pc' = "exited"
  /\ result_txt' = result_shm
  /\ UNCHANGED <<i, main_reg, main_sleep, shmVars, clientVars, sigint, accepted, arrived>>

-----------------------------------------------------------------------------
(* A client process: connection and dialog.                                *)

\* accept and fork in handleClient: a process for the client in slot c.
Connect(c) ==
  /\ pc[c] = "closed" /\ ~sigint
  /\ accepted < MaxAccepted
  /\ accepted' = accepted + 1
  /\ pc' = [pc EXCEPT ![c] = "read"]
  /\ UNCHANGED <<order, buffer, hung_up, shortest_time, courier, reg, sleep_time, mainVars,
                 shmVars, sigint, result_txt, arrived>>

\* read returns a new command, or nothing once the client has hung up: the
\* loop then takes what is still in its buffer for the next command.
Reads(c, command) ==
  /\ pc[c] = "read" /\ ~sigint
  /\ c \in hung_up => buffer[c] = command
  /\ buffer' = IF c \in Quitters THEN [buffer EXCEPT ![c] = command] ELSE buffer

\* The end of the while loop: the order is reset, the socket closed, and the
\* process returns to main's accept loop.
Leave(c) ==
  /\ pc' = [pc EXCEPT ![c] = "closed"]
  /\ order' = [order EXCEPT ![c] = EmptyOrder]
  /\ buffer' = [buffer EXCEPT ![c] = "none"]
  /\ hung_up' = hung_up \ {c}
  /\ shortest_time' = [shortest_time EXCEPT ![c] = 0]
  /\ courier' = [courier EXCEPT ![c] = 0]
  /\ reg' = [reg EXCEPT ![c] = 0]
  /\ sleep_time' = [sleep_time EXCEPT ![c] = 0]

ShopList(c) ==
  /\ Reads(c, "shop list")
  /\ UNCHANGED <<pc, order, hung_up, shortest_time, courier, reg, sleep_time, mainVars,
                 shmVars, sysVars>>

\* An "order" found in the buffer a second time was cut by strtok: it names no
\* item and does nothing.
OrderCommand(c, item, quantity) ==
  /\ Reads(c, "order")
  /\ c \notin hung_up
  /\ order' = [order EXCEPT ![c] = OrderItem(@, item, quantity)]
  /\ order'[c].total_price <= MaxPrice
  /\ UNCHANGED <<pc, hung_up, shortest_time, courier, reg, sleep_time, mainVars, shmVars,
                 sysVars>>

Cancel(c) ==
  /\ pc[c] = "read" /\ c \notin hung_up /\ ~sigint
  /\ Leave(c)
  /\ UNCHANGED <<mainVars, shmVars, sysVars>>

Confirm(c) ==
  /\ Reads(c, "confirm")
  /\ pc' = IF order[c].first_order THEN pc ELSE [pc EXCEPT ![c] = "P"]
  /\ UNCHANGED <<order, hung_up, shortest_time, courier, reg, sleep_time, mainVars, shmVars,
                 sysVars>>

-----------------------------------------------------------------------------
(* A client process: the critical section of "confirm".                    *)

\* Mutant: the semaphore is taken whether it is free or not.
ClientP_NoWait(c) ==
  /\ pc[c] = "P" /\ ~sigint
  /\ s' = IF s > 0 THEN s - 1 ELSE s
  /\ pc' = [pc EXCEPT ![c] = "estimate"]
  /\ UNCHANGED <<order, buffer, hung_up, shortest_time, courier, reg, sleep_time,
                 delivery_shm, result_shm, mainVars, sysVars>>

ClientP(c) ==
  /\ pc[c] = "P" /\ ~sigint
  /\ s > 0
  /\ s' = s - 1
  /\ pc' = [pc EXCEPT ![c] = "estimate"]
  /\ UNCHANGED <<order, buffer, hung_up, shortest_time, courier, reg, sleep_time,
                 delivery_shm, result_shm, mainVars, sysVars>>

Shortest == IF delivery_shm[0] <= delivery_shm[1] THEN delivery_shm[0] ELSE delivery_shm[1]

\* Both backlogs are read in one step; a wait that is too long is asked about.
Estimate(c) ==
  /\ pc[c] = "estimate" /\ ~sigint
  /\ LET time == Shortest + order[c].distance
     IN  /\ shortest_time' = [shortest_time EXCEPT ![c] = time]
         /\ pc' = [pc EXCEPT ![c] = IF time > LongWait THEN "reply" ELSE "schedule"]
  /\ UNCHANGED <<order, buffer, hung_up, courier, reg, sleep_time, mainVars, shmVars, sysVars>>

\* Any answer but "No" is consent, and so is the end of the connection: the
\* buffer still holds "confirm" then.
AcceptWait(c) ==
  /\ pc[c] = "reply" /\ ~sigint
  /\ pc' = [pc EXCEPT ![c] = "schedule"]
  /\ UNCHANGED <<order, buffer, hung_up, shortest_time, courier, reg, sleep_time, mainVars,
                 shmVars, sysVars>>

\* Mutant: the way out of the loop forgets V(s).
RefuseWait_NoV(c) ==
  /\ pc[c] = "reply" /\ c \notin hung_up /\ ~sigint
  /\ Leave(c)
  /\ UNCHANGED <<mainVars, shmVars, sysVars>>

RefuseWait(c) ==
  /\ pc[c] = "reply" /\ c \notin hung_up /\ ~sigint
  /\ s' = s + 1
  /\ Leave(c)
  /\ UNCHANGED <<delivery_shm, result_shm, mainVars, sysVars>>

\* Mutant: the comparison is the wrong way round.
Schedule_Longest(c) ==
  /\ pc[c] = "schedule" /\ ~sigint
  /\ LET chosen == IF delivery_shm[0] > delivery_shm[1] THEN 0 ELSE 1
     IN  /\ courier' = [courier EXCEPT ![c] = chosen]
         /\ reg' = [reg EXCEPT ![c] = delivery_shm[chosen]]
  /\ pc' = [pc EXCEPT ![c] = "store"]
  /\ UNCHANGED <<order, buffer, hung_up, shortest_time, sleep_time, mainVars, shmVars, sysVars>>

\* schedule_and_wait: the comparison and the load of the chosen backlog.
Schedule(c) ==
  /\ pc[c] = "schedule" /\ ~sigint
  /\ LET chosen == IF delivery_shm[0] < delivery_shm[1] THEN 0 ELSE 1
     IN  /\ courier' = [courier EXCEPT ![c] = chosen]
         /\ reg' = [reg EXCEPT ![c] = delivery_shm[chosen]]
  /\ pc' = [pc EXCEPT ![c] = "store"]
  /\ UNCHANGED <<order, buffer, hung_up, shortest_time, sleep_time, mainVars, shmVars, sysVars>>

\* Mutant: the backlog is replaced, not increased.
StoreBacklog_Replace(c) ==
  /\ pc[c] = "store"
  /\ delivery_shm' = [delivery_shm EXCEPT ![courier[c]] = order[c].distance]
  /\ sleep_time' = [sleep_time EXCEPT ![c] = order[c].distance]
  /\ reg' = [reg EXCEPT ![c] = 0]
  /\ pc' = [pc EXCEPT ![c] = "V"]
  /\ UNCHANGED <<order, buffer, hung_up, shortest_time, courier, result_shm, s, mainVars,
                 sysVars>>

\* schedule_and_wait: the store, and the sum as its result.
StoreBacklog(c) ==
  /\ pc[c] = "store"
  /\ delivery_shm' = [delivery_shm EXCEPT ![courier[c]] = reg[c] + order[c].distance]
  /\ sleep_time' = [sleep_time EXCEPT ![c] = reg[c] + order[c].distance]
  /\ reg' = [reg EXCEPT ![c] = 0]
  /\ pc' = [pc EXCEPT ![c] = "V"]
  /\ UNCHANGED <<order, buffer, hung_up, shortest_time, courier, result_shm, s, mainVars,
                 sysVars>>

\* Mutant: the totals are updated without sleeping until the arrival.
ClientV_CountFirst(c) ==
  /\ pc[c] = "V" /\ ~sigint
  /\ s' = s + 1
  /\ shortest_time' = [shortest_time EXCEPT ![c] = 0]
  /\ pc' = [pc EXCEPT ![c] = "load customer"]
  /\ UNCHANGED <<order, buffer, hung_up, courier, reg, sleep_time, delivery_shm, result_shm,
                 mainVars, sysVars>>

ClientV(c) ==
  /\ pc[c] = "V" /\ ~sigint
  /\ s' = s + 1
  /\ shortest_time' = [shortest_time EXCEPT ![c] = 0]
  /\ pc' = [pc EXCEPT ![c] = "sleep"]
  /\ UNCHANGED <<order, buffer, hung_up, courier, reg, sleep_time, delivery_shm, result_shm,
                 mainVars, sysVars>>

-----------------------------------------------------------------------------
(* A client process: arrival and the totals.  The pthread mutex around the *)
(* totals is a global of a forked process: each process locks its own, so  *)
(* it is always free and no step of another process waits for it.          *)

Arrive(c) ==
  /\ pc[c] = "sleep" /\ sleep_time[c] = 0 /\ ~sigint
  /\ arrived' = [arrived EXCEPT !["customer"] = @ + 1,
                                !["income"] = @ + order[c].total_price]
  /\ pc' = [pc EXCEPT ![c] = "load customer"]
  /\ courier' = [courier EXCEPT ![c] = 0]
  /\ UNCHANGED <<order, buffer, hung_up, shortest_time, reg, sleep_time, mainVars, shmVars,
                 sigint, result_txt, accepted>>

LoadCustomer(c) ==
  /\ pc[c] = "load customer"
  /\ reg' = [reg EXCEPT ![c] = result_shm["customer"]]
  /\ pc' = [pc EXCEPT ![c] = "store customer"]
  /\ UNCHANGED <<order, buffer, hung_up, shortest_time, courier, sleep_time, mainVars,
                 shmVars, sysVars>>

StoreCustomer(c) ==
  /\ pc[c] = "store customer"
  /\ result_shm' = [result_shm EXCEPT !["customer"] = reg[c] + 1]
  /\ reg' = [reg EXCEPT ![c] = 0]
  /\ pc' = [pc EXCEPT ![c] = "load income"]
  /\ UNCHANGED <<order, buffer, hung_up, shortest_time, courier, sleep_time, delivery_shm, s,
                 mainVars, sysVars>>

LoadIncome(c) ==
  /\ pc[c] = "load income"
  /\ reg' = [reg EXCEPT ![c] = result_shm["income"]]
  /\ pc' = [pc EXCEPT ![c] = "store income"]
  /\ UNCHANGED <<order, buffer, hung_up, shortest_time, courier, sleep_time, mainVars,
                 shmVars, sysVars>>

StoreIncome(c) ==
  /\ pc[c] = "store income"
  /\ result_shm' = [result_shm EXCEPT !["income"] = reg[c] + order[c].total_price]
  /\ Leave(c)
  /\ UNCHANGED <<delivery_shm, s, mainVars, sysVars>>

-----------------------------------------------------------------------------
(* What clients, signals and time do.                                      *)

HangUp(c) ==
  /\ c \in Quitters /\ pc[c] # "closed" /\ c \notin hung_up
  /\ hung_up' = hung_up \cup {c}
  /\ UNCHANGED <<pc, order, buffer, shortest_time, courier, reg, sleep_time, mainVars, shmVars,
                 sysVars>>

\* A send to a client that has gone may raise SIGPIPE, which nobody handles:
\* the process is gone, with the semaphore if it held it (no SEM_UNDO).  The reply
\* to an order is sent when its client has gone right after the order.
SigPipe(c) ==
  /\ c \in hung_up /\ ~sigint
  /\ \/ pc[c] = "read" /\ buffer[c] \in {"shop list", "order"}
     \/ pc[c] = "read" /\ buffer[c] = "confirm" /\ order[c].first_order
     \/ pc[c] = "estimate" /\ Shortest + order[c].distance > LongWait
     \/ pc[c] = "schedule"
     \/ pc[c] = "sleep" /\ sleep_time[c] = 0
  /\ Leave(c)
  /\ UNCHANGED <<mainVars, shmVars, sysVars>>

CtrlC ==
  /\ ~sigint
  /\ sigint' = TRUE
  /\ UNCHANGED <<mainVars, clientVars, shmVars, result_txt, accepted, arrived>>

\* Mutant: the handler does not end a process that sleeps.
ClientSafeClose_Awake(c) ==
  /\ sigint /\ pc[c] \notin {"closed", "sleep"}
  /\ Leave(c)
  /\ UNCHANGED <<mainVars, shmVars, sysVars>>

\* safe_close_routine in a client process.  From CtrlC on a process may still
\* touch memory, but the first system call it makes or waits in delivers the
\* signal, so the other steps ask for ~sigint.
ClientSafeClose(c) ==
  /\ sigint /\ pc[c] # "closed"
  /\ Leave(c)
  /\ UNCHANGED <<mainVars, shmVars, sysVars>>

Sleepers == {c \in Clients : pc[c] = "sleep" /\ sleep_time[c] > 0}

Tick ==
  /\ ~sigint
  /\ Sleepers # {} \/ main_sleep > 0
  /\ sleep_time' = [c \in Clients |-> IF c \in Sleepers THEN sleep_time[c] - 1
                                                        ELSE sleep_time[c]]
  /\ main_sleep' = 0
  /\ UNCHANGED <<main_pc, i, main_reg, pc, order, buffer, hung_up, shortest_time, courier, reg,
                 shmVars, sysVars>>

-----------------------------------------------------------------------------
MainStep == MainP \/ MainLoad \/ MainStore \/ MainV \/ MainWake

\* The steps a client process takes by itself, the wait for s apart.
ClientStep(c) ==
  \/ Estimate(c) \/ Schedule(c) \/ StoreBacklog(c) \/ ClientV(c)
  \/ Arrive(c) \/ LoadCustomer(c) \/ StoreCustomer(c) \/ LoadIncome(c) \/ StoreIncome(c)

Answer(c) == AcceptWait(c) \/ RefuseWait(c)

Dialog(c) ==
  \/ Connect(c) \/ ShopList(c) \/ Cancel(c) \/ Confirm(c)
  \/ \E item \in Items, quantity \in Quantities \cup {NoQuantity} :
       OrderCommand(c, item, quantity)

Next ==
  \/ MainStep \/ MainSafeClose
  \/ \E c \in Clients :
       \/ Dialog(c) \/ ClientP(c) \/ ClientStep(c) \/ Answer(c)
       \/ HangUp(c) \/ SigPipe(c) \/ ClientSafeClose(c)
  \/ CtrlC \/ Tick

Spec == Init /\ [][Next]_vars

-----------------------------------------------------------------------------
(* Fairness.  Every runnable process is scheduled and time goes on.  The   *)
(* semaphore is strongly fair: the kernel queues its waiters and wakes the *)
(* first one.  Nothing is assumed of clients, PatientSpec apart: there a   *)
(* client that is asked a question answers it.                             *)

FairSpec ==
  /\ Spec
  /\ WF_vars(MainLoad \/ MainStore \/ MainV \/ MainWake) /\ SF_vars(MainP)
  /\ WF_vars(MainSafeClose)
  /\ \A c \in Clients : /\ WF_vars(ClientStep(c)) /\ SF_vars(ClientP(c))
                         /\ WF_vars(ClientSafeClose(c))
  /\ WF_vars(Tick)

PatientSpec == FairSpec /\ \A c \in Clients : WF_vars(Answer(c))

-----------------------------------------------------------------------------
(* Safety.                                                                 *)

\* The backlogs are only touched by one process at a time: the main process
\* in its countdown, or one client process between its estimate and the
\* assignment (P(s) and V(s) in counting_time_CS and handleClient).
MutualExclusion ==
  /\ \A c, d \in Clients : pc[c] \in ClientCritical /\ pc[d] \in ClientCritical => c = d
  /\ \A c \in Clients : pc[c] \in ClientCritical => main_pc \notin MainCritical

\* The wait a client was told about, or not told about because it was short,
\* is the wait it gets: no countdown and no other order comes between the
\* estimate and schedule_and_wait, however long the client thinks.
EstimateHonoured ==
  \A c \in Clients : pc[c] = "V" => sleep_time[c] = shortest_time[c]

\* What the main process has already counted of the current second.
CountedAhead(k) ==
  CASE main_pc = "sleep"    -> main_sleep
    [] main_pc \in MainCritical /\ i > k -> 1
    [] OTHER                -> 0

\* A courier is never taken for free while its client still waits: its
\* backlog covers the sleep of everyone it serves, up to the second that
\* the main process counts first and sleeps through afterwards.
BacklogCoversWaits ==
  \A c \in Clients : pc[c] = "sleep" /\ ~sigint =>
    sleep_time[c] <= delivery_shm[courier[c]] + CountedAhead(courier[c])

\* A courier serves its clients one after the other: whoever is assigned to
\* a courier waits for all its earlier clients and its own distance, less at
\* most the one second of the countdown's granularity.
ServedInTurn ==
  [][\A c, d \in Clients :
       /\ pc[c] = "store" /\ pc'[c] = "V" /\ ~sigint
       /\ pc[d] = "sleep" /\ courier[d] = courier[c]
       => sleep_time'[c] + 1 >= sleep_time[d] + order[c].distance]_vars

\* No customer is counted who got no meal, in the totals and in result.txt,
\* whatever the unprotected updates of result_shm overwrite.
NeverOvercounted ==
  /\ result_shm["customer"] <= arrived["customer"]
  /\ result_txt["customer"] <= arrived["customer"]

\* The clients with their order that are not yet in the total of customers.
Uncounted == {c \in Clients : pc[c] \in {"load customer", "store customer"}}

\* The inductive invariant behind it: each of them has a customer to spare, also
\* over what the others are about to store.
CountInv ==
  /\ result_shm["customer"] + Cardinality(Uncounted) <= arrived["customer"]
  /\ \A c \in Clients : pc[c] = "store customer" =>
       reg[c] + Cardinality(Uncounted) <= arrived["customer"]
  /\ result_txt["customer"] <= arrived["customer"]

\* The inductive invariant behind the others: who holds the semaphore, and what
\* that keeps true of the values a process has read.
LockInv ==
  /\ s \in {0, 1}
  /\ MutualExclusion
  /\ main_pc \in MainCritical => s = 0
  /\ \A c \in Clients : pc[c] \in ClientCritical => s = 0

CountdownInv ==
  /\ main_pc = "store" => main_reg = delivery_shm[i]
  /\ main_pc \in {"P", "sleep"} => i = 0

\* Between its estimate and its V a client process knows the backlogs.
KnowsBacklogs(c) ==
  /\ pc[c] \in {"reply", "schedule"} => shortest_time[c] = Shortest + order[c].distance
  /\ pc[c] = "store" => /\ reg[c] = Shortest
                        /\ delivery_shm[courier[c]] = Shortest
                        /\ shortest_time[c] = Shortest + order[c].distance
  /\ pc[c] = "V" => sleep_time[c] = shortest_time[c] /\ sleep_time[c] = delivery_shm[courier[c]]
  /\ pc[c] \notin {"V", "sleep"} => sleep_time[c] = 0

AssignInv == \A c \in Clients : KnowsBacklogs(c)

\* Orders are of the distances of the platform, or of none (an unknown item).
Distances == {0} \cup {DistanceOf[shop] : shop \in Shops}
DistanceInv == \A c \in Clients : order[c].distance \in Distances

SafetyInv == LockInv /\ CountdownInv /\ AssignInv /\ BacklogCoversWaits

Tallying == {"load customer", "store customer", "load income", "store income"}

\* Whenever no client process is in the middle of its update, the totals are
\* the customers served and what they paid (violated: see dispatch_lost_update).
ResultComplete ==
  (~sigint /\ \A c \in Clients : pc[c] \notin Tallying) => result_shm = arrived

\* The couriers do what CourierService promises: a client is assigned when
\* its process stores the new backlog.
StatusAt(at) == CASE at = "V"     -> "assigned"
                  [] at = "sleep" -> "waiting"
                  [] OTHER        -> "ordering"
ServiceStatus == [c \in Clients |-> StatusAt(pc[c])]

Service == INSTANCE CourierService WITH
  Distances <- Distances, backlog <- delivery_shm, status <- ServiceStatus, wait <- sleep_time

ImplementsService == Service!Spec

-----------------------------------------------------------------------------
(* Liveness.                                                               *)

\* Whoever confirms an order gets it delivered, or refuses the wait.
ConfirmIsServed ==
  \A c \in Clients : pc[c] = "P" ~> pc[c] = "closed" \/ sigint

\* Ctrl+C ends every process, wherever it meets them.
CtrlCEndsAll ==
  sigint ~> main_pc = "exited" /\ \A c \in Clients : pc[c] = "closed"
=============================================================================
