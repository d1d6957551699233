--------------------------- MODULE CourierService ---------------------------
(***************************************************************************)
(* What the delivery platform promises about its two couriers, without     *)
(* processes, shared memory or a semaphore: an order goes as a whole to a  *)
(* courier with the least work, its client waits for all the work that     *)
(* courier then has, and a backlog otherwise shrinks second by second.     *)
(***************************************************************************)
EXTENDS Integers

CONSTANTS Clients, Couriers, Distances

VARIABLES
  backlog,   \* seconds of work of each courier
  status,    \* "ordering", "assigned" or "waiting"
  wait       \* seconds an assigned client still has to wait

vars == <<backlog, status, wait>>

Init ==
  /\ backlog = [k \in Couriers |-> 0]
  /\ status = [c \in Clients |-> "ordering"]
  /\ wait = [c \in Clients |-> 0]

Assign(c) == \E k \in Couriers, d \in Distances :
  /\ status[c] = "ordering"
  /\ \A other \in Couriers : backlog[k] <= backlog[other]
  /\ backlog' = [backlog EXCEPT ![k] = @ + d]
  /\ wait' = [wait EXCEPT ![c] = backlog[k] + d]
  /\ status' = [status EXCEPT ![c] = "assigned"]

StartWaiting(c) ==
  /\ status[c] = "assigned"
  /\ status' = [status EXCEPT ![c] = "waiting"]
  /\ UNCHANGED <<backlog, wait>>

Work(k) ==
  /\ backlog[k] > 0
  /\ backlog' = [backlog EXCEPT ![k] = @ - 1]
  /\ UNCHANGED <<status, wait>>

Second ==
  /\ wait' = [c \in Clients |-> IF status[c] = "waiting" /\ wait[c] > 0 THEN wait[c] - 1
                                                                        ELSE wait[c]]
  /\ UNCHANGED <<backlog, status>>

\* The order arrives, never before the promised time has passed.
Deliver(c) ==
  /\ status[c] = "waiting" /\ wait[c] = 0
  /\ status' = [status EXCEPT ![c] = "ordering"]
  /\ UNCHANGED <<backlog, wait>>

\* The platform stops: the order never arrives.
Abandon(c) ==
  /\ status[c] # "ordering"
  /\ status' = [status EXCEPT ![c] = "ordering"]
  /\ wait' = [wait EXCEPT ![c] = 0]
  /\ UNCHANGED backlog

Next ==
  \/ \E c \in Clients : Assign(c) \/ StartWaiting(c) \/ Deliver(c) \/ Abandon(c)
  \/ \E k \in Couriers : Work(k)
  \/ Second

Spec == Init /\ [][Next]_vars
=============================================================================
