------------------------------- MODULE WebATM -------------------------------
(***************************************************************************)
(* The web ATM of lab6: the main thread accepts connections and creates a  *)
(* thread for each, which reads one request, waits until the party is      *)
(* complete and then executes its operations on the one account, one at a  *)
(* time under a System V semaphore (server_binary_semophore.c) or a mutex  *)
(* (server_mutex.c, step by step the same).  The earlier henry.c does not  *)
(* wait for a party, and neither does its Ctrl+C for the threads.          *)
(*                                                                         *)
(* The thread is handed the address of main's client_socket, not its       *)
(* value (in henry.c, a copy of its own).  Descriptors are modelled with   *)
(* their reuse: accept returns the lowest one that is free, and close      *)
(* frees whatever it is given.                                             *)
(***************************************************************************)
EXTENDS Integers

CONSTANTS
  Requests,   \* the requests clients may send: [amount |-> Int, times |-> Nat]
  Garbage,    \* what the uninitialized amout and times of a thread may hold
  Party,      \* 4: the number of users everybody waits for
  Again,      \* whether Ctrl+C may be pressed again
  MaxUsers    \* bound: connections accepted

ASSUME ATMAssumption ==
  /\ Requests \subseteq [amount : Int, times : Nat]
  /\ Garbage \subseteq [amount : Int, times : Nat]
  /\ Party \in Nat
  /\ Again \in BOOLEAN
  /\ MaxUsers \in Nat

Users == 1..MaxUsers        \* connections and threads, in the order of accept
Descriptors == 1..MaxUsers
NoOne == 0                  \* a free descriptor
Versions == {"lab6", "henry"}

VARIABLES
  version,         \* which of the programs runs
  total,           \* the account
  s,               \* the semaphore, -1 once it is removed
  user_num,
  client_socket,   \* the descriptor accept returned last
  open,            \* the connection behind each descriptor
  unread,          \* the connections whose request nobody has read
  request,         \* what each client sends
  main_pc,         \* "accept", "create", "count", "join", "remove", "exit", "exited"
  accepted,        \* connections accepted, which is tidx from "count" on
  pc,              \* where each thread is
  sockfd,          \* its client_sockfd
  amount, times,   \* its request, times counted down to the end of the loop
  reg,             \* the account it has loaded
  applied,         \* history: the sum of all operations executed
  misled           \* history: the threads that did not read their own request

mainVars == <<main_pc, accepted, user_num, client_socket>>
threadVars == <<pc, sockfd, amount, times, reg>>
historyVars == <<applied, misled>>
vars == <<version, total, s, open, unread, request, mainVars, threadVars, historyVars>>

ThreadPCs == {"none", "start", "read", "wait", "P", "load", "store", "V", "close", "done"}
Critical == {"load", "store", "V"}

TypeOK ==
  /\ version \in Versions
  /\ total \in Int /\ applied \in Int
  /\ s \in {-1, 0, 1}
  /\ user_num \in Nat /\ accepted \in 0..MaxUsers
  /\ client_socket \in Descriptors \cup {0}
  /\ open \in [Descriptors -> Users \cup {NoOne}]
  /\ unread \subseteq Users
  /\ request \in [Users -> Requests]
  /\ main_pc \in {"accept", "create", "count", "join", "remove", "exit", "exited"}
  /\ pc \in [Users -> ThreadPCs]
  /\ sockfd \in [Users -> Descriptors \cup {0}]
  /\ amount \in [Users -> Int] /\ times \in [Users -> Nat]
  /\ reg \in [Users -> Int]
  /\ misled \subseteq Users

Init ==
  /\ version \in Versions
  /\ total = 0 /\ applied = 0 /\ misled = {}
  /\ s = 1
  /\ user_num = 0 /\ accepted = 0 /\ client_socket = 0
  /\ open = [fd \in Descriptors |-> NoOne]
  /\ unread = {}
  /\ request \in [Users -> Requests]
  /\ main_pc = "accept"
  /\ pc = [u \in Users |-> "none"]
  /\ sockfd = [u \in Users |-> 0]
  /\ amount = [u \in Users |-> 0] /\ times = [u \in Users |-> 0]
  /\ reg = [u \in Users |-> 0]

-----------------------------------------------------------------------------
(* The main thread.                                                        *)

\* client.c connects, sends its request and closes.
Send(u) == unread' = unread \cup {u}

MainAccept ==
  /\ main_pc = "accept" /\ accepted < MaxUsers
  /\ \E fd \in Descriptors :
       /\ open[fd] = NoOne
       /\ \A lower \in 1..(fd - 1) : open[lower] # NoOne
       /\ client_socket' = fd
       /\ open' = [open EXCEPT ![fd] = accepted + 1]
  /\ Send(accepted + 1)
  /\ accepted' = accepted + 1
  /\ main_pc' = "create"
  /\ UNCHANGED <<version, total, s, request, user_num, threadVars, historyVars>>

MainCreate ==
  /\ main_pc = "create" /\ version = "lab6"
  /\ pc' = [pc EXCEPT ![accepted] = "start"]
  /\ main_pc' = "count"
  /\ UNCHANGED <<version, total, s, open, unread, request, accepted, user_num, client_socket,
                 sockfd, amount, times, reg, historyVars>>

\* henry.c puts the descriptor where only the new thread reads it.
HenryCreate ==
  /\ main_pc = "create" /\ version = "henry"
  /\ pc' = [pc EXCEPT ![accepted] = "read"]
  /\ sockfd' = [sockfd EXCEPT ![accepted] = client_socket]
  /\ main_pc' = "accept"
  /\ UNCHANGED <<version, total, s, open, unread, request, accepted, user_num, client_socket,
                 amount, times, reg, historyVars>>

MainCount ==
  /\ main_pc = "count" /\ main_pc' = "accept"
  /\ user_num' = user_num + 1
  /\ UNCHANGED <<version, total, s, open, unread, request, accepted, client_socket,
                 threadVars, historyVars>>

\* safe_close_routine runs in the main thread, wherever it is: it waits for
\* all threads, removes the semaphore and exits.
CtrlC ==
  /\ main_pc \in {"accept", "create", "count"} /\ version = "lab6"
  /\ main_pc' = "join"
  /\ UNCHANGED <<version, total, s, open, unread, request, accepted, user_num, client_socket,
                 threadVars, historyVars>>

\* That of henry.c does not wait.
StopParent ==
  /\ main_pc \in {"accept", "create"} /\ version = "henry"
  /\ main_pc' = "remove"
  /\ UNCHANGED <<version, total, s, open, unread, request, accepted, user_num, client_socket,
                 threadVars, historyVars>>

\* Mutant: the threads are not waited for.
MainJoin_Detached ==
  /\ main_pc = "join"
  /\ main_pc' = "remove"
  /\ UNCHANGED <<version, total, s, open, unread, request, accepted, user_num, client_socket,
                 threadVars, historyVars>>

MainJoin ==
  /\ main_pc = "join"
  /\ \A u \in Users : pc[u] \in {"none", "done"}
  /\ main_pc' = "remove"
  /\ UNCHANGED <<version, total, s, open, unread, request, accepted, user_num, client_socket,
                 threadVars, historyVars>>

\* While main is in the handler its SIGINT is blocked and the kernel gives the
\* next one to another thread.  That thread runs the routine too, cannot join
\* itself or a thread that main is joining, and checkResults exits.  stop_parent
\* restores the default first, which ends the process.
CtrlCAgain ==
  /\ Again
  /\ \/ main_pc = "join" /\ \E u \in Users : pc[u] \notin {"none", "done"}
     \/ main_pc \in {"remove", "exit"} /\ version = "henry"
  /\ main_pc' = "exited"
  /\ UNCHANGED <<version, total, s, open, unread, request, accepted, user_num, client_socket,
                 threadVars, historyVars>>

MainRemove ==
  /\ main_pc = "remove"
  /\ s' = -1 /\ main_pc' = "exit"
  /\ UNCHANGED <<version, total, open, unread, request, accepted, user_num, client_socket,
                 threadVars, historyVars>>

MainExit ==
  /\ main_pc = "exit" /\ main_pc' = "exited"
  /\ UNCHANGED <<version, total, s, open, unread, request, accepted, user_num, client_socket,
                 threadVars, historyVars>>

-----------------------------------------------------------------------------
(* The thread of user u: handle_client.                                    *)

\* *(int*)arg is read when the thread runs, not when it is created.
Start(u) ==
  /\ pc[u] = "start"
  /\ sockfd' = [sockfd EXCEPT ![u] = client_socket]
  /\ pc' = [pc EXCEPT ![u] = "read"]
  /\ UNCHANGED <<version, total, s, open, unread, request, mainVars, amount, times, reg,
                 historyVars>>

\* read and sscanf.  The client sends its request at once and closes: a second
\* read from its connection, or one from a closed descriptor, returns nothing,
\* and amout and times are whatever they were.
Read(u) ==
  /\ pc[u] = "read"
  /\ LET from == open[sockfd[u]]
     IN  \E r \in IF from \in unread THEN {request[from]} ELSE Garbage :
           /\ amount' = [amount EXCEPT ![u] = r.amount]
           /\ times' = [times EXCEPT ![u] = r.times]
           /\ unread' = unread \ {from}
           /\ misled' = IF from \in unread /\ from = u THEN misled ELSE misled \cup {u}
  /\ pc' = [pc EXCEPT ![u] = "wait"]
  /\ UNCHANGED <<version, total, s, open, request, mainVars, sockfd, reg, applied>>

\* Mutant: the last operation is left out.
NextOperation_OneLess(left) == IF left > 1 THEN "P" ELSE "close"

NextOperation(left) == IF left > 0 THEN "P" ELSE "close"

BeginLoop(u) ==
  /\ pc[u] = "wait"
  /\ pc' = [pc EXCEPT ![u] = NextOperation(times[u])]
  /\ UNCHANGED <<version, total, s, open, unread, request, mainVars, sockfd, amount, times, reg,
                 historyVars>>

\* The end of do { } while (user_num != 4), and the head of the loop.
WaitForParty(u) == version = "lab6" /\ user_num = Party /\ BeginLoop(u)

HenryBegin(u) == version = "henry" /\ BeginLoop(u)

P(u) ==
  /\ pc[u] = "P" /\ s = 1
  /\ s' = 0 /\ pc' = [pc EXCEPT ![u] = "load"]
  /\ UNCHANGED <<version, total, open, unread, request, mainVars, sockfd, amount, times,
                 reg, historyVars>>

Load(u) ==
  /\ pc[u] = "load"
  /\ reg' = [reg EXCEPT ![u] = total]
  /\ pc' = [pc EXCEPT ![u] = "store"]
  /\ UNCHANGED <<version, total, s, open, unread, request, mainVars, sockfd, amount, times,
                 historyVars>>

Store(u) ==
  /\ pc[u] = "store"
  /\ total' = reg[u] + amount[u]
  /\ applied' = applied + amount[u]
  /\ reg' = [reg EXCEPT ![u] = 0]
  /\ pc' = [pc EXCEPT ![u] = "V"]
  /\ UNCHANGED <<version, s, open, unread, request, mainVars, sockfd, amount, times, misled>>

\* Mutant: the last operation keeps the semaphore.
V_NotLast(u) ==
  /\ pc[u] = "V"
  /\ s' = IF times[u] = 1 THEN s ELSE 1
  /\ times' = [times EXCEPT ![u] = @ - 1]
  /\ pc' = [pc EXCEPT ![u] = NextOperation(times[u] - 1)]
  /\ UNCHANGED <<version, total, open, unread, request, mainVars, sockfd, amount, reg,
                 historyVars>>

V(u) ==
  /\ pc[u] = "V" /\ s # -1
  /\ s' = s + 1
  /\ times' = [times EXCEPT ![u] = @ - 1]
  /\ pc' = [pc EXCEPT ![u] = NextOperation(times[u] - 1)]
  /\ UNCHANGED <<version, total, open, unread, request, mainVars, sockfd, amount, reg,
                 historyVars>>

\* Mutant: the failure is not looked at, as in the other programs.
SemopFails_GoesOn(u) ==
  /\ pc[u] \in {"P", "V"} /\ s = -1
  /\ IF pc[u] = "P" THEN pc' = [pc EXCEPT ![u] = "load"] /\ UNCHANGED times
     ELSE /\ times' = [times EXCEPT ![u] = @ - 1]
          /\ pc' = [pc EXCEPT ![u] = NextOperation(times[u] - 1)]
  /\ UNCHANGED <<version, total, s, open, unread, request, mainVars, sockfd, amount, reg,
                 historyVars>>

\* The semaphore has been removed: P or V of henry.c ends the process.
SemopFails(u) ==
  /\ pc[u] \in {"P", "V"} /\ s = -1
  /\ main_pc' = "exited"
  /\ UNCHANGED <<version, total, s, open, unread, request, accepted, user_num, client_socket,
                 threadVars, historyVars>>

\* Whatever is behind the descriptor now is closed, if anything is.
Close(u) ==
  /\ pc[u] = "close"
  /\ open' = [open EXCEPT ![sockfd[u]] = NoOne]
  /\ sockfd' = [sockfd EXCEPT ![u] = 0]
  /\ amount' = [amount EXCEPT ![u] = 0]
  /\ pc' = [pc EXCEPT ![u] = "done"]
  /\ UNCHANGED <<version, total, s, unread, request, mainVars, times, reg, historyVars>>

-----------------------------------------------------------------------------
SafeClose == MainJoin \/ MainRemove \/ MainExit

MainStep == MainCreate \/ HenryCreate \/ MainCount \/ SafeClose

\* Inside the loop.
Operation(u) == Load(u) \/ Store(u) \/ V(u)

HandleClient(u) == Start(u) \/ Read(u) \/ WaitForParty(u) \/ HenryBegin(u) \/ Operation(u) \/ Close(u)

ThreadStep(u) == main_pc # "exited" /\ (HandleClient(u) \/ SemopFails(u))

Enter(u) == main_pc # "exited" /\ P(u)

Next ==
  \/ MainAccept \/ MainStep \/ CtrlC \/ StopParent \/ CtrlCAgain
  \/ \E u \in Users : ThreadStep(u) \/ Enter(u)

Spec == Init /\ [][Next]_vars

\* All threads are scheduled; the kernel queues the waiters of the semaphore.
FairSpec ==
  /\ Spec
  /\ WF_vars(MainStep)
  /\ \A u \in Users : WF_vars(ThreadStep(u)) /\ SF_vars(Enter(u))

-----------------------------------------------------------------------------
\* No operation is lost or done twice: the account is the sum of what the
\* threads have executed, however their loads and stores interleave.
NoOperationLost == total = applied

\* The semaphore is removed only when no thread can use it any more: a thread
\* whose semop fails would go on without the lock (P and V are not checked; those
\* of henry.c are).
SemaphoreOutlivesThreads ==
  s = -1 /\ version = "lab6" => \A u \in Users : pc[u] \in {"none", "done"}

\* Somebody inside holds the semaphore, alone; nobody stores on top of an old
\* load; a thread at P or beyond has an operation left.
LockInv ==
  /\ s = 1 => \A u \in Users : pc[u] \notin Critical
  /\ \A u, v \in Users : pc[u] \in Critical /\ pc[v] \in Critical => u = v
  /\ \A u \in Users : pc[u] = "store" => reg[u] = total
  /\ \A u \in Users : pc[u] \in Critical \cup {"P"} => times[u] > 0

\* Main is about to remove the semaphore, or has, only when all threads ended.
EndInv ==
  /\ s = -1 => main_pc \in {"exit", "exited"}
  /\ (main_pc \in {"remove", "exit"} \/ s = -1) /\ version = "lab6" =>
       \A u \in Users : pc[u] \in {"none", "done"}

\* The inductive invariant behind NoOperationLost and SemaphoreOutlivesThreads:
\* P, V and the join together keep the account's readers and writers apart.
ATMInv == LockInv /\ EndInv /\ NoOperationLost

\* The sums of the first numbers of f, one for each user.
Upto(f) == LET upto[n \in 0..MaxUsers] == IF n = 0 THEN 0 ELSE upto[n - 1] + f[n] IN upto
Sum(f) == Upto(f)[MaxUsers]

SumOfRequests ==
  Sum([u \in Users |-> IF u <= accepted THEN request[u].amount * request[u].times ELSE 0])

\* When all users are served, the account is the sum of what they asked for,
\* provided every thread got its own connection: only henry.c sees to that; in the
\* others Start may come after main has accepted the next one.
RequestsExecuted ==
  ((misled = {} \/ version = "henry") /\ accepted > 0 /\ \A u \in 1..accepted : pc[u] = "done") =>
    total = SumOfRequests

\* What the account has of a user's request so far.
Repeated(u) ==
  CASE pc[u] \in {"none", "start", "read"} -> 0
    [] pc[u] = "V" -> request[u].times - times[u] + 1
    [] OTHER -> request[u].times - times[u]
Share(u) == request[u].amount * Repeated(u)
Shares == [u \in Users |-> Share(u)]

\* If everybody read its own request, the account is the sum of the shares.
ShareInv ==
  misled = {} =>
    /\ applied = Sum(Shares)
    /\ \A u \in Users :
         /\ pc[u] \in {"wait", "P", "load", "store", "V"} => amount[u] = request[u].amount
         /\ pc[u] \in {"close", "done"} => times[u] = 0

\* The threads are those of the accepted connections; the last may have none yet.
CreatedInv ==
  \A u \in Users : u > accepted \/ (u = accepted /\ main_pc = "create") => pc[u] = "none"

\* In henry.c a connection's descriptor is its thread's own until that closes it.
PrivateInv ==
  version = "henry" =>
    /\ misled = {}
    /\ main_pc = "create" =>
         client_socket \in Descriptors /\ open[client_socket] = accepted /\ accepted \in unread
    /\ \A u \in Users :
         /\ pc[u] # "start" /\ (pc[u] = "read" => u \in unread)
         /\ pc[u] \notin {"none", "done"} => sockfd[u] \in Descriptors /\ open[sockfd[u]] = u

\* The inductive invariant behind RequestsExecuted.
RequestsInv == ShareInv /\ CreatedInv /\ PrivateInv

\* Once the party is complete (in henry.c, at once) everybody who waits for it is served, unless
\* Ctrl+C ends the server first.
\* (A user too many makes user_num skip the value: MaxUsers = Party here.)
PartyIsServed ==
  \A u \in Users :
    ((user_num >= Party \/ version = "henry") /\ pc[u] = "wait") ~>
      (pc[u] = "done" \/ main_pc = "exited")

\* Ctrl+C ends the server once the party is complete: the join of the handler
\* comes to an end, although it waits for threads that wait for the semaphore.
CtrlCEndsServer ==
  (main_pc = "join" /\ user_num = Party) ~> main_pc = "exited"
=============================================================================
