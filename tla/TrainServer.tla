---------------------------- MODULE TrainServer ----------------------------
(***************************************************************************)
(* The servers of lab5.  311512064_eos_lab5/lab5.c forks a process for a   *)
(* client, which becomes the program sl writing to the client's connection,*)
(* and waits for it; henry.c does not wait but reaps its children in a     *)
(* SIGCHLD handler; server.c only answers a message.  One of them runs at a*)
(* time, and may be stopped by Ctrl+C and another one started while trains *)
(* of the earlier one are still running.  A socket is closed when the last *)
(* process that has a descriptor of it closes it or ends.                  *)
(***************************************************************************)
EXTENDS Integers, Sequences, FiniteSets

CONSTANT Clients    \* each connects once; its process, if any, has its name

ASSUME ServerIsNoClient == "server" \notin Clients

VARIABLES
  prog,        \* "lab5", "henry" or "sample" (server.c)
  pc,          \* of the server: "off", "accept", "fork", "read", "close", "wait"
  cur,         \* the client it is busy with: client_socket, new_socket
  sigchld,     \* SIGCHLD is pending; it does not queue
  handler,     \* whether stop_child is running
  child,       \* of each client: "none", "forked", "running", "zombie", "reaped"
  orphans,     \* the processes whose server has ended
  client,      \* "idle", "queued", "served", "closed" (by the server), "gone"
  queue,       \* the backlog of the listening socket
  listeners,   \* who has a descriptor of the listening socket
  holders      \* who has one of each client's connection

serverVars == <<prog, pc, cur, sigchld, handler>>
childVars == <<child, orphans>>
socketVars == <<client, queue, listeners, holders>>
vars == <<serverVars, childVars, socketVars>>

TypeOK ==
  /\ prog \in {"lab5", "henry", "sample"}
  /\ pc \in {"off", "accept", "fork", "read", "close", "wait"}
  /\ cur \in Clients
  /\ sigchld \in BOOLEAN /\ handler \in BOOLEAN
  /\ child \in [Clients -> {"none", "forked", "running", "zombie", "reaped"}]
  /\ orphans \subseteq Clients
  /\ client \in [Clients -> {"idle", "queued", "served", "closed", "gone"}]
  /\ queue \in Seq(Clients)
  /\ listeners \subseteq Clients \cup {"server"}
  /\ holders \in [Clients -> SUBSET (Clients \cup {"server"})]

Init ==
  /\ prog \in {"lab5", "henry", "sample"} /\ pc = "off" /\ cur \in Clients
  /\ sigchld = FALSE /\ handler = FALSE
  /\ child = [c \in Clients |-> "none"] /\ orphans = {}
  /\ client = [c \in Clients |-> "idle"] /\ queue = <<>>
  /\ listeners = {} /\ holders = [c \in Clients |-> {}]

-----------------------------------------------------------------------------
(* Sockets.                                                                *)

\* Process p lets go of the sockets in conns and, if listening, of the
\* listening socket.  Nobody accepts what is queued at a closed socket.
LetGo(p, conns, listening) ==
  /\ holders' = [c \in Clients |-> IF c \in conns THEN holders[c] \ {p} ELSE holders[c]]
  /\ listeners' = IF listening THEN listeners \ {p} ELSE listeners
  /\ queue' = IF listeners' = {} THEN <<>> ELSE queue
  /\ client' = [c \in Clients |->
                  IF \/ client[c] = "served" /\ holders'[c] = {}
                     \/ client[c] = "queued" /\ listeners' = {}
                  THEN "closed" ELSE client[c]]

Connect(c) ==
  /\ client[c] = "idle" /\ listeners # {}
  /\ client' = [client EXCEPT ![c] = "queued"] /\ queue' = Append(queue, c)
  /\ UNCHANGED <<serverVars, childVars, listeners, holders>>

HangUp(c) ==
  /\ client[c] = "served"
  /\ client' = [client EXCEPT ![c] = "gone"]
  /\ UNCHANGED <<serverVars, childVars, queue, listeners, holders>>

-----------------------------------------------------------------------------
(* The server.                                                             *)

\* socket, bind and listen: bind fails while anybody still listens at the port,
\* and the server exits.
Start(p) ==
  /\ pc = "off" /\ listeners = {}
  /\ prog' = p /\ pc' = "accept" /\ listeners' = {"server"}
  /\ UNCHANGED <<cur, sigchld, handler, childVars, client, queue, holders>>

StartLab5 == Start("lab5")
StartHenry == Start("henry")
StartSample == Start("sample")

Accept ==
  /\ pc = "accept" /\ ~handler /\ queue # <<>>
  /\ cur' = Head(queue) /\ queue' = Tail(queue)
  /\ client' = [client EXCEPT ![cur'] = "served"]
  /\ holders' = [holders EXCEPT ![cur'] = {"server"}]
  /\ pc' = IF prog = "sample" THEN "read" ELSE "fork"
  /\ UNCHANGED <<prog, sigchld, handler, childVars, listeners>>

Fork ==
  /\ pc = "fork" /\ ~handler
  /\ child' = [child EXCEPT ![cur] = "forked"]
  /\ holders' = [holders EXCEPT ![cur] = @ \cup {cur}]
  /\ listeners' = listeners \cup {cur}
  /\ pc' = "close"
  /\ UNCHANGED <<prog, cur, sigchld, handler, orphans, client, queue>>

\* The server's end, by Ctrl+C or exit.  Its children's parent is init now,
\* which reaps them at once.  The server's end closes its descriptors.
Exit(survivors) ==
  /\ pc' = "off" /\ handler' = FALSE /\ sigchld' = FALSE
  /\ orphans' = {c \in Clients : child[c] # "none"}
  /\ child' = [c \in Clients |-> IF child[c] = "none" \/ c \in survivors THEN child[c] ELSE "reaped"]
  /\ LET ended == {"server"} \cup {c \in Clients : child'[c] = "reaped"}
     IN  /\ holders' = [c \in Clients |-> holders[c] \ ended]
         /\ listeners' = listeners \ ended
  /\ queue' = IF listeners' = {} THEN <<>> ELSE queue
  /\ client' = [c \in Clients |->
                  IF \/ client[c] = "served" /\ holders'[c] = {}
                     \/ client[c] = "queued" /\ listeners' = {}
                  THEN "closed" ELSE client[c]]
  /\ UNCHANGED <<prog, cur>>

\* henry goes on as if it were the parent, lab5 exits.
ForkFails ==
  /\ pc = "fork" /\ ~handler
  /\ \/ prog = "henry" /\ pc' = "close" /\ UNCHANGED <<prog, cur, sigchld, handler, childVars, socketVars>>
     \/ prog = "lab5" /\ Exit({c \in Clients : child[c] \in {"forked", "running"}})

\* Mutant: the parent keeps the connection open.
CloseClient_Keeps ==
  /\ pc = "close" /\ ~handler
  /\ pc' = IF prog = "lab5" THEN "wait" ELSE "accept"
  /\ UNCHANGED <<prog, cur, sigchld, handler, childVars, socketVars>>

\* Mutant: henry waits for the child, too.
CloseClient_Waits ==
  /\ pc = "close" /\ ~handler
  /\ LetGo("server", {cur}, FALSE)
  /\ pc' = "wait"
  /\ UNCHANGED <<prog, cur, sigchld, handler, childVars>>

CloseClient ==
  /\ pc = "close" /\ ~handler
  /\ LetGo("server", {cur}, FALSE)
  /\ pc' = IF prog = "lab5" THEN "wait" ELSE "accept"
  /\ UNCHANGED <<prog, cur, sigchld, handler, childVars>>

\* lab5's parentfunc
Wait ==
  /\ pc = "wait" /\ child[cur] = "zombie"
  /\ child' = [child EXCEPT ![cur] = "reaped"]
  /\ pc' = "accept"
  /\ UNCHANGED <<prog, cur, sigchld, handler, orphans, socketVars>>

\* server.c reads the message its client has sent, and answers.
Answer ==
  /\ pc = "read"
  /\ pc' = "close"
  /\ UNCHANGED <<prog, cur, sigchld, handler, childVars, socketVars>>

-----------------------------------------------------------------------------
(* henry's stop_child.                                                     *)

HandleChld ==
  /\ prog = "henry" /\ pc # "off" /\ sigchld /\ ~handler
  /\ sigchld' = FALSE /\ handler' = TRUE
  /\ UNCHANGED <<prog, pc, cur, childVars, socketVars>>

Reapable == {c \in Clients \ orphans : child[c] = "zombie"}

\* Mutant: one child for each signal.
Reap_One ==
  /\ handler
  /\ \/ \E c \in Reapable : child' = [child EXCEPT ![c] = "reaped"] /\ handler' = FALSE
     \/ Reapable = {} /\ handler' = FALSE /\ UNCHANGED child
  /\ UNCHANGED <<prog, pc, cur, sigchld, orphans, socketVars>>

\* One waitpid of the loop.
Reap ==
  /\ handler
  /\ \/ \E c \in Reapable : child' = [child EXCEPT ![c] = "reaped"] /\ UNCHANGED handler
     \/ Reapable = {} /\ handler' = FALSE /\ UNCHANGED child
  /\ UNCHANGED <<prog, pc, cur, sigchld, orphans, socketVars>>

-----------------------------------------------------------------------------
(* The children.                                                           *)

\* lab5's child closes the listening socket, henry's does not.
Exec(c) ==
  /\ child[c] = "forked"
  /\ child' = [child EXCEPT ![c] = "running"]
  /\ LetGo(c, {}, prog = "lab5")
  /\ UNCHANGED <<serverVars, orphans>>

\* The train has passed, its client is gone, or sl is not installed.
Ends(c) ==
  /\ child[c] \in {"forked", "running"}
  /\ child' = [child EXCEPT ![c] = IF c \in orphans THEN "reaped" ELSE "zombie"]
  /\ sigchld' = (sigchld \/ (c \notin orphans /\ prog = "henry"))
  /\ LetGo(c, {c}, TRUE)
  /\ UNCHANGED <<prog, pc, cur, handler, orphans>>

-----------------------------------------------------------------------------
\* SIGINT goes to the server and its children; sl ignores it.
CtrlC ==
  /\ pc # "off"
  /\ Exit({c \in Clients : child[c] = "running"} \cup {c \in orphans : child[c] # "none"})

ServerStep == Accept \/ Fork \/ CloseClient \/ Wait \/ Answer
HandlerStep == HandleChld \/ Reap

Next ==
  \/ ServerStep \/ ForkFails \/ HandlerStep \/ CtrlC
  \/ StartLab5 \/ StartHenry \/ StartSample
  \/ \E c \in Clients : Connect(c) \/ HangUp(c) \/ Exec(c) \/ Ends(c)

Spec == Init /\ [][Next]_vars

\* The server and its handler are scheduled, and a signal is handled before the
\* server goes on.  A train that lab5 waits for, or that the end of its server has
\* left behind, arrives; henry's need not.
FairSpec ==
  /\ Spec
  /\ WF_vars(ServerStep) /\ WF_vars(HandleChld) /\ WF_vars(Reap)
  /\ \A c \in Clients : WF_vars((prog # "henry" \/ c \in orphans) /\ Ends(c))

-----------------------------------------------------------------------------
\* A zombie is one that somebody is about to reap: henry has a signal pending or
\* its handler is looking, although signals do not queue; lab5 is waiting for
\* just that child.
ZombieIsNoticed ==
  \A c \in Clients : child[c] = "zombie" =>
    /\ pc # "off"
    /\ prog = "henry" => sigchld \/ handler
    /\ prog = "lab5" => cur = c /\ pc \in {"close", "wait"}

\* A client whose train has passed sees its connection closed: nobody else keeps
\* a descriptor of it.
EndIsSeen ==
  \A c \in Clients : child[c] \in {"zombie", "reaped"} ~> client[c] \in {"closed", "gone"}

\* A client that has connected gets its train, or sees its connection closed,
\* even if the server is stopped and only its trains still listen.  With henry it
\* does not wait for the train of anybody else, as several clients at the same time
\* need; with lab5 it waits for every earlier train (parentfunc).
NobodyWaitsForever ==
  \A c \in Clients : client[c] = "queued" ~> child[c] # "none" \/ client[c] \in {"closed", "gone"}

\* The inductive invariant behind ZombieIsNoticed: whose children there are, that
\* lab5 has no other than the one it waits for, and that a client has its process
\* only once it is served.
ChildInv ==
  /\ \A c \in Clients : client[c] \in {"idle", "queued"} => child[c] = "none"
  /\ pc = "fork" => child[cur] = "none" /\ client[cur] \notin {"idle", "queued"}
  /\ \A j, k \in DOMAIN queue : client[queue[j]] = "queued" /\ (queue[j] = queue[k] => j = k)
  /\ \A c \in orphans : child[c] \in {"forked", "running", "reaped"}
  /\ \A c \in Clients \ orphans : child[c] \in {"forked", "running", "zombie"} =>
       /\ pc # "off" /\ prog # "sample"
       /\ prog = "lab5" => cur = c /\ pc \in {"close", "wait"}
  /\ prog = "sample" => pc \notin {"fork", "wait"}
  /\ handler => prog = "henry" /\ pc # "off"
TrainInv == TypeOK /\ ChildInv /\ ZombieIsNoticed
=============================================================================
