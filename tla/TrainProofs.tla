----------------------------- MODULE TrainProofs -----------------------------
(***************************************************************************)
(* TrainInv is inductive: for any number of clients, and whichever servers *)
(* are started and stopped, no zombie goes unnoticed.                      *)
(***************************************************************************)
EXTENDS TrainServer, TLAPS

LEMMA InitHolds == Init => TrainInv
<1> SUFFICES ASSUME Init PROVE TrainInv OBVIOUS
<1>1. sigchld \in BOOLEAN /\ handler \in BOOLEAN /\ ~handler BY DEF Init
<1>2. TypeOK BY <1>1 DEF Init, TypeOK
<1>3. ChildInv BY <1>1 DEF Init, ChildInv
<1>4. ZombieIsNoticed BY DEF Init, ZombieIsNoticed
<1> QED BY <1>2, <1>3, <1>4 DEF TrainInv

-----------------------------------------------------------------------------
(* Types.                                                                  *)

LEMMA LetGoType ==
  ASSUME TypeOK, NEW p, NEW conns, NEW l, LetGo(p, conns, l)
  PROVE  /\ holders' \in [Clients -> SUBSET (Clients \cup {"server"})]
         /\ listeners' \subseteq Clients \cup {"server"}
         /\ queue' \in Seq(Clients)
         /\ client' \in [Clients -> {"idle", "queued", "served", "closed", "gone"}]
BY DEF TypeOK, LetGo

LEMMA ExitType ==
  ASSUME TypeOK, NEW survivors, Exit(survivors)
  PROVE  TypeOK'
<1>1. /\ child' \in [Clients -> {"none", "forked", "running", "zombie", "reaped"}]
      /\ orphans' \subseteq Clients
  BY DEF TypeOK, Exit
<1>2. /\ holders' \in [Clients -> SUBSET (Clients \cup {"server"})]
      /\ listeners' \subseteq Clients \cup {"server"}
      /\ queue' \in Seq(Clients)
  BY DEF TypeOK, Exit
<1>3. client' \in [Clients -> {"idle", "queued", "served", "closed", "gone"}]
  BY DEF TypeOK, Exit
<1>4. pc' = "off" /\ handler' = FALSE /\ sigchld' = FALSE /\ UNCHANGED <<prog, cur>>
  BY DEF Exit
<1> QED BY <1>1, <1>2, <1>3, <1>4 DEF TypeOK

LEMMA TypeStep ==
  ASSUME TypeOK, Next
  PROVE  TypeOK'
<1>1. CASE Accept
  <2>1. Head(queue) \in Clients /\ Tail(queue) \in Seq(Clients) BY <1>1 DEF Accept, TypeOK
  <2>2. sigchld' \in BOOLEAN /\ handler' \in BOOLEAN BY <1>1 DEF Accept, TypeOK
  <2> QED BY <1>1, <2>1, <2>2 DEF Accept, TypeOK, childVars
<1>2. CASE Fork
  <2>1. sigchld' \in BOOLEAN /\ handler' \in BOOLEAN BY <1>2 DEF Fork, TypeOK
  <2> QED BY <1>2, <2>1 DEF Fork, TypeOK
<1>3. CASE CloseClient
  <2>1. sigchld' \in BOOLEAN /\ handler' \in BOOLEAN BY <1>3 DEF CloseClient, TypeOK
  <2>2. LetGo("server", {cur}, FALSE) /\ pc' \in {"wait", "accept"} /\ UNCHANGED <<prog, cur, child, orphans>>
    BY <1>3 DEF CloseClient, childVars
  <2> QED BY <2>1, <2>2, LetGoType DEF TypeOK
<1>4. CASE Wait \/ Answer
  <2>1. sigchld' \in BOOLEAN /\ handler' \in BOOLEAN BY <1>4 DEF Wait, Answer, TypeOK
  <2> QED BY <1>4, <2>1 DEF Wait, Answer, TypeOK, childVars, socketVars
<1>5. CASE ForkFails
  <2>1. CASE /\ prog = "henry" /\ pc' = "close" /\ UNCHANGED <<prog, cur, sigchld, handler, childVars, socketVars>>
    BY <2>1 DEF TypeOK, childVars, socketVars
  <2> QED BY <1>5, <2>1, ExitType DEF ForkFails
<1>6. CASE HandleChld
  <2>1. sigchld' \in BOOLEAN /\ handler' \in BOOLEAN BY <1>6 DEF HandleChld, TypeOK
  <2> QED BY <1>6, <2>1 DEF HandleChld, TypeOK, childVars, socketVars
<1>7. CASE Reap
  <2>1. sigchld' \in BOOLEAN /\ handler' \in BOOLEAN BY <1>7 DEF Reap, TypeOK
  <2> QED BY <1>7, <2>1 DEF Reap, TypeOK, childVars, socketVars
<1>8. CASE CtrlC BY <1>8, ExitType DEF CtrlC
<1>9. ASSUME NEW p \in {"lab5", "henry", "sample"}, Start(p) PROVE TypeOK'
  <2>1. sigchld' \in BOOLEAN /\ handler' \in BOOLEAN BY <1>9 DEF Start, TypeOK
  <2> QED BY <1>9, <2>1 DEF Start, TypeOK, childVars
<1>10. ASSUME NEW c \in Clients, Connect(c) \/ HangUp(c) PROVE TypeOK'
  <2>1. sigchld' \in BOOLEAN /\ handler' \in BOOLEAN BY <1>10 DEF Connect, HangUp, TypeOK, serverVars
  <2>2. CASE Connect(c)
    <3>1. queue' \in Seq(Clients) BY <2>2 DEF Connect, TypeOK
    <3> QED BY <2>1, <2>2, <3>1 DEF Connect, TypeOK, serverVars, childVars
  <2>3. CASE HangUp(c) BY <2>1, <2>3 DEF HangUp, TypeOK, serverVars, childVars
  <2> QED BY <1>10, <2>2, <2>3
<1>11. ASSUME NEW c \in Clients, Exec(c) PROVE TypeOK'
  <2>1. sigchld' \in BOOLEAN /\ handler' \in BOOLEAN BY <1>11 DEF Exec, TypeOK, serverVars
  <2>2. LetGo(c, {}, prog = "lab5") /\ child' = [child EXCEPT ![c] = "running"] /\ UNCHANGED <<prog, pc, cur, orphans>>
    BY <1>11 DEF Exec, serverVars
  <2> QED BY <2>1, <2>2, LetGoType DEF TypeOK
<1>12. ASSUME NEW c \in Clients, Ends(c) PROVE TypeOK'
  <2>1. sigchld' \in BOOLEAN /\ handler' \in BOOLEAN BY <1>12 DEF Ends, TypeOK
  <2>2. /\ LetGo(c, {c}, TRUE) /\ UNCHANGED <<prog, pc, cur, orphans>>
        /\ child' = [child EXCEPT ![c] = IF c \in orphans THEN "reaped" ELSE "zombie"]
    BY <1>12 DEF Ends
  <2> QED BY <2>1, <2>2, LetGoType DEF TypeOK
<1> QED BY <1>1, <1>2, <1>3, <1>4, <1>5, <1>6, <1>7, <1>8, <1>9, <1>10, <1>11, <1>12
  DEF Next, ServerStep, HandlerStep, StartLab5, StartHenry, StartSample

-----------------------------------------------------------------------------
(* The queue and the children.                                             *)

QueueInv ==
  \A j, k \in DOMAIN queue : client[queue[j]] = "queued" /\ (queue[j] = queue[k] => j = k)

LEMMA LetGoQueue ==
  ASSUME TypeOK, QueueInv, NEW p, NEW conns, NEW l, LetGo(p, conns, l)
  PROVE  /\ QueueInv'
         /\ \A c \in Clients : client'[c] \in {"idle", "queued"} => client[c] = client'[c]
<1>1. \A c \in Clients : client'[c] \in {client[c], "closed"} /\ (client'[c] = "idle" => client[c] = "idle")
  BY DEF TypeOK, LetGo
<1>2. CASE listeners' = {}
  <2>1. queue' = <<>> BY <1>2 DEF LetGo
  <2> QED BY <1>1, <2>1 DEF QueueInv
<1>3. CASE listeners' # {}
  <2>1. queue' = queue /\ \A c \in Clients : client[c] = "queued" => client'[c] = "queued"
    BY <1>3 DEF LetGo, TypeOK
  <2>2. \A j \in DOMAIN queue : queue[j] \in Clients BY DEF TypeOK
  <2> QED BY <1>1, <2>1, <2>2 DEF QueueInv
<1> QED BY <1>2, <1>3

LEMMA ExitQueue ==
  ASSUME TypeOK, QueueInv, NEW survivors, Exit(survivors)
  PROVE  /\ QueueInv'
         /\ \A c \in Clients : client'[c] \in {"idle", "queued"} => client[c] = client'[c]
<1>1. client' = [c \in Clients |->
                  IF \/ client[c] = "served" /\ holders'[c] = {}
                     \/ client[c] = "queued" /\ listeners' = {}
                  THEN "closed" ELSE client[c]]
      /\ queue' = IF listeners' = {} THEN <<>> ELSE queue
  BY DEF Exit
<1>2. \A c \in Clients : client'[c] \in {client[c], "closed"} BY <1>1 DEF TypeOK
<1>3. CASE listeners' = {}
  <2>1. queue' = <<>> BY <1>1, <1>3
  <2> QED BY <1>2, <2>1 DEF QueueInv
<1>4. CASE listeners' # {}
  <2>1. queue' = queue /\ \A c \in Clients : client[c] = "queued" => client'[c] = "queued"
    BY <1>1, <1>4 DEF TypeOK
  <2>2. \A j \in DOMAIN queue : queue[j] \in Clients BY DEF TypeOK
  <2> QED BY <1>2, <2>1, <2>2 DEF QueueInv
<1> QED BY <1>3, <1>4

LEMMA ExitStep ==
  ASSUME TrainInv, NEW survivors, survivors \cap {c \in Clients \ orphans : child[c] \in {"none", "zombie"}} = {},
         Exit(survivors)
  PROVE  TrainInv'
<1>1. TypeOK' BY ExitType DEF TrainInv
<1>2. QueueInv' /\ \A c \in Clients : client'[c] \in {"idle", "queued"} => client[c] = client'[c]
  BY ExitQueue DEF TrainInv, ChildInv, QueueInv
<1>3. /\ pc' = "off" /\ handler' = FALSE /\ UNCHANGED <<prog, cur>>
      /\ orphans' = {c \in Clients : child[c] # "none"}
      /\ child' = [c \in Clients |-> IF child[c] = "none" \/ c \in survivors THEN child[c] ELSE "reaped"]
  BY DEF Exit
<1>4. \A c \in Clients : child'[c] \in {"none", "forked", "running", "reaped"} /\ (child[c] = "none" => child'[c] = "none")
  BY <1>3 DEF TrainInv, ChildInv, TypeOK
<1>5. \A c \in orphans' : child'[c] # "none" BY <1>3, <1>4 DEF TrainInv, TypeOK
<1>6. \A c \in Clients \ orphans' : child'[c] = "none" BY <1>3, <1>4
<1>7. ChildInv' BY <1>1, <1>2, <1>3, <1>4, <1>5, <1>6 DEF TrainInv, ChildInv, QueueInv, TypeOK
<1> QED BY <1>1, <1>4, <1>7 DEF TrainInv, ZombieIsNoticed, TypeOK

LEMMA StepHolds ==
  ASSUME TrainInv, Next
  PROVE  TrainInv'
<1> USE DEF TrainInv
<1>0. TypeOK' BY TypeStep
<1>1. CASE Accept
  <2>1. /\ queue # <<>> /\ pc = "accept" /\ cur' = Head(queue) /\ queue' = Tail(queue)
        /\ client' = [client EXCEPT ![cur'] = "served"] /\ handler = FALSE
        /\ pc' = (IF prog = "sample" THEN "read" ELSE "fork")
        /\ UNCHANGED <<prog, sigchld, handler, child, orphans>>
    BY <1>1 DEF Accept, childVars
  <2>2. /\ 1 \in DOMAIN queue /\ Head(queue) = queue[1] /\ Head(queue) \in Clients
        /\ \A j \in DOMAIN Tail(queue) : j + 1 \in DOMAIN queue /\ Tail(queue)[j] = queue[j + 1] /\ queue[j + 1] \in Clients /\ j + 1 # 1 /\ j \in Nat
    BY <2>1 DEF TypeOK
  <2>3. client[cur'] = "queued" /\ child[cur'] = "none" BY <2>1, <2>2 DEF ChildInv
  <2>4. \A j \in DOMAIN queue' : queue'[j] # cur' /\ client[queue'[j]] = "queued" BY <2>1, <2>2 DEF ChildInv
  <2>5. \A j, k \in DOMAIN queue' : client'[queue'[j]] = "queued" /\ (queue'[j] = queue'[k] => j = k)
    BY <2>1, <2>2, <2>4 DEF ChildInv, TypeOK
  <2>6. \A c \in Clients : client'[c] \in {"idle", "queued"} => child'[c] = "none"
    BY <2>1, <2>2 DEF ChildInv, TypeOK
  <2>7. ChildInv' BY <2>1, <2>3, <2>5, <2>6 DEF ChildInv, TypeOK
  <2>8. ZombieIsNoticed' BY <2>1 DEF ZombieIsNoticed, ChildInv, TypeOK
  <2> QED BY <1>0, <2>7, <2>8
<1>2. CASE Fork
  <2>1. /\ pc = "fork" /\ pc' = "close" /\ child' = [child EXCEPT ![cur] = "forked"] /\ cur \in Clients
        /\ UNCHANGED <<prog, cur, sigchld, handler, orphans, client, queue>>
    BY <1>2 DEF Fork, TypeOK
  <2>2. client[cur] \notin {"idle", "queued"} /\ cur \notin orphans /\ prog # "sample" /\ child[cur] = "none"
    BY <2>1 DEF ChildInv
  <2>3. ChildInv' BY <2>1, <2>2 DEF ChildInv, TypeOK
  <2>4. ZombieIsNoticed' BY <2>1 DEF ZombieIsNoticed, ChildInv, TypeOK
  <2> QED BY <1>0, <2>3, <2>4
<1>3. CASE CloseClient
  <2>1. /\ LetGo("server", {cur}, FALSE) /\ UNCHANGED <<prog, cur, sigchld, handler, child, orphans>>
        /\ pc = "close" /\ pc' = (IF prog = "lab5" THEN "wait" ELSE "accept")
    BY <1>3 DEF CloseClient, childVars
  <2>2. QueueInv' /\ \A c \in Clients : client'[c] \in {"idle", "queued"} => client[c] = client'[c]
    BY <2>1, LetGoQueue DEF ChildInv, QueueInv
  <2>3. ChildInv' BY <2>1, <2>2 DEF ChildInv, QueueInv, TypeOK
  <2>4. ZombieIsNoticed' BY <2>1 DEF ZombieIsNoticed, TypeOK
  <2> QED BY <1>0, <2>3, <2>4
<1>4. CASE Wait
  <2>1. /\ pc = "wait" /\ pc' = "accept" /\ child' = [child EXCEPT ![cur] = "reaped"] /\ child[cur] = "zombie"
        /\ UNCHANGED <<prog, cur, sigchld, handler, orphans, client, queue>>
    BY <1>4 DEF Wait, socketVars
  <2>2. ChildInv' BY <2>1 DEF ChildInv, TypeOK
  <2>3. ZombieIsNoticed' BY <2>1 DEF ZombieIsNoticed, TypeOK
  <2> QED BY <1>0, <2>2, <2>3
<1>5. CASE Answer
  <2>1. pc = "read" /\ pc' = "close" /\ UNCHANGED <<prog, cur, sigchld, handler, child, orphans, client, queue>>
    BY <1>5 DEF Answer, childVars, socketVars
  <2>2. ChildInv' BY <2>1 DEF ChildInv, TypeOK
  <2>3. ZombieIsNoticed' BY <2>1 DEF ZombieIsNoticed, TypeOK
  <2> QED BY <1>0, <2>2, <2>3
<1>6. CASE ForkFails
  <2>1. CASE /\ prog = "henry" /\ pc' = "close" /\ UNCHANGED <<prog, cur, sigchld, handler, childVars, socketVars>>
    <3>1. ChildInv' BY <2>1 DEF ChildInv, TypeOK, childVars, socketVars
    <3>2. ZombieIsNoticed' BY <2>1 DEF ZombieIsNoticed, TypeOK, childVars, socketVars
    <3> QED BY <1>0, <3>1, <3>2
  <2>2. CASE Exit({c \in Clients : child[c] \in {"forked", "running"}}) BY <2>2, ExitStep
  <2> QED BY <1>6, <2>1, <2>2 DEF ForkFails
<1>7. CASE HandleChld
  <2>1. /\ prog = "henry" /\ pc # "off" /\ handler' = TRUE
        /\ UNCHANGED <<prog, pc, cur, child, orphans, client, queue>>
    BY <1>7 DEF HandleChld, childVars, socketVars
  <2>2. ChildInv' BY <2>1 DEF ChildInv, TypeOK
  <2>3. ZombieIsNoticed' BY <2>1 DEF ZombieIsNoticed, TypeOK
  <2> QED BY <1>0, <2>2, <2>3
<1>8. CASE Reap
  <2>1. /\ handler /\ prog = "henry" /\ pc # "off"
        /\ UNCHANGED <<prog, pc, cur, sigchld, orphans, client, queue>>
    BY <1>8 DEF Reap, ChildInv, socketVars
  <2>2. CASE \E c \in Reapable : child' = [child EXCEPT ![c] = "reaped"] /\ UNCHANGED handler
    <3>1. PICK c \in Clients \ orphans : child[c] = "zombie" /\ child' = [child EXCEPT ![c] = "reaped"] /\ UNCHANGED handler
      BY <2>2 DEF Reapable
    <3>2. ChildInv' BY <2>1, <3>1 DEF ChildInv, TypeOK
    <3>3. ZombieIsNoticed' BY <2>1, <3>1 DEF ZombieIsNoticed, TypeOK
    <3> QED BY <1>0, <3>2, <3>3
  <2>3. CASE Reapable = {} /\ handler' = FALSE /\ UNCHANGED child
    <3>1. \A c \in Clients : child[c] # "zombie" BY <2>3 DEF Reapable, ChildInv
    <3>2. ChildInv' BY <2>1, <2>3 DEF ChildInv, TypeOK
    <3>3. ZombieIsNoticed' BY <2>1, <2>3, <3>1 DEF ZombieIsNoticed, TypeOK
    <3> QED BY <1>0, <3>2, <3>3
  <2> QED BY <1>8, <2>2, <2>3 DEF Reap
<1>9. CASE CtrlC
  <2>1. Exit({c \in Clients : child[c] = "running"} \cup {c \in orphans : child[c] # "none"}) BY <1>9 DEF CtrlC
  <2> QED BY <2>1, ExitStep
<1>10. ASSUME NEW p \in {"lab5", "henry", "sample"}, Start(p) PROVE TrainInv'
  <2>1. /\ pc = "off" /\ prog' = p /\ pc' = "accept" /\ UNCHANGED <<cur, sigchld, handler, child, orphans, client, queue>>
    BY <1>10 DEF Start, childVars
  <2>2. \A c \in Clients : child[c] # "zombie" BY <2>1 DEF ZombieIsNoticed
  <2>3. ChildInv' BY <2>1 DEF ChildInv, TypeOK
  <2>4. ZombieIsNoticed' BY <2>1, <2>2 DEF ZombieIsNoticed, TypeOK
  <2> QED BY <1>0, <2>3, <2>4
<1>11. ASSUME NEW c \in Clients, Connect(c) PROVE TrainInv'
  <2>1. /\ client[c] = "idle" /\ client' = [client EXCEPT ![c] = "queued"] /\ queue' = Append(queue, c)
        /\ UNCHANGED <<prog, pc, cur, sigchld, handler, child, orphans>>
    BY <1>11 DEF Connect, serverVars, childVars
  <2>2. \A j \in DOMAIN queue : queue[j] \in Clients /\ queue[j] # c /\ queue'[j] = queue[j] BY <2>1 DEF ChildInv, TypeOK
  <2>3. \A j \in DOMAIN queue' : j \in DOMAIN queue \/ (j = Len(queue) + 1 /\ queue'[j] = c) BY <2>1 DEF TypeOK
  <2>4. \A j, k \in DOMAIN queue' : client'[queue'[j]] = "queued" /\ (queue'[j] = queue'[k] => j = k)
    BY <2>1, <2>2, <2>3 DEF ChildInv, TypeOK
  <2>5. pc = "fork" => cur # c /\ client'[cur] = client[cur] BY <2>1 DEF ChildInv, TypeOK
  <2>6. \A d \in Clients : client'[d] \in {"idle", "queued"} => child'[d] = "none" BY <2>1 DEF ChildInv, TypeOK
  <2>7. ChildInv' BY <2>1, <2>4, <2>5, <2>6 DEF ChildInv, TypeOK
  <2>8. ZombieIsNoticed' BY <2>1 DEF ZombieIsNoticed, TypeOK
  <2> QED BY <1>0, <2>7, <2>8
<1>12. ASSUME NEW c \in Clients, HangUp(c) PROVE TrainInv'
  <2>1. /\ client[c] = "served" /\ client' = [client EXCEPT ![c] = "gone"]
        /\ UNCHANGED <<prog, pc, cur, sigchld, handler, child, orphans, queue>>
    BY <1>12 DEF HangUp, serverVars, childVars
  <2>2. \A j \in DOMAIN queue : queue[j] \in Clients BY DEF TypeOK
  <2>3. ChildInv' BY <2>1, <2>2 DEF ChildInv, TypeOK
  <2>4. ZombieIsNoticed' BY <2>1 DEF ZombieIsNoticed, TypeOK
  <2> QED BY <1>0, <2>3, <2>4
<1>13. ASSUME NEW c \in Clients, Exec(c) PROVE TrainInv'
  <2>1. /\ LetGo(c, {}, prog = "lab5") /\ child[c] = "forked" /\ child' = [child EXCEPT ![c] = "running"]
        /\ UNCHANGED <<prog, pc, cur, sigchld, handler, orphans>>
    BY <1>13 DEF Exec, serverVars
  <2>2. QueueInv' /\ \A d \in Clients : client'[d] \in {"idle", "queued"} => client[d] = client'[d]
    BY <2>1, LetGoQueue DEF ChildInv, QueueInv
  <2>3. ChildInv' BY <2>1, <2>2 DEF ChildInv, QueueInv, TypeOK
  <2>4. ZombieIsNoticed' BY <2>1 DEF ZombieIsNoticed, TypeOK
  <2> QED BY <1>0, <2>3, <2>4
<1>14. ASSUME NEW c \in Clients, Ends(c) PROVE TrainInv'
  <2>1. /\ LetGo(c, {c}, TRUE) /\ child[c] \in {"forked", "running"}
        /\ child' = [child EXCEPT ![c] = IF c \in orphans THEN "reaped" ELSE "zombie"]
        /\ c \notin orphans /\ prog = "henry" => sigchld'
        /\ sigchld => sigchld'
        /\ UNCHANGED <<prog, pc, cur, handler, orphans>>
    BY <1>14 DEF Ends
  <2>2. QueueInv' /\ \A d \in Clients : client'[d] \in {"idle", "queued"} => client[d] = client'[d]
    BY <2>1, LetGoQueue DEF ChildInv, QueueInv
  <2>3. ChildInv' BY <2>1, <2>2 DEF ChildInv, QueueInv, TypeOK
  <2>4. ASSUME NEW d \in Clients, child'[d] = "zombie"
        PROVE  /\ pc # "off"
               /\ prog = "henry" => sigchld' \/ handler
               /\ prog = "lab5" => cur = d /\ pc \in {"close", "wait"}
    <3>1. CASE d = c BY <2>1, <2>4, <3>1 DEF ChildInv, TypeOK
    <3>2. CASE d # c BY <2>1, <2>4, <3>2 DEF ZombieIsNoticed, TypeOK
    <3> QED BY <3>1, <3>2
  <2>5. ZombieIsNoticed' BY <2>1, <2>4 DEF ZombieIsNoticed
  <2> QED BY <1>0, <2>3, <2>5
<1> QED BY <1>1, <1>2, <1>3, <1>4, <1>5, <1>6, <1>7, <1>8, <1>9, <1>10, <1>11, <1>12, <1>13, <1>14
  DEF Next, ServerStep, HandlerStep, StartLab5, StartHenry, StartSample

-----------------------------------------------------------------------------
\* The inductive invariant of the servers and their children.
THEOREM TrainInvHolds == Spec => []TrainInv
<1>1. TrainInv /\ UNCHANGED vars => TrainInv'
  BY DEF TrainInv, TypeOK, ChildInv, ZombieIsNoticed, vars, serverVars, childVars, socketVars
<1>2. TrainInv /\ [Next]_vars => TrainInv' BY <1>1, StepHolds
<1> QED BY <1>2, InitHolds, PTL DEF Spec

\* No zombie goes unnoticed, though SIGCHLD does not queue.
THEOREM ZombiesAreNoticed == Spec => []ZombieIsNoticed
<1>1. TrainInv => ZombieIsNoticed BY DEF TrainInv
<1> QED BY <1>1, TrainInvHolds, PTL
=============================================================================
