---------------------------- MODULE AccountProofs ----------------------------
(***************************************************************************)
(* The programs that keep accounts.  Of the web ATM, for any number of     *)
(* users and any requests: nothing is lost, and the account is the sum of  *)
(* the requests.  Of a delivery server and its clients (OrderSession), for *)
(* any menu: an order is of one shop, at its prices and its distance.  The *)
(* two have no variable in common.                                         *)
(***************************************************************************)
EXTENDS WebATM, OrderSession, FiniteSetTheorems, WellFoundedInduction, TLAPS

(* Sums over the users.  Induction is over the set of the numbers that have *)
(* a property: the theorem for a property needs an operator as parameter.   *)

\* A set of numbers that has 0, and with each number the next, has them all.
LEMMA SetInduction ==
  ASSUME NEW T \in SUBSET Nat, 0 \in T, \A n \in T : n + 1 \in T
  PROVE  T = Nat
<1> DEFINE R == OpToRel(<, Nat)
<1>1. IsWellFoundedOn(R, Nat)
  BY NatLessThanWellFounded
<1>2. \A x, y \in Nat : x < y => <<x, y>> \in R
  BY DEF OpToRel
<1> HIDE DEF R
<1>3. SUFFICES ASSUME Nat \ T # {} PROVE FALSE
  OBVIOUS
<1>4. PICK x \in Nat \ T : \A y \in Nat \ T : <<y, x>> \notin R
  BY <1>1, <1>3, WFMin
<1>5. x # 0 
  BY <1>4
<1>6. x - 1 \in Nat /\ x - 1 < x /\ (x - 1) + 1 = x
  BY <1>4, <1>5
<1>7. x - 1 \in T
  BY <1>2, <1>4, <1>6
<1>8. QED
  BY <1>4, <1>6, <1>7

\* sums holds the sums of f up to m.
Sums(sums, f, m) == sums[0] = 0 /\ \A n \in 1..m : sums[n] = sums[n - 1] + f[n]

\* The sums of finitely many numbers.
LEMMA SumsExist ==
  ASSUME MaxUsers \in Nat, NEW f \in [Users -> Int], NEW m \in 0..MaxUsers
  PROVE  \E sums \in [0..m -> Int] : Sums(sums, f, m)
<1> DEFINE T == {k \in Nat : k <= MaxUsers => \E sums \in [0..k -> Int] : Sums(sums, f, k)}
<1>1. 0 \in T
  <2>1. [n \in 0..0 |-> 0] \in [0..0 -> Int] /\ Sums([n \in 0..0 |-> 0], f, 0)
    BY DEF Sums
  <2>2. QED
    BY <2>1
<1>2. ASSUME NEW k \in T PROVE k + 1 \in T
  <2>1. SUFFICES ASSUME k + 1 <= MaxUsers
                 PROVE  \E sums \in [0..(k + 1) -> Int] : Sums(sums, f, k + 1)
    OBVIOUS
  <2>2. PICK sums \in [0..k -> Int] : Sums(sums, f, k)
    <3>1. k \in Nat /\ k <= MaxUsers
      BY <2>1
    <3>2. QED
      BY <3>1
  <2> DEFINE t == [n \in 0..(k + 1) |-> IF n <= k THEN sums[n] ELSE sums[k] + f[k + 1]]
  <2>3. sums[k] + f[k + 1] \in Int
    BY <2>1 DEF Users
  <2>4. t \in [0..(k + 1) -> Int]
    BY <2>3
  <2>5. ASSUME NEW n \in 1..(k + 1) PROVE t[n] = t[n - 1] + f[n]
    <3>1. CASE n <= k
      <4>1. n \in 1..k /\ n \in 0..(k + 1) /\ n - 1 \in 0..(k + 1) /\ n - 1 <= k
        BY <3>1
      <4>2. t[n] = sums[n] /\ t[n - 1] = sums[n - 1]
        BY <3>1, <4>1
      <4>3. QED
        BY <2>2, <4>1, <4>2 DEF Sums
    <3>2. CASE n = k + 1
      <4>1. n \in 0..(k + 1) /\ n - 1 \in 0..(k + 1) /\ n - 1 = k /\ ~(n <= k)
        BY <3>2
      <4>2. t[n] = sums[k] + f[n] /\ t[n - 1] = sums[k]
        BY <3>2, <4>1
      <4>3. QED
        BY <4>2
    <3>3. QED
      BY <3>1, <3>2
  <2>6. t[0] = 0
    BY <2>2 DEF Sums
  <2>7. QED
    BY <2>4, <2>5, <2>6 DEF Sums
<1> HIDE DEF T
<1>3. T = Nat
  BY <1>1, <1>2, SetInduction DEF T
<1>4. QED
  BY <1>3 DEF T

\* The recursive function computes them.
LEMMA UptoSums ==
  ASSUME MaxUsers \in Nat, NEW f \in [Users -> Int]
  PROVE  Upto(f) \in [0..MaxUsers -> Int] /\ Sums(Upto(f), f, MaxUsers)
<1> DEFINE Is(sums) == sums = [n \in 0..MaxUsers |-> IF n = 0 THEN 0 ELSE sums[n - 1] + f[n]]
<1>1. Upto(f) = CHOOSE sums : Is(sums)
  BY DEF Upto
<1>2. \E sums : Is(sums)
  <2>1. PICK sums \in [0..MaxUsers -> Int] : Sums(sums, f, MaxUsers)
    BY SumsExist
  <2>2. sums = [n \in 0..MaxUsers |-> IF n = 0 THEN 0 ELSE sums[n - 1] + f[n]]
    BY <2>1 DEF Sums
  <2>3. QED
    BY <2>2
<1> HIDE DEF Is
<1>3. Is(Upto(f))
  BY <1>1, <1>2
<1>4. Upto(f) = [n \in 0..MaxUsers |-> IF n = 0 THEN 0 ELSE Upto(f)[n - 1] + f[n]]
  BY <1>3 DEF Is
<1> DEFINE sums == Upto(f)
<1> HIDE DEF sums
<1>5. sums[0] = 0 /\ DOMAIN sums = 0..MaxUsers /\ \A n \in 1..MaxUsers : sums[n] = sums[n - 1] + f[n]
  BY <1>4 DEF sums
<1>6. \A n \in 0..MaxUsers : sums[n] \in Int
  <2> DEFINE T == {k \in Nat : k <= MaxUsers => sums[k] \in Int}
  <2>1. 0 \in T
    BY <1>5
  <2>2. ASSUME NEW k \in T PROVE k + 1 \in T
    <3>1. SUFFICES ASSUME k + 1 <= MaxUsers PROVE sums[k + 1] \in Int
      OBVIOUS
    <3>2. sums[k] \in Int /\ f[k + 1] \in Int /\ sums[k + 1] = sums[k] + f[k + 1]
      BY <1>5, <3>1 DEF Users
    <3>3. QED
      BY <3>2
  <2> HIDE DEF T
  <2>3. T = Nat
    BY <2>1, <2>2, SetInduction DEF T
  <2>4. QED
    BY <2>3 DEF T
<1>7. sums = [n \in 0..MaxUsers |-> sums[n]]
  BY <1>4 DEF sums
<1>8. QED
  BY <1>5, <1>6, <1>7 DEF sums, Sums

\* One number is changed.
LEMMA SumChanged ==
  ASSUME MaxUsers \in Nat, NEW f \in [Users -> Int], NEW u \in Users, NEW x \in Int
  PROVE  Sum([f EXCEPT ![u] = f[u] + x]) = Sum(f) + x
<1> DEFINE g == [f EXCEPT ![u] = f[u] + x]
           sums == Upto(f)
           t == Upto(g)
           T == {k \in Nat : k <= MaxUsers => t[k] = sums[k] + (IF k < u THEN 0 ELSE x)}
<1>1. g \in [Users -> Int]
  <2>1. f[u] + x \in Int
    BY DEF Users
  <2>2. QED
    BY <2>1
<1>2. /\ sums \in [0..MaxUsers -> Int] /\ sums[0] = 0 /\ \A n \in 1..MaxUsers : sums[n] = sums[n - 1] + f[n]
      /\ t \in [0..MaxUsers -> Int] /\ t[0] = 0 /\ \A n \in 1..MaxUsers : t[n] = t[n - 1] + g[n]
  BY <1>1, UptoSums DEF Sums
<1>3. \A n \in Users : g[n] = f[n] + (IF n = u THEN x ELSE 0)
  OBVIOUS
<1> HIDE DEF g, sums, t
<1>4. 0 \in T
  BY <1>2 DEF Users
<1>5. ASSUME NEW k \in T PROVE k + 1 \in T
  <2>1. SUFFICES ASSUME k + 1 <= MaxUsers
                 PROVE  t[k + 1] = sums[k + 1] + (IF k + 1 < u THEN 0 ELSE x)
    OBVIOUS
  <2>a. k \in Nat /\ u \in Int /\ k + 1 \in 1..MaxUsers /\ k \in 0..MaxUsers /\ (k + 1) - 1 = k
    BY <2>1 DEF Users
  <2>b. t[k] = sums[k] + (IF k < u THEN 0 ELSE x)
    BY <2>a
  <2>c. /\ sums[k + 1] = sums[k] + f[k + 1] /\ t[k + 1] = t[k] + g[k + 1]
        /\ g[k + 1] = f[k + 1] + (IF k + 1 = u THEN x ELSE 0)
        /\ sums[k] \in Int /\ f[k + 1] \in Int
    BY <1>2, <1>3, <2>a DEF Users
  <2>2. /\ k \in Nat /\ u \in Int /\ sums[k] \in Int /\ f[k + 1] \in Int
        /\ t[k + 1] = sums[k] + (IF k < u THEN 0 ELSE x) + (f[k + 1] + (IF k + 1 = u THEN x ELSE 0))
        /\ sums[k + 1] = sums[k] + f[k + 1]
    BY <2>a, <2>b, <2>c
  <2>3. CASE k + 1 < u
    <3>1. k < u /\ k + 1 # u
      BY <2>2, <2>3
    <3>2. QED
      BY <2>2, <2>3, <3>1
  <2>4. CASE k + 1 = u
    <3>1. k < u /\ ~(k + 1 < u)
      BY <2>2, <2>4
    <3>2. QED
      BY <2>2, <2>4, <3>1
  <2>5. CASE k + 1 > u
    <3>1. ~(k < u) /\ ~(k + 1 < u) /\ k + 1 # u
      BY <2>2, <2>5
    <3>2. QED
      BY <2>2, <3>1
  <2>6. QED
    BY <2>2, <2>3, <2>4, <2>5
<1> HIDE DEF T
<1>6. T = Nat
  BY <1>4, <1>5, SetInduction DEF T
<1>7. t[MaxUsers] = sums[MaxUsers] + x
  BY <1>6 DEF T, Users
<1>8. QED
  BY <1>7 DEF Sum, sums, t, g

\* Nobody has anything.
LEMMA SumZero == ASSUME MaxUsers \in Nat PROVE Sum([u \in Users |-> 0]) = 0
<1> DEFINE f == [u \in Users |-> 0]
           sums == Upto(f)
           T == {k \in Nat : k <= MaxUsers => sums[k] = 0}
<1>1. sums[0] = 0 /\ \A n \in 1..MaxUsers : sums[n] = sums[n - 1] + f[n]
  BY UptoSums DEF Sums
<1> HIDE DEF sums
<1>2. 0 \in T
  BY <1>1
<1>3. ASSUME NEW k \in T PROVE k + 1 \in T
  BY <1>1 DEF Users
<1> HIDE DEF T
<1>4. T = Nat
  BY <1>2, <1>3, SetInduction DEF T
<1>5. QED
  BY <1>4 DEF T, Sum, sums

-----------------------------------------------------------------------------
IInv == TypeOK /\ ATMInv

USE DEF Users, Descriptors, NoOne, historyVars

LEMMA InitInv == ASSUME ATMAssumption, Init PROVE IInv
BY DEF IInv, Init, TypeOK, ATMInv, LockInv, EndInv, NoOperationLost, ThreadPCs, Critical,
       Versions, ATMAssumption

\* Steps of the main thread keep it: they leave the account and the lock alone,
\* create threads that are outside, and remove the semaphore after the join.
LEMMA MainInv ==
  ASSUME ATMAssumption, IInv, MainAccept \/ MainStep \/ CtrlC \/ StopParent \/ CtrlCAgain
  PROVE  IInv'
<1> USE DEF threadVars
<1>1. TypeOK'
  <2> USE DEF IInv, TypeOK, ATMAssumption
  <2>1. CASE MainAccept
    <3>1. accepted + 1 \in Users
      BY <2>1 DEF MainAccept
    <3>2. open' \in [Descriptors -> Users \cup {NoOne}] /\ client_socket' \in Descriptors
      BY <2>1, <3>1 DEF MainAccept
    <3>3. unread' \subseteq Users /\ accepted' \in 0..MaxUsers /\ main_pc' = "create"
      BY <2>1, <3>1 DEF MainAccept, Send
    <3>4. UNCHANGED <<version, total, s, request, user_num, threadVars, historyVars>>
      BY <2>1 DEF MainAccept
    <3>5. QED
      BY <3>2, <3>3, <3>4
  <2>2. CASE MainCreate
    <3>1. pc' \in [Users -> ThreadPCs] /\ main_pc' = "count"
      BY <2>2 DEF MainCreate, ThreadPCs
    <3>4. UNCHANGED <<version, total, s, open, unread, request, accepted, user_num, client_socket,
                      sockfd, amount, times, reg, historyVars>>
      BY <2>2 DEF MainCreate
    <3>5. QED
      BY <3>1, <3>4
  <2>7. CASE HenryCreate
    <3>1. pc' \in [Users -> ThreadPCs] /\ main_pc' = "accept"
      BY <2>7 DEF HenryCreate, ThreadPCs
    <3>2. sockfd' \in [Users -> Descriptors \cup {0}]
      BY <2>7 DEF HenryCreate
    <3>3. UNCHANGED <<version, total, s, open, unread, request, accepted, user_num, client_socket,
                      amount, times, reg, historyVars>>
      BY <2>7 DEF HenryCreate
    <3>4. QED
      BY <3>1, <3>2, <3>3
  <2>3. CASE MainCount
    <3>1. user_num' \in Nat /\ main_pc' = "accept"
      BY <2>3 DEF MainCount
    <3>2. UNCHANGED <<version, total, s, open, unread, request, accepted, client_socket, threadVars,
                      historyVars>>
      BY <2>3 DEF MainCount
    <3>3. QED
      BY <3>1, <3>2
  <2>4. CASE MainRemove
    BY <2>4 DEF MainRemove
  <2>5. CASE MainJoin \/ MainExit \/ CtrlC \/ StopParent \/ CtrlCAgain
    BY <2>5 DEF MainJoin, MainExit, CtrlC, StopParent, CtrlCAgain
  <2>6. QED
    BY <2>1, <2>2, <2>3, <2>4, <2>5, <2>7 DEF MainStep, SafeClose
<1>2. LockInv' /\ NoOperationLost'
  <2> USE DEF IInv, ATMInv, LockInv, NoOperationLost, Critical
  <2>1. CASE MainCreate \/ HenryCreate
    <3>1. \A u \in Users : pc'[u] \in Critical \cup {"P"} => pc'[u] = pc[u]
      BY <2>1 DEF MainCreate, HenryCreate, TypeOK
    <3>2. UNCHANGED <<total, s, applied, times, reg>>
      BY <2>1 DEF MainCreate, HenryCreate
    <3>3. QED
      BY <3>1, <3>2
  <2>2. CASE MainRemove
    <3>1. s' = -1 /\ UNCHANGED <<total, applied, pc, times, reg>>
      BY <2>2 DEF MainRemove
    <3>2. QED
      BY <3>1
  <2>3. CASE MainAccept \/ MainCount \/ MainJoin \/ MainExit \/ CtrlC \/ StopParent \/ CtrlCAgain
    <3>1. UNCHANGED <<total, s, applied, pc, times, reg>>
      BY <2>3 DEF MainAccept, MainCount, MainJoin, MainExit, CtrlC, StopParent, CtrlCAgain
    <3>2. QED
      BY <3>1
  <2>4. QED
    BY <2>1, <2>2, <2>3 DEF MainStep, SafeClose
<1>3. EndInv'
  <2>1. version' = version /\ (s' = s \/ (main_pc = "remove" /\ main_pc' = "exit"))
    <3>1. CASE MainAccept \/ MainCreate \/ HenryCreate \/ MainCount \/ CtrlC \/ StopParent \/ CtrlCAgain
      BY <3>1 DEF MainAccept, MainCreate, HenryCreate, MainCount, CtrlC, StopParent, CtrlCAgain
    <3>2. CASE SafeClose
      BY <3>2 DEF SafeClose, MainJoin, MainRemove, MainExit
    <3>3. QED
      BY <3>1, <3>2 DEF MainStep
  <2>2. CASE version = "henry"
    <3>1. main_pc \in {"exit", "exited"} => main_pc' \in {"exit", "exited"}
      BY DEF MainAccept, MainStep, SafeClose, MainCreate, HenryCreate, MainCount, MainJoin, MainRemove, MainExit,
             CtrlC, StopParent, CtrlCAgain
    <3>2. QED
      BY <2>1, <2>2, <3>1 DEF IInv, ATMInv, EndInv
  <2>3. CASE version # "henry"
    <3>1. version = "lab6"
      BY <2>3 DEF IInv, TypeOK, Versions
    <3>2. CASE MainAccept \/ MainCount \/ CtrlC \/ StopParent \/ CtrlCAgain
      BY <2>1, <2>3, <3>1, <3>2 DEF MainAccept, MainCount, CtrlC, StopParent, CtrlCAgain, IInv, ATMInv, EndInv
    <3>3. CASE MainCreate
      BY <2>1, <2>3, <3>1, <3>3 DEF MainCreate, IInv, ATMInv, EndInv
    <3>4. CASE SafeClose
      BY <2>1, <3>1, <3>4 DEF SafeClose, MainJoin, MainRemove, MainExit, IInv, ATMInv, EndInv
    <3>5. CASE HenryCreate
      BY <2>3, <3>5 DEF HenryCreate
    <3>6. QED
      BY <3>2, <3>3, <3>4, <3>5 DEF MainStep
  <2>4. QED
    BY <2>2, <2>3
<1>4. QED
  BY <1>1, <1>2, <1>3 DEF IInv, ATMInv

\* A thread enters only when the semaphore is 1, and whoever is inside has it.
LEMMA ThreadInv ==
  ASSUME ATMAssumption, IInv, NEW u \in Users, main_pc # "exited",
         HandleClient(u) \/ P(u)
  PROVE  IInv'
<1> USE DEF mainVars
<1>1. version = "lab6" => s # -1 /\ main_pc \notin {"remove", "exit"}
  BY DEF IInv, ATMInv, EndInv, HandleClient, Operation, Start, Read, WaitForParty, HenryBegin, BeginLoop, P, Load, Store,
         V, Close
<1>2. TypeOK'
  <2> USE DEF IInv
  <2>1. CASE Start(u)
    <3>1. sockfd' = [sockfd EXCEPT ![u] = client_socket]
      BY <2>1 DEF Start
    <3>2. sockfd' \in [Users -> Descriptors \cup {0}]
      BY <3>1 DEF TypeOK
    <3>3. pc' \in [Users -> ThreadPCs]
      BY <2>1 DEF Start, TypeOK, ThreadPCs
    <3>4. UNCHANGED <<version, total, s, open, unread, request, mainVars, amount, times, reg, historyVars>>
      BY <2>1 DEF Start
    <3>5. QED
      BY <3>2, <3>3, <3>4 DEF TypeOK
  <2>2. CASE Read(u)
    <3>1. PICK r \in [amount : Int, times : Nat] :
            amount' = [amount EXCEPT ![u] = r.amount] /\ times' = [times EXCEPT ![u] = r.times]
      BY <2>2 DEF Read, TypeOK, ThreadPCs, ATMAssumption
    <3>2. amount' \in [Users -> Int] /\ times' \in [Users -> Nat]
      BY <3>1 DEF TypeOK, ThreadPCs
    <3>3. unread' \subseteq Users
      BY <2>2 DEF Read, TypeOK, ThreadPCs, ATMAssumption
    <3>4. pc' \in [Users -> ThreadPCs]
      BY <2>2 DEF Read, TypeOK, ThreadPCs
    <3>5. misled' \subseteq Users
      <4>1. misled' = misled \/ misled' = misled \cup {u}
        BY <2>2, Zenon DEF Read
      <4>2. QED
        BY <4>1 DEF TypeOK
    <3>6. UNCHANGED <<version, total, s, open, request, mainVars, sockfd, reg, applied>>
      BY <2>2 DEF Read
    <3>7. QED
      BY <3>2, <3>3, <3>4, <3>5, <3>6 DEF TypeOK
  <2>3. CASE WaitForParty(u) \/ HenryBegin(u) \/ P(u) \/ Load(u)
    <3>1. pc' \in [Users -> ThreadPCs]
      BY <2>3 DEF WaitForParty, HenryBegin, BeginLoop, NextOperation, P, Load, TypeOK, ThreadPCs
    <3>2. s' \in {-1, 0, 1}
      BY <2>3 DEF WaitForParty, HenryBegin, BeginLoop, P, Load, TypeOK
    <3>3. reg' = reg \/ reg' = [reg EXCEPT ![u] = total]
      BY <2>3 DEF WaitForParty, HenryBegin, BeginLoop, P, Load
    <3>4. reg' \in [Users -> Int]
      <4>1. reg \in [Users -> Int] /\ total \in Int
        BY DEF TypeOK
      <4>2. QED
        BY <3>3, <4>1
    <3>5. UNCHANGED <<version, total, open, unread, request, mainVars, sockfd, amount, times, historyVars>>
      BY <2>3 DEF WaitForParty, HenryBegin, BeginLoop, P, Load
    <3>6. QED
      BY <3>1, <3>2, <3>4, <3>5 DEF TypeOK
  <2>4. CASE Store(u)
    <3>1. total' = reg[u] + amount[u] /\ applied' = applied + amount[u]
      BY <2>4 DEF Store
    <3>2. total' \in Int /\ applied' \in Int
      <4>1. reg[u] \in Int /\ amount[u] \in Int /\ applied \in Int
        BY DEF TypeOK
      <4>2. QED
        BY <3>1, <4>1
    <3>3. pc' = [pc EXCEPT ![u] = "V"] /\ reg' = [reg EXCEPT ![u] = 0]
      BY <2>4 DEF Store
    <3>4. pc' \in [Users -> ThreadPCs] /\ reg' \in [Users -> Int]
      <4>1. pc \in [Users -> ThreadPCs] /\ reg \in [Users -> Int]
        BY DEF TypeOK
      <4>2. QED
        BY <3>3, <4>1 DEF ThreadPCs
    <3>5. UNCHANGED <<version, s, open, unread, request, mainVars, sockfd, amount, times, misled>>
      BY <2>4 DEF Store
    <3>6. QED
      BY <3>2, <3>4, <3>5 DEF TypeOK
  <2>5. CASE V(u)
    <3>1. s = 0 /\ times[u] - 1 \in Nat
      <4>1. pc[u] \in Critical /\ s # -1
        BY <2>5 DEF V, Critical
      <4>2. s # 1 /\ times[u] > 0
        BY <4>1 DEF ATMInv, LockInv
      <4>3. s \in {-1, 0, 1} /\ times[u] \in Nat
        BY DEF TypeOK
      <4>4. QED
        BY <4>1, <4>2, <4>3
    <3>2. s' = 1
      BY <2>5, <3>1 DEF V
    <3>3. times' \in [Users -> Nat] /\ pc' \in [Users -> ThreadPCs]
      BY <2>5, <3>1 DEF V, NextOperation, TypeOK, ThreadPCs
    <3>4. UNCHANGED <<version, total, open, unread, request, mainVars, sockfd, amount, reg, historyVars>>
      BY <2>5 DEF V
    <3>5. QED
      BY <3>2, <3>3, <3>4 DEF TypeOK
  <2>6. CASE Close(u)
    <3>1. open' \in [Descriptors -> Users \cup {NoOne}]
      BY <2>6 DEF Close, TypeOK, ThreadPCs
    <3>2. pc' \in [Users -> ThreadPCs] /\ sockfd' \in [Users -> Descriptors \cup {0}]
          /\ amount' \in [Users -> Int]
      BY <2>6 DEF Close, TypeOK, ThreadPCs
    <3>3. UNCHANGED <<version, total, s, unread, request, mainVars, times, reg, historyVars>>
      BY <2>6 DEF Close
    <3>4. QED
      BY <3>1, <3>2, <3>3 DEF TypeOK, ThreadPCs
  <2>7. QED
    BY <2>1, <2>2, <2>3, <2>4, <2>5, <2>6 DEF HandleClient, Operation
<1>3. LockInv'
  <2> USE DEF IInv, TypeOK, ATMInv, LockInv, Critical
  <2>1. CASE Start(u) \/ Close(u)
    BY <2>1 DEF Start, Close
  <2>2. CASE Read(u)
    <3>1. \A v \in Users : v # u => pc'[v] = pc[v] /\ times'[v] = times[v]
      BY <2>2 DEF Read
    <3>2. pc'[u] = "wait" /\ UNCHANGED <<s, total, reg>>
      BY <2>2 DEF Read
    <3>3. QED
      BY <3>1, <3>2
  <2>3. CASE WaitForParty(u) \/ HenryBegin(u)
    BY <2>3 DEF WaitForParty, HenryBegin, BeginLoop, NextOperation
  <2>4. CASE P(u)
    BY <2>4 DEF P
  <2>5. CASE Load(u)
    BY <2>5 DEF Load
  <2>6. CASE Store(u)
    <3>1. \A v \in Users : v # u => pc[v] \notin Critical
      BY <2>6 DEF Store
    <3>2. QED
      BY <2>6, <3>1 DEF Store
  <2>7. CASE V(u)
    <3>1. \A v \in Users : v # u => pc[v] \notin Critical
      BY <2>7 DEF V
    <3>2. QED
      BY <2>7, <3>1 DEF V, NextOperation
  <2>8. QED
    BY <2>1, <2>2, <2>3, <2>4, <2>5, <2>6, <2>7 DEF HandleClient, Operation
<1>4. EndInv'
  <2>1. s' = s \/ (s' # -1 /\ s # -1)
    <3>1. s \in {-1, 0, 1}
      BY DEF IInv, TypeOK
    <3>2. CASE P(u) \/ V(u)
      BY <3>1, <3>2 DEF P, V
    <3>3. CASE Start(u) \/ Read(u) \/ WaitForParty(u) \/ HenryBegin(u) \/ Load(u) \/ Store(u) \/ Close(u)
      BY <3>3 DEF Start, Read, WaitForParty, HenryBegin, BeginLoop, Load, Store, Close
    <3>4. QED
      BY <3>2, <3>3 DEF HandleClient, Operation
  <2>2. UNCHANGED <<main_pc, version>>
    BY DEF HandleClient, Operation, Start, Read, WaitForParty, HenryBegin, BeginLoop, P, Load, Store, V, Close
  <2>3. version = "lab6" => s' # -1
    BY <1>1, <2>1
  <2>4. s' = -1 => main_pc' \in {"exit", "exited"}
    BY <2>1, <2>2 DEF IInv, ATMInv, EndInv
  <2>5. QED
    BY <1>1, <2>2, <2>3, <2>4 DEF EndInv
<1>5. NoOperationLost'
  BY DEF HandleClient, Operation, Start, Read, WaitForParty, HenryBegin, BeginLoop, P, Load, Store, V, Close, IInv, TypeOK,
         ATMInv, LockInv, NoOperationLost
<1>6. QED
  BY <1>2, <1>3, <1>4, <1>5 DEF IInv, ATMInv

\* A thread that finds the semaphore removed ends the process: in lab6 no thread does.
LEMMA SemopInv ==
  ASSUME ATMAssumption, IInv, NEW u \in Users, main_pc # "exited", SemopFails(u)
  PROVE  IInv'
<1>1. UNCHANGED <<version, total, s, applied, pc, times, reg>> /\ main_pc' = "exited"
  BY DEF SemopFails, threadVars
<1>2. version # "lab6"
  BY DEF SemopFails, IInv, ATMInv, EndInv
<1>3. TypeOK'
  BY DEF SemopFails, threadVars, IInv, TypeOK
<1>4. LockInv' /\ NoOperationLost'
  BY <1>1 DEF IInv, ATMInv, LockInv, NoOperationLost, Critical
<1>5. EndInv'
  BY <1>1, <1>2 DEF EndInv
<1>6. QED
  BY <1>3, <1>4, <1>5 DEF IInv, ATMInv

\* However the threads interleave, wherever Ctrl+C comes, and whatever request a
\* thread has read through the shared pointer, nobody is inside together and
\* nobody outlives the semaphore (P, V, the loop and the join of the routine).
THEOREM ATMInvHolds == ASSUME ATMAssumption PROVE Spec => [](TypeOK /\ ATMInv)
<1>1. Init => IInv
  BY InitInv
<1>2. IInv /\ [Next]_vars => IInv'
  <2> SUFFICES ASSUME IInv, [Next]_vars PROVE IInv'
    OBVIOUS
  <2>1. CASE UNCHANGED vars
    BY <2>1 DEF vars, mainVars, threadVars, IInv, TypeOK, ATMInv, LockInv, EndInv,
                NoOperationLost
  <2>2. CASE Next
    BY <2>2, MainInv, ThreadInv, SemopInv DEF Next, ThreadStep, Enter
  <2>3. QED
    BY <2>1, <2>2
<1>3. QED
  BY <1>1, <1>2, PTL DEF Spec, IInv

\* The account is always the sum of the operations the threads executed.
THEOREM NoOperationIsLost == ASSUME ATMAssumption PROVE Spec => []NoOperationLost
<1>1. TypeOK /\ ATMInv => NoOperationLost
  BY DEF ATMInv
<1>2. QED
  BY <1>1, ATMInvHolds, PTL

\* safe_close_routine removes the semaphore only when no thread can use it.
THEOREM SemaphoreOutlives == ASSUME ATMAssumption PROVE Spec => []SemaphoreOutlivesThreads
<1>1. TypeOK /\ ATMInv => SemaphoreOutlivesThreads
  BY DEF ATMInv, EndInv, SemaphoreOutlivesThreads
<1>2. QED
  BY <1>1, ATMInvHolds, PTL

-----------------------------------------------------------------------------
(* What the account has of each request.                                   *)

LEMMA RequestsStart == ASSUME ATMAssumption, Init PROVE RequestsInv
<1>1. ShareInv
  <2>1. \A u \in Users : Share(u) = 0
    BY DEF Init, Share, Repeated, ATMAssumption
  <2>2. Shares = [u \in Users |-> 0]
    BY <2>1 DEF Shares
  <2>3. Sum(Shares) = 0
    BY <2>2, SumZero DEF ATMAssumption
  <2>4. QED
    BY <2>3 DEF ShareInv, Init
<1>2. CreatedInv /\ PrivateInv
  BY DEF Init, CreatedInv, PrivateInv
<1>3. QED
  BY <1>1, <1>2 DEF RequestsInv

\* A share is a number.
LEMMA SharesType == ASSUME ATMAssumption, TypeOK PROVE Shares \in [Users -> Int]
<1> SUFFICES ASSUME NEW u \in Users PROVE Share(u) \in Int
  BY DEF Shares
<1>1. request[u].amount \in Int /\ request[u].times \in Nat /\ times[u] \in Nat
  BY DEF TypeOK, ATMAssumption
<1>2. Repeated(u) \in Int
  BY <1>1 DEF Repeated
<1>3. QED
  BY <1>1, <1>2 DEF Share

\* A step that executes no operation leaves the shares as they are.
LEMMA SharesKept ==
  ASSUME ATMAssumption, ShareInv, misled' = {} => misled = {}, UNCHANGED <<request, applied>>,
         misled' = {} =>
           \A u \in Users :
             /\ Repeated(u)' = Repeated(u)
             /\ pc[u]' \in {"wait", "P", "load", "store", "V"} => amount[u]' = request[u].amount
             /\ pc[u]' \in {"close", "done"} => times[u]' = 0
  PROVE  ShareInv'
<1> SUFFICES ASSUME misled' = {} PROVE ShareInv'
  BY DEF ShareInv
<1>1. \A u \in Users : Share(u)' = Share(u)
  BY DEF Share
<1>2. Shares' = Shares
  BY <1>1 DEF Shares
<1>3. Sum(Shares)' = Sum(Shares)
  BY <1>2 DEF Sum, Upto
<1>4. QED
  BY <1>3 DEF ShareInv

\* Accepting, creating and ending change nobody's share.
LEMMA MainShares ==
  ASSUME ATMAssumption, IInv, RequestsInv, MainAccept \/ MainStep \/ CtrlC \/ StopParent \/ CtrlCAgain
  PROVE  ShareInv'
<1>1. UNCHANGED <<version, request, applied, misled, amount, times>>
  BY DEF MainAccept, MainStep, SafeClose, MainCreate, HenryCreate, MainCount, MainJoin, MainRemove,
         MainExit, CtrlC, StopParent, CtrlCAgain, threadVars
<1>2. \A u \in Users : pc[u]' = pc[u] \/ (pc[u] = "none" /\ pc[u]' \in {"start", "read"})
  <2>1. CASE MainCreate \/ HenryCreate
    BY <2>1 DEF MainCreate, HenryCreate, IInv, TypeOK, RequestsInv, CreatedInv
  <2>2. CASE MainAccept \/ MainCount \/ SafeClose \/ CtrlC \/ StopParent \/ CtrlCAgain
    BY <2>2 DEF MainAccept, SafeClose, MainCount, MainJoin, MainRemove, MainExit, CtrlC, StopParent,
                CtrlCAgain, threadVars
  <2>3. QED
    BY <2>1, <2>2 DEF MainStep
<1>3. \A u \in Users : Repeated(u)' = Repeated(u)
  BY <1>1, <1>2 DEF Repeated
<1>4. QED
  BY <1>1, <1>2, <1>3, SharesKept DEF RequestsInv, ShareInv

LEMMA MainPrivate ==
  ASSUME ATMAssumption, IInv, RequestsInv, MainAccept \/ MainStep \/ CtrlC \/ StopParent \/ CtrlCAgain
  PROVE  CreatedInv' /\ PrivateInv'
<1> USE DEF IInv, TypeOK, RequestsInv, CreatedInv, PrivateInv
<1>1. CASE MainAccept
  <2>1. UNCHANGED <<version, pc, sockfd, misled>> /\ main_pc' = "create" /\ accepted' = accepted + 1
        /\ unread' = unread \cup {accepted + 1}
    BY <1>1 DEF MainAccept, threadVars, Send
  <2>2. PICK fd \in Descriptors : /\ open[fd] = NoOne /\ client_socket' = fd
                                  /\ open' = [open EXCEPT ![fd] = accepted + 1]
    BY <1>1 DEF MainAccept
  <2>3. \A u \in Users : u >= accepted + 1 => pc[u] = "none"
    BY <1>1 DEF MainAccept
  <2>4. CreatedInv'
    BY <2>1, <2>3
  <2>5. PrivateInv'
    <3> SUFFICES ASSUME version = "henry" PROVE PrivateInv'
      BY <2>1
    <3>1. \A u \in Users : pc[u] \notin {"none", "done"} => sockfd[u] # fd
      BY <2>2
    <3>2. \A u \in Users : pc[u] \notin {"none", "done"} =>
            sockfd[u]' \in Descriptors /\ open'[sockfd'[u]] = u
      BY <2>1, <2>2, <3>1
    <3>3. client_socket' \in Descriptors /\ open'[client_socket'] = accepted' /\ accepted' \in unread'
      BY <2>1, <2>2
    <3>4. QED
      BY <2>1, <3>2, <3>3
  <2>6. QED
    BY <2>4, <2>5
<1>2. CASE MainCreate
  BY <1>2 DEF MainCreate, Versions
<1>3. CASE HenryCreate
  <2>1. UNCHANGED <<version, open, unread, accepted, misled>> /\ main_pc' = "accept"
    BY <1>3 DEF HenryCreate
  <2>2. /\ client_socket \in Descriptors /\ open[client_socket] = accepted /\ accepted \in unread
        /\ accepted \in Users /\ version = "henry"
    BY <1>3 DEF HenryCreate
  <2>3. /\ \A u \in Users \ {accepted} : pc[u]' = pc[u] /\ sockfd[u]' = sockfd[u]
        /\ pc'[accepted] = "read" /\ sockfd'[accepted] = client_socket
    BY <1>3, <2>2 DEF HenryCreate
  <2>4. \A u \in Users : u > accepted => u # accepted
    BY <2>2
  <2>5. CreatedInv'
    BY <2>1, <2>3, <2>4
  <2>6. PrivateInv'
    <3>1. \A u \in Users \ {accepted} :
            pc[u]' \notin {"none", "done"} => sockfd[u]' \in Descriptors /\ open'[sockfd'[u]] = u
      <4>1. \A u \in Users : pc[u] \notin {"none", "done"} => sockfd[u] \in Descriptors /\ open[sockfd[u]] = u
        BY <2>2
      <4>2. QED
        BY <2>1, <2>3, <4>1
    <3>2. sockfd'[accepted] \in Descriptors /\ open'[sockfd'[accepted]] = accepted
      BY <2>1, <2>2, <2>3
    <3>3. \A u \in Users : pc[u]' # "start" /\ (pc[u]' = "read" => u \in unread')
      <4>1. \A u \in Users : pc[u] # "start" /\ (pc[u] = "read" => u \in unread)
        BY <2>2
      <4>2. QED
        <5> SUFFICES ASSUME NEW u \in Users PROVE pc[u]' # "start" /\ (pc[u]' = "read" => u \in unread')
          OBVIOUS
        <5>1. CASE u = accepted
          <6>1. pc[u]' = "read"
            BY <2>3, <5>1, Zenon
          <6>2. QED
            BY <2>1, <2>2, <5>1, <6>1
        <5>2. CASE u # accepted
          BY <2>1, <2>3, <4>1, <5>2
        <5>3. QED
          BY <5>1, <5>2
    <3>4. ASSUME NEW u \in Users, pc[u]' \notin {"none", "done"}
          PROVE  sockfd[u]' \in Descriptors /\ open'[sockfd'[u]] = u
      <4>1. CASE u = accepted
        BY <3>2, <4>1, Zenon
      <4>2. CASE u # accepted
        BY <3>1, <3>4, <4>2
      <4>3. QED
        BY <4>1, <4>2
    <3>5. QED
      BY <2>1, <2>2, <3>3, <3>4
  <2>7. QED
    BY <2>5, <2>6
<1>4. CASE MainCount \/ SafeClose \/ CtrlC \/ StopParent \/ CtrlCAgain
  <2>1. UNCHANGED <<version, open, unread, accepted, misled, pc, sockfd, client_socket>> /\ main_pc' # "create"
    BY <1>4 DEF MainCount, SafeClose, MainJoin, MainRemove, MainExit, CtrlC, StopParent, CtrlCAgain, threadVars
  <2>2. QED
    BY <2>1
<1>5. QED
  BY <1>1, <1>2, <1>3, <1>4 DEF MainStep

\* One time more.
LEMMA Distributes == ASSUME NEW a \in Int PROVE \A n \in Int : a * (n + 1) = a * n + a
OBVIOUS

\* An operation adds to the share of the user whose it is what the account gets.
LEMMA StoreShares ==
  ASSUME ATMAssumption, IInv, RequestsInv, NEW u \in Users, Store(u)
  PROVE  ShareInv'
<1> SUFFICES ASSUME misled = {} PROVE ShareInv'
  BY DEF Store, ShareInv
<1> DEFINE f == Shares
           a == amount[u]
<1>1. /\ UNCHANGED <<request, times, amount, misled>>
      /\ \A v \in Users \ {u} : pc[v]' = pc[v]
      /\ pc[u] = "store" /\ pc[u]' = "V" /\ applied' = applied + amount[u]
  BY DEF Store, IInv, TypeOK
<1>2. a = request[u].amount /\ a \in Int /\ request[u].times \in Nat /\ times[u] \in Nat
  BY <1>1 DEF RequestsInv, ShareInv, IInv, TypeOK, ATMAssumption
<1>3. \A v \in Users \ {u} : Share(v)' = Share(v)
  BY <1>1 DEF Share, Repeated
<1>4. Share(u)' = Share(u) + a
  <2>1. Repeated(u) = request[u].times - times[u] /\ Repeated(u)' = request[u].times - times[u] + 1
    BY <1>1 DEF Repeated
  <2>2. \A n \in Int : a * (n + 1) = a * n + a
    BY <1>2, Distributes
  <2>3. QED
    BY <1>1, <1>2, <2>1, <2>2 DEF Share
<1>5. Shares' = [f EXCEPT ![u] = f[u] + a]
  BY <1>3, <1>4 DEF Shares
<1>6. f \in [Users -> Int]
  BY SharesType DEF IInv
<1> HIDE DEF f
<1>7. Sum([f EXCEPT ![u] = f[u] + a]) = Sum(f) + a
  BY <1>2, <1>6, SumChanged DEF ATMAssumption
<1>8. Sum(Shares)' = Sum([f EXCEPT ![u] = f[u] + a])
  BY <1>5 DEF Sum, Upto
<1>9. applied = Sum(f)
  BY DEF RequestsInv, ShareInv, f
<1>10. QED
  BY <1>1, <1>2, <1>7, <1>8, <1>9 DEF RequestsInv, ShareInv

\* The other steps of a thread: Read gives it its request, V counts the operation.
LEMMA ThreadShares ==
  ASSUME ATMAssumption, IInv, RequestsInv, NEW u \in Users, HandleClient(u) \/ P(u) \/ SemopFails(u)
  PROVE  ShareInv'
<1> USE DEF IInv, TypeOK
<1>0. request[u].amount \in Int /\ request[u].times \in Nat /\ times[u] \in Nat
  BY DEF ATMAssumption
<1>1. CASE Store(u)
  BY <1>1, StoreShares
<1>2. CASE Read(u)
  <2>1. /\ UNCHANGED <<request, applied>> /\ misled \subseteq misled'
        /\ \A v \in Users \ {u} : pc[v]' = pc[v] /\ amount[v]' = amount[v] /\ times[v]' = times[v]
        /\ pc[u] = "read" /\ pc[u]' = "wait"
    BY <1>2 DEF Read
  <2>2. misled' = {} => amount[u]' = request[u].amount /\ times[u]' = request[u].times
    <3>1. SUFFICES ASSUME misled' = {}
                   PROVE  amount[u]' = request[u].amount /\ times[u]' = request[u].times
      OBVIOUS
    <3> DEFINE from == open[sockfd[u]]
    <3>2. PICK r \in IF from \in unread THEN {request[from]} ELSE Garbage :
            /\ amount' = [amount EXCEPT ![u] = r.amount] /\ times' = [times EXCEPT ![u] = r.times]
            /\ misled' = IF from \in unread /\ from = u THEN misled ELSE misled \cup {u}
      BY <1>2 DEF Read
    <3>3. from \in unread /\ from = u
      BY <3>1, <3>2
    <3>4. r = request[u]
      BY <3>2, <3>3
    <3> HIDE DEF from
    <3>5. QED
      BY <3>2, <3>4
  <2>3. misled' = {} => \A v \in Users : Repeated(v)' = Repeated(v)
    <3>1. \A v \in Users \ {u} : Repeated(v)' = Repeated(v)
      BY <2>1 DEF Repeated
    <3>2. misled' = {} => Repeated(u)' = 0
      <4>1. Repeated(u)' = request[u].times - times[u]'
        BY <2>1 DEF Repeated
      <4>2. request[u].times - request[u].times = 0
        BY <1>0
      <4>3. QED
        BY <2>2, <4>1, <4>2
    <3>3. Repeated(u) = 0
      BY <2>1 DEF Repeated
    <3>4. QED
      BY <3>1, <3>2, <3>3
  <2>4. QED
    BY <2>1, <2>2, <2>3, SharesKept DEF RequestsInv, ShareInv
<1>3. CASE V(u)
  <2>1. /\ UNCHANGED <<request, applied, misled, amount>>
        /\ \A v \in Users \ {u} : pc[v]' = pc[v] /\ times[v]' = times[v]
        /\ pc[u] = "V" /\ times[u]' = times[u] - 1
        /\ pc[u]' = IF times[u] - 1 > 0 THEN "P" ELSE "close"
    BY <1>3 DEF V, NextOperation
  <2>2. times[u] > 0
    BY <2>1 DEF ATMInv, LockInv, Critical
  <2>3. Repeated(u)' = Repeated(u)
    BY <1>0, <2>1 DEF Repeated
  <2>4. \A v \in Users : Repeated(v)' = Repeated(v)
    BY <2>1, <2>3 DEF Repeated
  <2>5. pc[u]' = "close" => times[u]' = 0
    <3>1. ~(times[u] - 1 > 0) => times[u] - 1 = 0
      BY <1>0, <2>2
    <3>2. QED
      BY <2>1, <3>1
  <2>6. QED
    BY <2>1, <2>4, <2>5, SharesKept DEF RequestsInv, ShareInv
<1>4. CASE WaitForParty(u) \/ HenryBegin(u)
  <2>1. /\ UNCHANGED <<request, applied, misled, amount, times>>
        /\ \A v \in Users \ {u} : pc[v]' = pc[v]
        /\ pc[u] = "wait" /\ pc[u]' = IF times[u] > 0 THEN "P" ELSE "close"
    BY <1>4 DEF WaitForParty, HenryBegin, BeginLoop, NextOperation
  <2>2. \A v \in Users : Repeated(v)' = Repeated(v)
    BY <2>1 DEF Repeated
  <2>3. pc[u]' = "close" => times[u]' = 0
    <3>1. ~(times[u] > 0) => times[u] = 0
      BY <1>0
    <3>2. QED
      BY <2>1, <3>1
  <2>4. QED
    BY <2>1, <2>2, <2>3, SharesKept DEF RequestsInv, ShareInv
<1>5. CASE Start(u) \/ P(u) \/ Load(u) \/ Close(u) \/ SemopFails(u)
  <2>1. /\ UNCHANGED <<request, applied, misled, times>>
        /\ \A v \in Users \ {u} : pc[v]' = pc[v] /\ amount[v]' = amount[v]
        /\ pc[u]' # "done" => amount[u]' = amount[u]
        /\ \/ pc[u]' = pc[u]
           \/ pc[u] = "start" /\ pc[u]' = "read"
           \/ pc[u] \in {"P", "load"} /\ pc[u]' \in {"load", "store"}
           \/ pc[u] = "close" /\ pc[u]' = "done"
    <3>1. CASE Start(u) \/ P(u) \/ Load(u)
      BY <3>1 DEF Start, P, Load
    <3>2. CASE Close(u)
      BY <3>2 DEF Close
    <3>3. CASE SemopFails(u)
      BY <3>3 DEF SemopFails, threadVars
    <3>4. QED
      BY <1>5, <3>1, <3>2, <3>3
  <2>2. \A v \in Users : Repeated(v)' = Repeated(v)
    BY <2>1 DEF Repeated
  <2>3. QED
    BY <2>1, <2>2, SharesKept DEF RequestsInv, ShareInv
<1>6. QED
  BY <1>1, <1>2, <1>3, <1>4, <1>5 DEF HandleClient, Operation

LEMMA ThreadPrivate ==
  ASSUME ATMAssumption, IInv, RequestsInv, NEW u \in Users, HandleClient(u) \/ P(u) \/ SemopFails(u)
  PROVE  CreatedInv' /\ PrivateInv'
<1> USE DEF IInv, TypeOK, RequestsInv
<1>1. /\ \A v \in Users \ {u} : pc[v]' = pc[v] /\ sockfd[v]' = sockfd[v]
      /\ pc[u] # "none" /\ UNCHANGED <<version, accepted, client_socket>>
      /\ main_pc' = main_pc \/ main_pc' = "exited"
  <2>1. CASE Start(u)
    BY <2>1 DEF Start, mainVars
  <2>2. CASE Read(u)
    <3>1. UNCHANGED <<sockfd, version, mainVars>> /\ pc' = [pc EXCEPT ![u] = "wait"] /\ pc[u] = "read"
      BY <2>2 DEF Read
    <3>2. QED
      BY <3>1 DEF mainVars
  <2>3. CASE WaitForParty(u) \/ HenryBegin(u) \/ P(u) \/ Load(u) \/ Store(u) \/ V(u)
    BY <2>3 DEF WaitForParty, HenryBegin, BeginLoop, P, Load, Store, V, mainVars
  <2>4. CASE Close(u)
    BY <2>4 DEF Close, mainVars
  <2>5. CASE SemopFails(u)
    BY <2>5 DEF SemopFails, threadVars
  <2>6. QED
    BY <2>1, <2>2, <2>3, <2>4, <2>5 DEF HandleClient, Operation
<1>2. CreatedInv'
  BY <1>1 DEF CreatedInv
<1>3. PrivateInv'
  <2> SUFFICES ASSUME version = "henry" PROVE PrivateInv'
    BY <1>1 DEF PrivateInv
  <2> USE DEF PrivateInv
  <2>1. CASE Start(u)
    BY <2>1 DEF Start
  <2>2. CASE Read(u)
    <3>1. UNCHANGED <<version, open, sockfd, mainVars>> /\ pc' = [pc EXCEPT ![u] = "wait"] /\ pc[u] = "read"
      BY <2>2 DEF Read
    <3>2. open[sockfd[u]] = u /\ u \in unread
      BY <3>1
    <3>3. misled' = misled
      BY <2>2, <3>2, Zenon DEF Read
    <3>4. unread' = unread \ {u}
      BY <2>2, <3>2 DEF Read
    <3>5. \A v \in Users : pc[v]' = "read" => v \in unread'
      BY <3>1, <3>4
    <3>6. main_pc' = "create" => accepted' \in unread'
      BY <1>1, <3>1, <3>4 DEF mainVars, CreatedInv
    <3>7. QED
      BY <3>1, <3>3, <3>5, <3>6 DEF mainVars
  <2>3. CASE WaitForParty(u) \/ HenryBegin(u) \/ P(u) \/ Load(u) \/ Store(u) \/ V(u)
    <3>1. /\ UNCHANGED <<version, open, unread, sockfd, mainVars, misled>>
          /\ \A v \in Users \ {u} : pc[v]' = pc[v]
          /\ pc[u]' \in {"P", "load", "store", "V", "close"} /\ pc[u] \notin {"none", "done"}
      BY <2>3 DEF WaitForParty, HenryBegin, BeginLoop, NextOperation, P, Load, Store, V
    <3>2. QED
      BY <3>1 DEF mainVars
  <2>4. CASE Close(u)
    <3>1. /\ UNCHANGED <<unread, mainVars, misled>> /\ pc' = [pc EXCEPT ![u] = "done"] /\ pc[u] = "close"
          /\ open' = [open EXCEPT ![sockfd[u]] = NoOne]
      BY <2>4 DEF Close
    <3>2. open[sockfd[u]] = u /\ open \in [Descriptors -> Users \cup {NoOne}]
      BY <3>1
    <3>3. \A v \in Users \ {u} : pc[v] \notin {"none", "done"} =>
            sockfd[v]' \in Descriptors /\ open'[sockfd'[v]] = v
      <4> SUFFICES ASSUME NEW v \in Users \ {u}, pc[v] \notin {"none", "done"}
                   PROVE  sockfd[v]' \in Descriptors /\ open'[sockfd'[v]] = v
        OBVIOUS
      <4>1. sockfd[v] \in Descriptors /\ open[sockfd[v]] = v /\ sockfd[u] \in Descriptors
        BY <3>1
      <4>2. sockfd[v] # sockfd[u]
        BY <3>2, <4>1
      <4>3. QED
        BY <1>1, <3>1, <4>1, <4>2
    <3>4. main_pc' = "create" => client_socket' \in Descriptors /\ open'[client_socket'] = accepted'
      <4> SUFFICES ASSUME main_pc = "create"
                   PROVE  client_socket' \in Descriptors /\ open'[client_socket'] = accepted'
        BY <3>1 DEF mainVars
      <4>1. open[client_socket] = accepted /\ client_socket \in Descriptors
        OBVIOUS
      <4>2. accepted # u
        BY <1>1, <3>1 DEF CreatedInv
      <4>3. QED
        BY <3>1, <3>2, <4>1, <4>2 DEF mainVars
    <3>5. QED
      BY <1>1, <3>1, <3>3, <3>4 DEF mainVars
  <2>5. CASE SemopFails(u)
    BY <2>5 DEF SemopFails, threadVars
  <2>6. QED
    BY <2>1, <2>2, <2>3, <2>4, <2>5 DEF HandleClient, Operation
<1>4. QED
  BY <1>2, <1>3

\* When everybody is done the shares are the requests.
LEMMA SharesAreRequests == ASSUME ATMAssumption, IInv, RequestsInv PROVE RequestsExecuted
<1> SUFFICES ASSUME misled = {} \/ version = "henry", \A u \in 1..accepted : pc[u] = "done"
             PROVE  total = SumOfRequests
  BY DEF RequestsExecuted
<1> DEFINE asked == [u \in Users |-> IF u <= accepted THEN request[u].amount * request[u].times ELSE 0]
<1>1. misled = {}
  BY DEF RequestsInv, PrivateInv
<1>2. ASSUME NEW u \in Users PROVE Share(u) = asked[u]
  <2>1. request[u].amount \in Int /\ request[u].times \in Nat /\ times[u] \in Nat
    BY DEF IInv, TypeOK, ATMAssumption
  <2>2. CASE u <= accepted
    <3>1. pc[u] = "done" /\ times[u] = 0
      BY <1>1, <2>2 DEF RequestsInv, ShareInv, IInv, TypeOK
    <3>2. Repeated(u) = request[u].times
      BY <2>1, <3>1 DEF Repeated
    <3>3. QED
      BY <2>2, <3>2 DEF Share
  <2>3. CASE ~(u <= accepted)
    <3>1. pc[u] = "none"
      BY <2>3 DEF RequestsInv, CreatedInv, IInv, TypeOK
    <3>2. Repeated(u) = 0
      BY <3>1 DEF Repeated
    <3>3. request[u].amount * 0 = 0
      BY <2>1
    <3>4. QED
      BY <2>3, <3>2, <3>3 DEF Share
  <2>4. QED
    BY <2>2, <2>3
<1>3. Shares = asked
  BY <1>2 DEF Shares
<1>4. QED
  BY <1>1, <1>3 DEF RequestsInv, ShareInv, IInv, ATMInv, NoOperationLost, SumOfRequests

\* Whenever everybody accepted is served, the account is the sum of what they
\* asked for, if every thread read its own request, as those of henry.c do.
THEOREM RequestsAreExecuted == ASSUME ATMAssumption PROVE Spec => []RequestsExecuted
<1>1. Init => RequestsInv
  BY RequestsStart
<1>2. IInv /\ RequestsInv /\ [Next]_vars => RequestsInv'
  <2> SUFFICES ASSUME IInv, RequestsInv, [Next]_vars PROVE RequestsInv'
    OBVIOUS
  <2>1. CASE UNCHANGED vars
    <3> USE <2>1 DEF vars, mainVars, threadVars
    <3>1. ShareInv'
      <4>1. \A u \in Users : Repeated(u)' = Repeated(u)
        BY DEF Repeated
      <4>2. QED
        BY <4>1, SharesKept DEF RequestsInv, ShareInv
    <3>2. CreatedInv' /\ PrivateInv'
      BY DEF RequestsInv, CreatedInv, PrivateInv
    <3>3. QED
      BY <3>1, <3>2 DEF RequestsInv
  <2>2. CASE Next
    <3>1. ShareInv'
      BY <2>2, MainShares, ThreadShares DEF Next, ThreadStep, Enter
    <3>2. CreatedInv' /\ PrivateInv'
      BY <2>2, MainPrivate, ThreadPrivate DEF Next, ThreadStep, Enter
    <3>3. QED
      BY <3>1, <3>2 DEF RequestsInv
  <2>3. QED
    BY <2>1, <2>2
<1>3. IInv /\ RequestsInv => RequestsExecuted
  BY SharesAreRequests
<1>4. Spec => []IInv
  BY ATMInvHolds, PTL DEF IInv
<1>5. QED
  BY <1>1, <1>2, <1>3, <1>4, PTL DEF Spec

-----------------------------------------------------------------------------
(* The orders of a client (OrderSession).                                  *)

\* The sizes of the sets of items.
LEMMA Sizes ==
  ASSUME NEW S \in SUBSET Menu
  PROVE  /\ IsFiniteSet(S) /\ Cardinality(S) \in Nat
         /\ Cardinality(S) <= Cardinality(Menu) /\ Cardinality(Menu) \in Nat
         /\ Cardinality(S) = 0 => S = {}
         /\ \A x \in S : S \ {x} \in SUBSET Menu /\ Cardinality(S \ {x}) = Cardinality(S) - 1
BY OrderAssumption, FS_Subset, FS_CardinalityType, FS_EmptySet, FS_RemoveElement

\* What holds of the sets of n + 1 items if it holds of those of n items, and of
\* none, holds of all.
LEMMA SizeInduction ==
  ASSUME NEW T \in SUBSET Nat, 0 \in T, \A n \in T : n + 1 \in T
  PROVE  \A S \in SUBSET Menu : Cardinality(S) \in T
BY SetInduction, Sizes

LEMMA NotEmpty ==
  ASSUME NEW n \in Nat, NEW S \in SUBSET Menu, Cardinality(S) = n + 1
  PROVE  S # {}
BY FS_EmptySet

First(S) == CHOOSE item \in S : TRUE

\* sum is right for the sets of at most n items.
Adds(sum, f, n) ==
  \A S \in SUBSET Menu : Cardinality(S) <= n =>
    sum[S] = IF S = {} THEN 0 ELSE f[First(S)] + sum[S \ {First(S)}]

LEMMA FirstIn == ASSUME NEW S, S # {} PROVE First(S) \in S
BY DEF First

\* There are sums of any numbers.
LEMMA SumExists ==
  ASSUME NEW f \in [Menu -> Int]
  PROVE  \E sum \in [SUBSET Menu -> Int] : Adds(sum, f, Cardinality(Menu))
<1> DEFINE T == {n \in Nat : \E sum \in [SUBSET Menu -> Int] : Adds(sum, f, n)}
<1>1. 0 \in T
  <2>1. [S \in SUBSET Menu |-> 0] \in [SUBSET Menu -> Int] OBVIOUS
  <2>2. Adds([S \in SUBSET Menu |-> 0], f, 0)
    <3> SUFFICES ASSUME NEW S \in SUBSET Menu, Cardinality(S) <= 0 PROVE S = {} BY DEF Adds
    <3> QED BY Sizes
  <2> QED BY <2>1, <2>2
<1>2. ASSUME NEW n \in T PROVE n + 1 \in T
  <2>1. PICK sum \in [SUBSET Menu -> Int] : Adds(sum, f, n) OBVIOUS
  <2> DEFINE more == [S \in SUBSET Menu |->
                        IF Cardinality(S) = n + 1 THEN f[First(S)] + sum[S \ {First(S)}] ELSE sum[S]]
  <2>2. ASSUME NEW S \in SUBSET Menu, S # {}
        PROVE  /\ First(S) \in S /\ S \ {First(S)} \in SUBSET Menu
               /\ Cardinality(S \ {First(S)}) = Cardinality(S) - 1 /\ Cardinality(S) \in Nat
               /\ f[First(S)] + sum[S \ {First(S)}] \in Int
    <3>1. First(S) \in S /\ S \ {First(S)} \in SUBSET Menu BY <2>2, FirstIn
    <3>2. f[First(S)] \in Int /\ sum[S \ {First(S)}] \in Int BY <3>1
    <3> QED BY <3>1, <3>2, Sizes
  <2>3. more \in [SUBSET Menu -> Int]
    <3> SUFFICES ASSUME NEW S \in SUBSET Menu, Cardinality(S) = n + 1
                 PROVE  f[First(S)] + sum[S \ {First(S)}] \in Int
      OBVIOUS
    <3>0. n \in Nat OBVIOUS
    <3>1. S # {} BY <3>0, NotEmpty
    <3> QED BY <2>2, <3>1
  <2>4. Adds(more, f, n + 1)
    <3> SUFFICES ASSUME NEW S \in SUBSET Menu, Cardinality(S) <= n + 1
                 PROVE  more[S] = IF S = {} THEN 0 ELSE f[First(S)] + more[S \ {First(S)}]
      BY DEF Adds
    <3>1. Cardinality(S) \in Nat BY Sizes
    <3>2. S = {} => Cardinality(S) = 0 BY FS_EmptySet
    <3>3. S # {} => more[S \ {First(S)}] = sum[S \ {First(S)}]
      <4> SUFFICES ASSUME S # {} PROVE more[S \ {First(S)}] = sum[S \ {First(S)}] OBVIOUS
      <4>1. Cardinality(S \ {First(S)}) # n + 1 /\ S \ {First(S)} \in SUBSET Menu BY <2>2, <3>1
      <4> QED BY <4>1
    <3>4. CASE Cardinality(S) = n + 1
      <4>1. S # {} BY <3>2, <3>4
      <4> QED BY <3>3, <3>4, <4>1
    <3>5. CASE Cardinality(S) # n + 1
      <4>1. Cardinality(S) <= n BY <3>1, <3>5
      <4>2. sum[S] = IF S = {} THEN 0 ELSE f[First(S)] + sum[S \ {First(S)}] BY <2>1, <4>1 DEF Adds
      <4> QED BY <3>3, <3>5, <4>2
    <3> QED BY <3>4, <3>5
  <2> HIDE DEF more
  <2> QED BY <2>3, <2>4
<1> HIDE DEF T
<1>3. T = Nat BY <1>1, <1>2, SetInduction DEF T
<1>4. Cardinality(Menu) \in T BY <1>3, Sizes
<1> QED BY <1>4 DEF T

\* The recursive function SumOver computes them.
LEMMA SumsAre ==
  ASSUME NEW f \in [Menu -> Int]
  PROVE  /\ \A S \in SUBSET Menu : SumOver(f)[S] \in Int
         /\ SumOver(f)[{}] = 0
         /\ \A S \in SUBSET Menu : S # {} =>
              SumOver(f)[S] = f[First(S)] + SumOver(f)[S \ {First(S)}]
<1> DEFINE Is(sum) ==
      sum = [S \in SUBSET Menu |->
               IF S = {} THEN 0 ELSE f[CHOOSE item \in S : TRUE] + sum[S \ {CHOOSE item \in S : TRUE}]]
<1>1. SumOver(f) = CHOOSE sum : Is(sum) BY DEF SumOver
<1>2. \E sum : Is(sum)
  <2>1. PICK sum \in [SUBSET Menu -> Int] : Adds(sum, f, Cardinality(Menu)) BY SumExists
  <2>2. \A S \in SUBSET Menu :
          sum[S] = IF S = {} THEN 0 ELSE f[First(S)] + sum[S \ {First(S)}]
    BY <2>1, Sizes DEF Adds
  <2>3. sum = [S \in SUBSET Menu |-> IF S = {} THEN 0 ELSE f[First(S)] + sum[S \ {First(S)}]]
    BY <2>2
  <2>4. Is(sum) BY <2>3 DEF First
  <2> HIDE DEF Is
  <2> QED BY <2>4
<1> HIDE DEF Is
<1>3. Is(SumOver(f)) BY <1>1, <1>2
<1> DEFINE sum == SumOver(f)
<1>4. sum = [S \in SUBSET Menu |-> IF S = {} THEN 0 ELSE f[First(S)] + sum[S \ {First(S)}]]
  BY <1>3 DEF Is, First
<1> HIDE DEF sum
<1>5. /\ sum[{}] = 0
      /\ \A S \in SUBSET Menu : S # {} => sum[S] = f[First(S)] + sum[S \ {First(S)}]
  BY <1>4
<1> DEFINE T == {n \in Nat : \A S \in SUBSET Menu : Cardinality(S) = n => sum[S] \in Int}
<1>6. 0 \in T
  <2>1. \A S \in SUBSET Menu : Cardinality(S) = 0 => sum[S] = 0 BY <1>5, Sizes
  <2> QED BY <2>1
<1>7. ASSUME NEW n \in T PROVE n + 1 \in T
  <2> SUFFICES ASSUME NEW S \in SUBSET Menu, Cardinality(S) = n + 1 PROVE sum[S] \in Int
    OBVIOUS
  <2>0. n \in Nat OBVIOUS
  <2>1. S # {} BY <2>0, NotEmpty
  <2>2. First(S) \in S BY <2>1, FirstIn
  <2>3. S \ {First(S)} \in SUBSET Menu /\ Cardinality(S \ {First(S)}) = n BY <2>2, Sizes
  <2>4. sum[S \ {First(S)}] \in Int BY <2>3
  <2>5. f[First(S)] \in Int BY <2>2
  <2>6. sum[S] = f[First(S)] + sum[S \ {First(S)}] BY <1>5, <2>1
  <2> QED BY <2>4, <2>5, <2>6
<1>8. \A S \in SUBSET Menu : Cardinality(S) \in T
  <2> HIDE DEF T
  <2> QED BY <1>6, <1>7, SizeInduction DEF T
<1>9. \A S \in SUBSET Menu : sum[S] \in Int BY <1>8
<1> QED BY <1>5, <1>9 DEF sum

\* Any item may be the first.
LEMMA SumSplits ==
  ASSUME NEW f \in [Menu -> Int], NEW S \in SUBSET Menu, NEW x \in S
  PROVE  SumOver(f)[S] = f[x] + SumOver(f)[S \ {x}]
<1> DEFINE sum == SumOver(f)
           T == {n \in Nat : \A R \in SUBSET Menu : \A y \in R :
                               Cardinality(R) = n => sum[R] = f[y] + sum[R \ {y}]}
<1>1. /\ \A R \in SUBSET Menu : sum[R] \in Int
      /\ \A R \in SUBSET Menu : R # {} => sum[R] = f[First(R)] + sum[R \ {First(R)}]
  BY SumsAre
<1> HIDE DEF sum
<1>2. 0 \in T BY Sizes
<1>3. ASSUME NEW n \in T PROVE n + 1 \in T
  <2> SUFFICES ASSUME NEW R \in SUBSET Menu, NEW y \in R, Cardinality(R) = n + 1
               PROVE  sum[R] = f[y] + sum[R \ {y}]
    OBVIOUS
  <2> DEFINE z == First(R)
  <2>1. z \in R /\ sum[R] = f[z] + sum[R \ {z}] BY <1>1, FirstIn
  <2> HIDE DEF z
  <2>2. CASE y # z
    <3> DEFINE rest == (R \ {y}) \ {z}
    <3>1. /\ R \ {z} \in SUBSET Menu /\ R \ {y} \in SUBSET Menu /\ rest \in SUBSET Menu
          /\ y \in R \ {z} /\ z \in R \ {y} /\ (R \ {z}) \ {y} = rest
      BY <2>1, <2>2
    <3>2. Cardinality(R \ {z}) = n /\ Cardinality(R \ {y}) = n
      <4>1. n \in Nat /\ z \in R /\ y \in R BY <2>1
      <4>2. Cardinality(R \ {z}) = (n + 1) - 1 /\ Cardinality(R \ {y}) = (n + 1) - 1 BY <4>1, Sizes
      <4> QED BY <4>1, <4>2
    <3>3. sum[R \ {z}] = f[y] + sum[rest] BY <3>1, <3>2
    <3>4. sum[R \ {y}] = f[z] + sum[rest] BY <3>1, <3>2
    <3>5. f[y] \in Int /\ f[z] \in Int /\ sum[rest] \in Int BY <1>1, <2>1, <3>1
    <3> HIDE DEF rest
    <3> QED BY <2>1, <3>3, <3>4, <3>5
  <2> QED BY <2>1, <2>2
<1>4. Cardinality(S) \in T
  <2> HIDE DEF T
  <2> QED BY <1>2, <1>3, SizeInduction DEF T
<1> QED BY <1>4 DEF sum

\* The sum depends on the numbers of the items in the set alone.
LEMMA SumAgrees ==
  ASSUME NEW f \in [Menu -> Int], NEW g \in [Menu -> Int], NEW S \in SUBSET Menu,
         \A x \in S : f[x] = g[x]
  PROVE  SumOver(f)[S] = SumOver(g)[S]
<1> DEFINE T == {n \in Nat : \A R \in SUBSET S :
                   Cardinality(R) = n => SumOver(f)[R] = SumOver(g)[R]}
<1>1. 0 \in T BY Sizes, SumsAre
<1>2. ASSUME NEW n \in T PROVE n + 1 \in T
  <2> SUFFICES ASSUME NEW R \in SUBSET S, Cardinality(R) = n + 1
               PROVE  SumOver(f)[R] = SumOver(g)[R]
    OBVIOUS
  <2>0. n \in Nat /\ R \in SUBSET Menu OBVIOUS
  <2>1. PICK x \in R : TRUE BY <2>0, NotEmpty
  <2>2. R \ {x} \in SUBSET S /\ Cardinality(R \ {x}) = n BY Sizes
  <2>3. SumOver(f)[R \ {x}] = SumOver(g)[R \ {x}] BY <2>2
  <2> QED BY <2>1, <2>3, SumSplits
<1>3. Cardinality(S) \in T
  <2> HIDE DEF T
  <2> QED BY <1>1, <1>2, SizeInduction DEF T
<1> QED BY <1>3

\* Items without a number can be left out.
LEMMA ZerosDropped ==
  ASSUME NEW f \in [Menu -> Int], NEW Q \in SUBSET Menu, \A x \in Menu \ Q : f[x] = 0
  PROVE  SumOver(f)[Menu] = SumOver(f)[Q]
<1> DEFINE sum == SumOver(f)
           T == {n \in Nat : \A R \in SUBSET Menu :
                   Cardinality(R) = n /\ Q \subseteq R => sum[R] = sum[Q]}
<1>0. \A R \in SUBSET Menu : sum[R] \in Int /\ \A x \in R : sum[R] = f[x] + sum[R \ {x}]
  BY SumsAre, SumSplits
<1> HIDE DEF sum
<1>1. 0 \in T
  <2> SUFFICES ASSUME NEW R \in SUBSET Menu, Cardinality(R) = 0, Q \subseteq R PROVE R = Q OBVIOUS
  <2> QED BY Sizes
<1>2. ASSUME NEW n \in T PROVE n + 1 \in T
  <2> SUFFICES ASSUME NEW R \in SUBSET Menu, Cardinality(R) = n + 1, Q \subseteq R, R # Q
               PROVE  sum[R] = sum[Q]
    OBVIOUS
  <2>1. PICK x \in R : x \notin Q OBVIOUS
  <2>2. R \ {x} \in SUBSET Menu /\ Cardinality(R \ {x}) = n /\ Q \subseteq R \ {x} BY <2>1, Sizes
  <2>3. sum[R \ {x}] = sum[Q] BY <2>2
  <2>4. sum[R] = f[x] + sum[R \ {x}] /\ f[x] = 0 /\ sum[R \ {x}] \in Int BY <1>0, <2>1, <2>2
  <2> QED BY <2>3, <2>4
<1>3. Cardinality(Menu) \in T
  <2> HIDE DEF T
  <2> QED BY <1>1, <1>2, SizeInduction DEF T
<1> QED BY <1>3 DEF sum

\* One number is changed.
LEMMA SumOverChanged ==
  ASSUME NEW f \in [Menu -> Int], NEW x \in Menu, NEW d \in Int
  PROVE  SumOver([f EXCEPT ![x] = f[x] + d])[Menu] = SumOver(f)[Menu] + d
<1> DEFINE g == [f EXCEPT ![x] = f[x] + d]
           rest == Menu \ {x}
<1>1. g \in [Menu -> Int] /\ g[x] = f[x] + d /\ \A y \in rest : g[y] = f[y] OBVIOUS
<1> HIDE DEF g
<1>2. SumOver(g)[rest] = SumOver(f)[rest] BY <1>1, SumAgrees
<1>3. SumOver(g)[Menu] = g[x] + SumOver(g)[rest] BY <1>1, SumSplits
<1>4. SumOver(f)[Menu] = f[x] + SumOver(f)[rest] BY SumSplits
<1>5. SumOver(f)[rest] \in Int /\ f[x] \in Int BY SumsAre
<1> HIDE DEF rest
<1>6. SumOver(g)[Menu] = SumOver(f)[Menu] + d BY <1>1, <1>2, <1>3, <1>4, <1>5
<1> QED BY <1>6 DEF g

LEMMA PricesDistribute ==
  ASSUME NEW a \in Int, NEW b \in Int, NEW c \in Int
  PROVE  a * (b + c) = a * b + a * c /\ a * b \in Int /\ a * c \in Int
OBVIOUS

\* An order of one shop, whose price is that of its items.
Books(o) ==
  /\ \A item \in Menu : o.total[item] # 0 => ShopOf[item] = o.initial_shop
  /\ o.total_price = SumOver(Prices(o))[Menu]

LEMMA PricesType == ASSUME NEW o \in Order PROVE Prices(o) \in [Menu -> Int]
<1> SUFFICES ASSUME NEW item \in Menu PROVE PriceOf[item] * o.total[item] \in Int BY DEF Prices
<1>1. PriceOf[item] \in Int /\ o.total[item] \in Int BY OrderAssumption DEF Order
<1> QED BY <1>1

\* update_num_price keeps the books, and the shop and the distance as they are.
LEMMA AddItemBooks ==
  ASSUME NEW o \in Order, NEW item, NEW quantity \in Quantities \cup {NoQuantity}, Books(o)
  PROVE  LET added == AddItem(o, item, quantity)
         IN  /\ added \in Order /\ Books(added)
             /\ added.first_order = o.first_order /\ added.initial_shop = o.initial_shop
             /\ added.distance = o.distance
<1>1. CASE ShopName(item) = o.initial_shop /\ quantity # NoQuantity /\ item \in Menu
  <2> DEFINE added == AddItem(o, item, quantity)
             x == PriceOf[item] * quantity
             f == Prices(o)
  <2>1. quantity \in Int /\ PriceOf[item] \in Int /\ ShopOf[item] = o.initial_shop
        /\ o.total \in [Menu -> Int] /\ o.total[item] \in Int /\ o.total_price \in Int
    BY <1>1, OrderAssumption DEF ShopName, Order
  <2>2. x \in Int BY <2>1
  <2>3. added = [o EXCEPT !.total = [o.total EXCEPT ![item] = o.total[item] + quantity],
                          !.total_price = o.total_price + x]
    BY <1>1 DEF AddItem, update_num_price, Order
  <2> HIDE DEF added, x
  <2>4. [o.total EXCEPT ![item] = o.total[item] + quantity] \in [Menu -> Int]
    <3>1. o.total[item] + quantity \in Int BY <2>1
    <3> QED BY <2>1, <3>1
  <2>5. o.total_price + x \in Int BY <2>1, <2>2
  <2>6. added \in Order BY <2>3, <2>4, <2>5 DEF Order
  <2>7. /\ added.first_order = o.first_order /\ added.initial_shop = o.initial_shop
        /\ added.distance = o.distance /\ added.total_price = o.total_price + x
        /\ added.total = [o.total EXCEPT ![item] = o.total[item] + quantity]
    BY <2>3 DEF Order
  <2>8. \A y \in Menu : y # item => added.total[y] = o.total[y] BY <2>1, <2>7
  <2>9. \A y \in Menu : added.total[y] # 0 => ShopOf[y] = added.initial_shop
    BY <2>1, <2>7, <2>8 DEF Books
  <2>10. Prices(added) = [f EXCEPT ![item] = f[item] + x]
    <3>1. added.total[item] = o.total[item] + quantity BY <1>1, <2>1, <2>7
    <3>2. PriceOf[item] * added.total[item] = PriceOf[item] * o.total[item] + x
      BY <2>1, <3>1, PricesDistribute DEF x
    <3> QED BY <2>8, <3>2 DEF Prices
  <2>11. SumOver(Prices(added))[Menu] = SumOver(f)[Menu] + x
    <3>1. f \in [Menu -> Int] BY PricesType
    <3> HIDE DEF f
    <3>2. SumOver([f EXCEPT ![item] = f[item] + x])[Menu] = SumOver(f)[Menu] + x
      BY <1>1, <2>2, <3>1, SumOverChanged
    <3> QED BY <2>10, <3>2
  <2>12. Books(added) BY <2>7, <2>9, <2>11 DEF Books
  <2> QED BY <2>6, <2>7, <2>12 DEF added
<1>2. CASE ~(ShopName(item) = o.initial_shop /\ quantity # NoQuantity /\ item \in Menu)
  BY <1>2 DEF AddItem, update_num_price
<1> QED BY <1>1, <1>2

\* The shop and the distance an "order" command finds before it adds the item:
\* c is the order then, o the order before.
Chosen(c, o, item, measured) ==
  /\ c \in Order /\ c.first_order = FALSE /\ c.total = o.total /\ c.total_price = o.total_price
  /\ c.initial_shop = IF o.first_order THEN ShopName(item) ELSE o.initial_shop
  /\ c.distance = IF measured /\ item \in Menu THEN DistanceOf[ShopOf[item]] ELSE o.distance

AddsTo(o, item, quantity, measured, added) ==
  \E c : Chosen(c, o, item, measured) /\ added = AddItem(c, item, quantity)

\* hw2.c measures the distance of every item, hw3.c that of the first.
LEMMA Chooses ==
  ASSUME NEW o \in Order, NEW item, NEW quantity
  PROVE  /\ AddsTo(o, item, quantity, TRUE, OrderItem_hw2(o, item, quantity))
         /\ AddsTo(o, item, quantity, o.first_order, OrderItem(o, item, quantity))
<1>1. ShopName(item) \in Shops \cup {Unknown, NoShop} BY OrderAssumption DEF ShopName
<1>2. item \in Menu => DistanceOf[ShopOf[item]] \in Nat BY OrderAssumption
<1>3. AddsTo(o, item, quantity, TRUE, OrderItem_hw2(o, item, quantity))
  <2> DEFINE looked_up == get_shop_name(o, item)
             c == IF o.first_order
                    THEN [looked_up EXCEPT !.initial_shop = ShopName(item), !.first_order = FALSE]
                    ELSE looked_up
  <2>1. OrderItem_hw2(o, item, quantity) = AddItem(c, item, quantity) BY DEF OrderItem_hw2
  <2>2. Chosen(c, o, item, TRUE) BY <1>1, <1>2 DEF get_shop_name, Chosen, Order
  <2> HIDE DEF c
  <2> QED BY <2>1, <2>2 DEF AddsTo
<1>4. AddsTo(o, item, quantity, o.first_order, OrderItem(o, item, quantity))
  <2> DEFINE c == MeasureDistance(ChooseShop(o, item), item)
  <2>1. OrderItem(o, item, quantity) = AddItem(c, item, quantity) BY DEF OrderItem
  <2>2. Chosen(c, o, item, o.first_order)
    <3>1. ChooseShop(o, item).first_order = FALSE BY DEF ChooseShop, MeasureDistance, Order
    <3>2. c = ChooseShop(o, item) BY <3>1 DEF MeasureDistance
    <3> HIDE DEF c
    <3> QED BY <1>1, <1>2, <3>2 DEF ChooseShop, MeasureDistance, Chosen, Order
  <2> HIDE DEF c
  <2> QED BY <2>1, <2>2 DEF AddsTo
<1> QED BY <1>3, <1>4

LEMMA SessionStarts == SessionInit => SessionInv
<1> SUFFICES ASSUME SessionInit PROVE SessionInv OBVIOUS
<1>1. order \in Order /\ order = EmptyOrder BY DEF SessionInit, EmptyOrder, Order
<1>2. order.total_price = SumOver(Prices(order))[Menu]
  <2>1. \A item \in Menu : Prices(order)[item] = 0
    BY <1>1, OrderAssumption DEF Prices, EmptyOrder
  <2>2. Prices(order) \in [Menu -> Int] BY <1>1, PricesType
  <2>3. SumOver(Prices(order))[Menu] = SumOver(Prices(order))[{}]
    BY <2>1, <2>2, ZerosDropped
  <2> QED BY <1>1, <2>2, <2>3, SumsAre DEF EmptyOrder
<1>3. SessionTypeOK BY <1>1 DEF SessionInit, SessionTypeOK
<1>4. BooksInv BY <1>1, <1>2 DEF SessionInit, BooksInv, EmptyOrder
<1>5. DistanceInv BY <1>1 DEF SessionInit, DistanceInv, EmptyOrder
<1> QED BY <1>3, <1>4, <1>5 DEF SessionInv

\* An "order" command.
LEMMA SessionOrders ==
  ASSUME SessionInv, NEW item, NEW quantity \in Quantities \cup {NoQuantity},
         OrderCommand(item, quantity)
  PROVE  SessionInv'
<1> USE DEF SessionInv
<1>1. /\ session_pc = "read" /\ buffer' = "order"
      /\ order' = IF server = "hw2" THEN OrderItem_hw2(order, item, quantity)
                          ELSE OrderItem(order, item, quantity)
      /\ named' = named \cup {ShopOf[x] : x \in {item} \cap Menu}
      /\ UNCHANGED <<server, session_pc, client, sleep_time, sleeping_for>>
  BY DEF OrderCommand, Reads
<1>2. order \in Order /\ named \subseteq Shops BY DEF SessionTypeOK
<1> DEFINE measured == server = "hw2" \/ order.first_order
<1>3. PICK c : Chosen(c, order, item, measured) /\ order' = AddItem(c, item, quantity)
  <2>1. CASE server = "hw2"
    <3>1. PICK c : Chosen(c, order, item, TRUE) /\ order' = AddItem(c, item, quantity)
      <4>1. AddsTo(order, item, quantity, TRUE, order') BY <1>1, <1>2, <2>1, Chooses
      <4> QED BY <4>1 DEF AddsTo
    <3>2. Chosen(c, order, item, measured) BY <2>1, <3>1 DEF Chosen
    <3> QED BY <3>1, <3>2
  <2>2. CASE server # "hw2"
    <3>1. PICK c : /\ Chosen(c, order, item, order.first_order)
                   /\ order' = AddItem(c, item, quantity)
      <4>1. AddsTo(order, item, quantity, order.first_order, order')
        BY <1>1, <1>2, <2>2, Chooses
      <4> QED BY <4>1 DEF AddsTo
    <3>2. Chosen(c, order, item, measured) BY <2>2, <3>1 DEF Chosen
    <3> QED BY <3>1, <3>2
  <2> QED BY <2>1, <2>2
<1>4. Books(c)
  <2>1. Prices(c) = Prices(order) BY <1>3 DEF Chosen, Prices
  <2>2. \A x \in Menu : c.total[x] # 0 => ShopOf[x] = c.initial_shop
    BY <1>3 DEF Chosen, BooksInv
  <2> QED BY <1>3, <2>1, <2>2 DEF Chosen, Books, BooksInv
<1>5. /\ order' \in Order /\ Books(order')
      /\ order'.first_order = FALSE /\ order'.initial_shop = c.initial_shop
      /\ order'.distance = c.distance
  BY <1>3, <1>4, AddItemBooks DEF Chosen
<1>6. SessionTypeOK'
  <2>1. named' \subseteq Shops BY <1>1, <1>2, OrderAssumption
  <2> QED BY <1>1, <1>5, <2>1 DEF SessionTypeOK
<1>7. BooksInv' BY <1>5 DEF BooksInv, Books
<1>8. DistanceInv'
  <2>1. ASSUME server = "hw2" => named' \subseteq {c.initial_shop}
        PROVE  c.distance = IF c.initial_shop \in Shops THEN DistanceOf[c.initial_shop] ELSE 0
    <3>1. CASE item \in Menu
      <4>1. ShopOf[item] \in named' /\ ShopOf[item] \in Shops /\ ShopName(item) = ShopOf[item]
        BY <1>1, <3>1, OrderAssumption DEF ShopName
      <4>2. CASE measured
        <5>1. c.initial_shop = ShopOf[item] BY <1>3, <2>1, <4>1, <4>2 DEF Chosen
        <5> QED BY <1>3, <3>1, <4>1, <4>2, <5>1 DEF Chosen
      <4>3. CASE ~measured
        BY <1>3, <4>3 DEF Chosen, DistanceInv, SessionTypeOK
      <4> QED BY <4>2, <4>3
    <3>2. CASE item \notin Menu
      <4>1. c.distance = order.distance /\ named' = named BY <1>1, <1>3, <3>2 DEF Chosen
      <4>2. CASE order.first_order
        <5>1. c.initial_shop \notin Shops BY <1>3, <3>2, <4>2, OrderAssumption DEF Chosen, ShopName
        <5> QED BY <4>1, <4>2, <5>1 DEF BooksInv
      <4>3. CASE ~order.first_order
        BY <1>3, <2>1, <4>1, <4>3 DEF Chosen, DistanceInv
      <4> QED BY <4>2, <4>3
    <3> QED BY <3>1, <3>2
  <2> QED BY <1>1, <1>5, <2>1 DEF DistanceInv
<1> QED BY <1>6, <1>7, <1>8

\* A client goes: reset_order.
LEMMA SessionEnds == ASSUME SessionInv, Leave PROVE SessionInv'
<1> USE DEF SessionInv
<1> DEFINE o == reset_order(order)
<1>1. /\ order' = o /\ session_pc' = "accept" /\ client' = "none" /\ buffer' = "none"
      /\ sleep_time' = 0 /\ sleeping_for' = NoShop /\ named' = {} /\ server' = server
  BY DEF Leave
<1>2. /\ o \in Order /\ o.first_order = TRUE /\ o.distance = 0 /\ o.total_price = 0
      /\ \A item \in Menu : o.total[item] = 0
  <2>1. order \in Order BY DEF SessionTypeOK
  <2>2. order.initial_shop \in Shops \cup {Unknown, NoShop} BY <2>1 DEF Order
  <2>3. o = [EmptyOrder EXCEPT !.initial_shop = order.initial_shop] BY DEF reset_order
  <2>4. /\ o.first_order = TRUE /\ o.initial_shop = order.initial_shop /\ o.distance = 0
        /\ o.total_price = 0 /\ o.total = [item \in Menu |-> 0]
    BY <2>3 DEF EmptyOrder
  <2> HIDE DEF o
  <2>0. EmptyOrder \in Order BY DEF EmptyOrder, Order
  <2>5. o \in Order BY <2>0, <2>2, <2>3 DEF Order
  <2> QED BY <2>4, <2>5
<1> HIDE DEF o
<1>3. SumOver(Prices(o))[Menu] = 0
  <2>1. \A item \in Menu : Prices(o)[item] = 0 BY <1>2, OrderAssumption DEF Prices
  <2>2. Prices(o) \in [Menu -> Int] BY <1>2, PricesType
  <2>3. SumOver(Prices(o))[Menu] = SumOver(Prices(o))[{}]
    BY <2>1, <2>2, ZerosDropped
  <2> QED BY <2>2, <2>3, SumsAre
<1>4. SessionTypeOK' BY <1>1, <1>2 DEF SessionTypeOK, NoShop
<1>5. BooksInv' BY <1>1, <1>2, <1>3 DEF BooksInv
<1>6. DistanceInv' BY <1>1, <1>2 DEF DistanceInv
<1> QED BY <1>4, <1>5, <1>6

LEMMA SessionStep == SessionInv /\ [SessionNext]_sessionVars => SessionInv'
<1> SUFFICES ASSUME SessionInv, [SessionNext]_sessionVars PROVE SessionInv' OBVIOUS
<1> USE DEF SessionInv, SessionTypeOK, BooksInv, DistanceInv
<1>1. CASE \E item \in Items, quantity \in Quantities \cup {NoQuantity} : OrderCommand(item, quantity)
  BY <1>1, SessionOrders
<1>2. CASE Arrive \/ Refuse \/ Cancel
  BY <1>2, SessionEnds DEF Arrive, Refuse, Cancel
<1>3. CASE Accept \/ ShopList \/ HangUp \/ SigPipe
  BY <1>3 DEF Accept, ShopList, HangUp, SigPipe, Reads
<1>4. CASE Confirm
  <2>1. order \in Order BY DEF SessionTypeOK
  <2>2. order.distance \in Nat /\ order.initial_shop \in Shops \cup {Unknown, NoShop}
    BY <2>1 DEF Order
  <2> QED BY <1>4, <2>2 DEF Confirm, Reads
<1>5. CASE UNCHANGED sessionVars BY <1>5 DEF sessionVars
<1> QED BY <1>1, <1>2, <1>3, <1>4, <1>5 DEF SessionNext

\* The inductive invariant of a server and its clients, one after the other.
THEOREM SessionInvHolds == SessionSpec => []SessionInv
BY SessionStarts, SessionStep, PTL DEF SessionSpec

\* Whatever the clients of hw2.c or hw3.c order, and however they go, an order is
\* of one shop and costs what its history shows.
THEOREM OrdersAreOfOneShop == SessionSpec => []OneShopAndPrice
<1>1. SessionInv => OneShopAndPrice
  <2> SUFFICES ASSUME SessionInv PROVE OneShopAndPrice OBVIOUS
  <2> DEFINE shown == show_current_order(order)
             f == Prices(order)
  <2>1. order \in Order BY DEF SessionInv, SessionTypeOK
  <2>2. f \in [Menu -> Int] BY <2>1, PricesType
  <2>3. shown \in SUBSET Menu BY DEF show_current_order
  <2>4. ASSUME NEW x \in Menu \ shown PROVE f[x] = 0
    <3>1. order.total[x] = 0 BY DEF show_current_order, SessionInv, BooksInv
    <3>2. PriceOf[x] \in Int BY OrderAssumption
    <3> QED BY <3>1, <3>2 DEF Prices
  <2> HIDE DEF shown, f
  <2>5. SumOver(f)[Menu] = SumOver(f)[shown] BY <2>2, <2>3, <2>4, ZerosDropped
  <2> QED BY <2>5 DEF shown, f, SessionInv, BooksInv, OneShopAndPrice
<1> QED BY <1>1, SessionInvHolds, PTL

\* A delivery is made over the distance of its order's shop, in hw2.c at least
\* for clients that name no item of another.
THEOREM DistancesAreOfTheShop == SessionSpec => []DistanceOfShop
<1>1. SessionInv => DistanceOfShop
  BY DEF SessionInv, DistanceInv, DistanceOfShop
<1> QED BY <1>1, SessionInvHolds, PTL
=============================================================================
