------------------------------ MODULE MCWebATM ------------------------------
(* Deposits and withdrawals, of one operation and of two; a thread without *)
(* a request deposits what nobody asked for.                               *)
EXTENDS WebATM

MCRequests == {[amount |-> 1, times |-> 2], [amount |-> -2, times |-> 1]}
MCGarbage == {[amount |-> 5, times |-> 1]}
=============================================================================
