---------------------------- MODULE MCGuessGame ----------------------------
(* The numbers to look for: the whole range, as Lab 7 has it.              *)
EXTENDS GuessGame

MCAll == 1..Upper
=============================================================================
