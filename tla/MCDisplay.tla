------------------------------ MODULE MCDisplay ------------------------------
(* Marquee, and with it Display, for TLC: arguments and names with digits or  *)
(* letters and other characters, quantities of either sign (scanf accepts     *)
(* all).                                                                      *)
EXTENDS Marquee

MCArguments == {<<7, 72, 3>>, <<9, 0>>, <<Minus, 5>>}
MCQuantities == {-1, 1, 9}
MCPersons == {<<"T", "-", "E", "T">>, <<"E", "n">>}
=============================================================================
