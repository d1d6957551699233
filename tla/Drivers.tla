------------------------------- MODULE Drivers -------------------------------
(***************************************************************************)
(* The init and exit functions of the drivers of lab3, hw1, lab4 and the   *)
(* final project, as tables for Probe.  gpio_is_valid holds for all these  *)
(* pins (it is a matter of the pin's number), so its branches do not appear.*)
(***************************************************************************)
EXTENDS Probe

GPIOs == {"1", "2", "3", "4", "5", "6", "7", "8", "9", "10", "12", "16", "17", "19", "20", "21", "22", "26", "27"}

\* A call that takes r, or else gives back what follows the label it goes to.
Take(r, label) == [of |-> r, undo |-> label]
Request(pins, label) == [k \in 1..Len(pins) |-> Take(pins[k], label)]

-----------------------------------------------------------------------------
(* lab3-1, lab3-2 and hw1 have the same labels; r_gpio frees all the pins. *)

r_unreg == <<"region">>
r_del == <<"cdev">> \o r_unreg
r_class == <<"class">> \o r_del
r_device == <<"device">> \o r_class
r_gpio(pins) == pins \o r_device

TakeDevice == <<Take("region", r_unreg), Take("cdev", r_del), Take("class", r_class), Take("device", r_device)>>

lab3_1_pins == <<"12", "16", "20", "21">>
lab3_1_init == TakeDevice \o Request(lab3_1_pins, r_gpio(lab3_1_pins))
lab3_1_exit == lab3_1_pins \o <<"device", "class", "cdev", "region">>

lab3_2_pins == <<"21", "20", "16", "12", "1", "5", "6">>
lab3_2_init == TakeDevice \o Request(lab3_2_pins, r_gpio(lab3_2_pins))
lab3_2_exit == lab3_2_pins \o <<"device", "class", "cdev", "region">>

seg7_pins == <<"21", "20", "16", "12", "1", "26", "19">>
led_pins == <<"9", "10", "22", "27", "17", "4", "3", "2">>
hw1_init == TakeDevice \o Request(seg7_pins \o led_pins, r_gpio(seg7_pins \o led_pins))
hw1_exit == seg7_pins \o led_pins \o <<"device", "class", "cdev", "region">>

-----------------------------------------------------------------------------
(* led_driver: each label undoes one call.                                 *)

led_r_del == <<"region">>
led_r_class == <<"cdev">> \o led_r_del
led_r_device == <<"class">> \o led_r_class
led_r_gpio7 == <<"device">> \o led_r_device

\* Mutant: both pins are freed when the second is not to be had.
led_r_gpio8_Both == <<"7", "8">> \o led_r_gpio7

led_r_gpio8 == <<"7">> \o led_r_gpio7

led_init ==
  <<Take("region", <<>>), Take("cdev", led_r_del), Take("class", led_r_class),
    Take("device", led_r_device), Take("7", led_r_gpio7), Take("8", led_r_gpio8)>>
led_exit == <<"7", "8", "device", "class", "cdev", "region">>

-----------------------------------------------------------------------------
(* mydev of lab4 has neither a class nor pins.                             *)

my_init == <<Take("region", <<>>), Take("cdev", <<"region">>)>>
my_exit == <<"cdev", "region">>

-----------------------------------------------------------------------------
DriverNames == {"lab3_1", "lab3_2", "hw1", "led", "mydev"}

driver_init ==
  [lab3_1 |-> lab3_1_init, lab3_2 |-> lab3_2_init, hw1 |-> hw1_init, led |-> led_init, mydev |-> my_init]

driver_exit ==
  [lab3_1 |-> lab3_1_exit, lab3_2 |-> lab3_2_exit, hw1 |-> hw1_exit, led |-> led_exit, mydev |-> my_exit]

\* Only the clean-ups of lab3 and hw1, which free all their pins when one is
\* not to be had, take a pin from whoever has it.
FreesAll == {"lab3_1", "lab3_2", "hw1"}

PinsAreKept ==
  [][\A p \in Pins :
       owner[p] = "other" /\ mode \in {"failing", "exiting"} /\ owner'[p] = "free" /\ undo' # undo =>
         mode = "failing" /\ driver \in FreesAll]_probeVars

\* The reason: the lists of the others hold pins taken before, each of them once,
EachOnce(list, taken) ==
  \A k \in 1..Len(list) :
    list[k] \in Pins => list[k] \in taken /\ \A j \in 1..k-1 : list[j] # list[k]

ListsAreExact ==
  \A n \in Names :
    /\ EachOnce(exit[n], Taken(n))
    /\ n \notin FreesAll =>
         \A k \in 1..Len(init[n]) : EachOnce(init[n][k].undo, {init[n][j].of : j \in 1..k-1})

\* and so the driver has every pin that is still to be given back.
PinsInv ==
  mode = "exiting" \/ (mode = "failing" /\ driver \notin FreesAll) =>
    \A k \in 1..Len(undo) :
      undo[k] \in Pins => owner[undo[k]] = "driver" /\ \A j \in 1..k-1 : undo[j] # undo[k]
=============================================================================
