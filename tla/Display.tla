------------------------------- MODULE Display -------------------------------
(***************************************************************************)
(* The programs that show numbers on the Raspberry Pi's LEDs and 7-segment *)
(* display through the drivers of Drivers: hw1.c, a terminal for orders    *)
(* that shows the price and counts the distance down, and the writers of   *)
(* lab3, which show the digits of their argument.  Each runs on its own    *)
(* driver.  A driver is not removed while its device is open.              *)
(***************************************************************************)
EXTENDS Drivers

CONSTANTS
  Arguments,   \* what the writers of lab3 are called with
  Quantities,  \* what users of hw1 type for a number
  MaxItems     \* bound: items typed for one order

ASSUME DisplayAssumption ==
  Arguments \subseteq Seq(Int) /\ Quantities \subseteq Int /\ MaxItems \in Nat

\* A character is its distance to '0', which is what the drivers compute.
Minus == -3
IsDigit(c) == c \in 0..9

VARIABLES
  prog,          \* the program that has the device open: "none", "hw1", "lab3_1", "lab3_2"
  pc,            \* hw1: "menu", "items", "write"; a writer: "write", "done"
  shop_choice,
  ordered,       \* the sum of the totals of an order
  total_price,
  items,         \* counts up to MaxItems
  i,             \* the iteration of write_to_dev, or the index into sequence
  distance,
  rec_led,       \* rec_buf[1]
  led_flag,      \* modulo 2
  sequence,      \* the argument of a writer
  shown          \* what the panel has shown for this order or run, the last is on:
                 \* hw1: <<digit, LEDs lit>>, lab3_1: the number on the LEDs, lab3_2: the digit

orderVars == <<shop_choice, ordered, total_price, items>>
writeVars == <<i, distance, rec_led>>
progVars == <<prog, pc, orderVars, writeVars, led_flag, sequence, shown>>
vars == <<probeVars, progVars>>

DisplayTypeOK ==
  /\ prog \in {"none", "hw1", "lab3_1", "lab3_2"}
  /\ pc \in {"menu", "items", "write", "done"}
  /\ shop_choice \in 1..4 /\ ordered \in Int /\ total_price \in Int
  /\ items \in 0..MaxItems
  /\ i \in Nat /\ distance \in -1..8 /\ rec_led \in 0..8 /\ led_flag \in {0, 1}
  /\ sequence \in Arguments \cup {<<>>}
  /\ shown \in (IF prog = "hw1" THEN Seq((0..9) \X (0..8)) ELSE Seq(0..15))

Init ==
  /\ ProbeInit
  /\ prog = "none" /\ pc = "menu"
  /\ shop_choice = 1 /\ ordered = 0 /\ total_price = 0 /\ items = 0
  /\ i = 0 /\ distance = 0 /\ rec_led = 0 /\ led_flag = 0
  /\ sequence = <<>> /\ shown = <<>>

-----------------------------------------------------------------------------
(* The order of hw1.                                                       *)

\* Starting a program; without the device it ends at once.
Start(p) ==
  /\ prog = "none" /\ mode = "loaded" /\ driver = p
  /\ owner["device"] = "driver"
  /\ prog' = p /\ pc' = (IF p = "hw1" THEN "menu" ELSE "write")
  /\ sequence' \in (IF p = "hw1" THEN {<<>>} ELSE Arguments)
  /\ UNCHANGED <<orderVars, writeVars, led_flag, shown>>

\* The user may choose a shop that does not exist.
ChooseShop(s) ==
  /\ prog = "hw1" /\ pc = "menu"
  /\ shop_choice' = s /\ pc' = "items"
  /\ UNCHANGED <<prog, ordered, total_price, items, writeVars, led_flag, sequence, shown>>

Price == <<<<60, 80>>, <<40, 70>>, <<120, 50>>>>

\* Mutant: the quantity is counted for a shop that does not exist, too.
Item_AnyShop(item, quantity) ==
  /\ prog = "hw1" /\ pc = "items" /\ items < MaxItems
  /\ ordered' = ordered + quantity
  /\ total_price' = IF shop_choice \in 1..3 THEN total_price + quantity * Price[shop_choice][item] ELSE total_price
  /\ items' = items + 1
  /\ UNCHANGED <<prog, pc, shop_choice, writeVars, led_flag, sequence, shown>>

Item(item, quantity) ==
  /\ prog = "hw1" /\ pc = "items" /\ items < MaxItems
  /\ items' = items + 1
  /\ IF shop_choice \in 1..3
     THEN /\ ordered' = ordered + quantity
          /\ total_price' = total_price + quantity * Price[shop_choice][item]
     ELSE UNCHANGED <<ordered, total_price>>
  /\ UNCHANGED <<prog, pc, shop_choice, writeVars, led_flag, sequence, shown>>

\* The next turn of the loop in main, with its totals at 0.
NextTurn ==
  /\ pc' = "menu"
  /\ shop_choice' = 1 /\ ordered' = 0 /\ total_price' = 0 /\ items' = 0
  /\ i' = 0 /\ distance' = 0 /\ rec_led' = 0 /\ shown' = <<>>

Cancel ==
  /\ prog = "hw1" /\ pc = "items"
  /\ NextTurn
  /\ UNCHANGED <<prog, led_flag, sequence>>

\* write_to_dev does not set the distance for another shop.
Distance == <<3, 5, 8>>

Confirm ==
  /\ prog = "hw1" /\ pc = "items"
  /\ \/ ordered = 0 /\ NextTurn
     \/ /\ ordered # 0 /\ pc' = "write"
        /\ distance' \in (IF shop_choice \in 1..3 THEN {Distance[shop_choice]} ELSE -1..8)
        /\ UNCHANGED <<orderVars, i, rec_led, shown>>
  /\ UNCHANGED <<prog, led_flag, sequence>>

-----------------------------------------------------------------------------
(* write_to_dev and etx_write of hw1's driver.                             *)

Decimals(num) ==
  LET digits[n \in 0..num] == IF n < 10 THEN <<n>> ELSE Append(digits[n \div 10], n % 10)
  IN  digits
Decimal(num) == Decimals(num)[num]
get_digitCount(num) == Len(Decimal(IF num < 0 THEN -num ELSE num))
buff_num == IF total_price < 0 THEN <<Minus>> \o Decimal(-total_price) ELSE Decimal(total_price)

\* Mutant: one write for each kilometre.
Iter_Single ==
  LET km == Distance[shop_choice] + 1 IN
  IF km > get_digitCount(total_price) THEN km ELSE get_digitCount(total_price)

Iter ==
  LET km == Distance[shop_choice] + 1 IN
  2 * (IF km > get_digitCount(total_price) THEN km ELSE get_digitCount(total_price))

\* Mutant: one character further than the number is long.
Char_Next == buff_num[IF i < get_digitCount(total_price) THEN i + 1 ELSE get_digitCount(total_price) - 1]

Char == buff_num[IF i < get_digitCount(total_price) THEN i + 1 ELSE get_digitCount(total_price)]

\* The segments A to G of each digit: 0 is the first row.
SevenSegEncoder ==
  <<<<1, 1, 1, 1, 1, 1, 0>>, <<0, 1, 1, 0, 0, 0, 0>>, <<1, 1, 0, 1, 1, 0, 1>>, <<1, 1, 1, 1, 0, 0, 1>>,
    <<0, 1, 1, 0, 0, 1, 1>>, <<1, 0, 1, 1, 0, 1, 1>>, <<0, 0, 1, 1, 1, 1, 1>>, <<1, 1, 1, 0, 0, 0, 0>>,
    <<1, 1, 1, 1, 1, 1, 1>>, <<1, 1, 1, 0, 0, 1, 1>>>>

\* The levels of the pins, and what somebody who looks at them sees.
set_7seg_display(number) == SevenSegEncoder[number + 1]
set_led_display(number) == [k \in 1..8 |-> IF k <= number THEN 1 ELSE 0]
DigitSeen(segments) == CHOOSE digit \in 0..9 : SevenSegEncoder[digit + 1] = segments
LedsSeen(leds) == Cardinality({k \in 1..8 : leds[k] = 1})

\* The driver refuses what is not a digit; perror, and the loop goes on.
etx_write(c, n) ==
  shown' = IF IsDigit(c)
             THEN Append(shown, <<DigitSeen(set_7seg_display(c)), LedsSeen(set_led_display(n))>>)
             ELSE shown

Write ==
  /\ prog = "hw1" /\ pc = "write" /\ i < Iter
  /\ rec_led' = IF led_flag = 1 THEN rec_led ELSE IF distance >= 0 THEN distance ELSE 0
  /\ distance' = IF led_flag = 0 /\ distance >= 0 THEN distance - 1 ELSE distance
  /\ etx_write(Char, rec_led')
  /\ led_flag' = (led_flag + 1) % 2 /\ i' = i + 1
  /\ UNCHANGED <<prog, pc, orderVars, sequence>>

\* The user picks up the meal and is back at the menu.
PickUp ==
  /\ prog = "hw1" /\ pc = "write" /\ i = Iter
  /\ NextTurn
  /\ UNCHANGED <<prog, led_flag, sequence>>

hw1 == (\E s \in 1..4 : ChooseShop(s)) \/ (\E k \in 1..2, q \in Quantities : Item(k, q)) \/ Cancel \/ Confirm \/ Write \/ PickUp

-----------------------------------------------------------------------------
(* The writers of lab3 and the write functions of their drivers.           *)

decToBinary(n) == [b \in 1..4 |-> (n \div 2 ^ (4 - b)) % 2]

\* The LEDs, GPIO_12 first, read as a binary number.
lab3_1_write(bits) == shown' = Append(shown, 8 * bits[1] + 4 * bits[2] + 2 * bits[3] + bits[4])

\* Its driver has the same table.
set_display(number) == SevenSegEncoder[number + 1]
lab3_2_write(c) == shown' = Append(shown, DigitSeen(set_display(c)))

\* Characters that are not digits are passed over.
lab3_1_writer ==
  /\ prog = "lab3_1" /\ pc = "write" /\ i < Len(sequence)
  /\ i' = i + 1
  /\ IF IsDigit(sequence[i+1]) THEN lab3_1_write(decToBinary(sequence[i+1])) ELSE UNCHANGED shown
  /\ UNCHANGED <<prog, pc, orderVars, distance, rec_led, led_flag, sequence>>

lab3_2_writer ==
  /\ prog = "lab3_2" /\ pc = "write" /\ i < Len(sequence)
  /\ i' = i + 1
  /\ IF IsDigit(sequence[i+1]) THEN lab3_2_write(sequence[i+1]) ELSE UNCHANGED shown
  /\ UNCHANGED <<prog, pc, orderVars, distance, rec_led, led_flag, sequence>>

Finish ==
  /\ prog \in {"lab3_1", "lab3_2"} /\ pc = "write" /\ i = Len(sequence)
  /\ pc' = "done"
  /\ UNCHANGED <<prog, orderVars, writeVars, led_flag, sequence, shown>>

\* A program that is done, or that is interrupted by Ctrl+C, closes the device.
Close ==
  /\ prog # "none" /\ (pc = "done" \/ prog = "hw1")
  /\ prog' = "none" /\ NextTurn
  /\ led_flag' = 0 /\ sequence' = <<>>

-----------------------------------------------------------------------------
Program == (\E p \in {"hw1", "lab3_1", "lab3_2"} : Start(p)) \/ hw1 \/ lab3_1_writer \/ lab3_2_writer \/ Finish \/ Close

Next ==
  \/ (Kernel \/ (prog = "none" /\ Rmmod)) /\ UNCHANGED progVars
  \/ Program /\ UNCHANGED probeVars

Spec == Init /\ [][Next]_vars

-----------------------------------------------------------------------------
\* The number that digits make up, one after the other.
Values(s) == LET value[k \in 0..Len(s)] == IF k = 0 THEN 0 ELSE 10 * value[k - 1] + s[k] IN value
Value(s) == Values(s)[Len(s)]

\* The digits up to each character of s, in their order.
DigitsUpto(s) ==
  LET digits[k \in 0..Len(s)] ==
        IF k = 0 THEN <<>> ELSE IF IsDigit(s[k]) THEN Append(digits[k - 1], s[k]) ELSE digits[k - 1]
  IN  digits

\* What was on the display, one digit after the other, makes up the price, and
\* its last digit stays; or it is the digits of a writer's argument, all of them
\* in their order.
DigitsAreShown ==
  /\ pc = "write" /\ prog = "hw1" /\ i = Iter /\ total_price >= 0 =>
       LET n == get_digitCount(total_price)
       IN  /\ total_price = Value([k \in 1..n |-> shown[k][1]])
           /\ \A k \in n..Iter : shown[k][1] = shown[n][1]
  /\ pc = "done" => shown = DigitsUpto(sequence)[Len(sequence)]

\* The LEDs start at the shop's distance, are put out one by one and end dark,
\* two writes (a second) for each kilometre; and an order for a shop that does
\* not exist, whose distance is never set, is never confirmed.
CountsDown ==
  pc = "write" /\ prog = "hw1" =>
    /\ shop_choice \in 1..3
    /\ total_price >= 0 =>
         /\ i > 0 => shown[1][2] = Distance[shop_choice]
         /\ \A k \in 1..i-1 : shown[k+1][2] \in {shown[k][2], shown[k][2] - 1}
         /\ \A k \in 1..i-2 : shown[k][2] > 0 => shown[k+2][2] = shown[k][2] - 1
         /\ i = Iter => shown[i][2] = 0

\* Between two writes of an order.  The first of a pair takes the distance, the
\* second leaves it, and what is left of it and of the writes makes up the way.
PairInv ==
  /\ \E pairs \in 0..i : i = 2 * pairs + led_flag
  /\ i = 0 => distance = Distance[shop_choice]
  /\ i > 0 => distance = rec_led - 1 /\ shown[i][2] = rec_led
  /\ rec_led > 0 /\ i > 0 => 2 * rec_led + i + led_flag = 2 * Distance[shop_choice] + 2
  /\ i > 1 /\ led_flag = 0 => shown[i-1][2] = rec_led
  /\ i > 2 /\ led_flag = 1 => shown[i-2][2] = shown[i-1][2]

\* Each write shows the next digit of the price, or the last once more.
NumberInv ==
  LET n == get_digitCount(total_price)
  IN  \A k \in 1..i : shown[k][1] = Decimal(total_price)[IF k <= n THEN k ELSE n]

\* The order of hw1: until it is confirmed nothing is shown, and nothing is counted
\* for a shop that does not exist.
TerminalInv ==
  prog = "hw1" =>
    /\ pc \in {"menu", "items", "write"}
    /\ pc = "menu" => ordered = 0
    /\ shop_choice \in 1..3 \/ (ordered = 0 /\ pc # "write")
    /\ pc # "write" => i = 0 /\ led_flag = 0 /\ shown = <<>>
    /\ pc = "write" => i <= Iter /\ \E pairs \in 0..i : i = 2 * pairs + led_flag
    /\ pc = "write" /\ total_price >= 0 => Len(shown) = i /\ NumberInv /\ PairInv

\* A writer has shown the digits of what it has read of its argument.
WriterInv ==
  /\ prog \in {"lab3_1", "lab3_2"} =>
       /\ pc \in {"write", "done"} /\ i \in 0..Len(sequence)
       /\ pc = "done" => i = Len(sequence)
       /\ shown = DigitsUpto(sequence)[i]
  /\ prog = "none" => pc = "menu" /\ ordered = 0 /\ i = 0 /\ led_flag = 0 /\ shown = <<>>

\* The inductive invariant behind DigitsAreShown and CountsDown.
DisplayInv == DisplayTypeOK /\ TerminalInv /\ CountsDown /\ WriterInv
=============================================================================
