------------------------------ MODULE LedAlarm ------------------------------
(***************************************************************************)
(* The alarm lights of the two doors (Final_raspberry/led_writer.c and     *)
(* led_driver.c).  Residents vote over TCP; led_writer counts the votes of *)
(* each door, and when both votes of a round are alarms it writes to the   *)
(* driver, which lights the door's LED and arms its one timer.  The timer's*)
(* callback turns both LEDs off.  It runs on another processor than the    *)
(* write may, and rmmod may remove the driver while nobody has it open.    *)
(***************************************************************************)
EXTENDS Integers

CONSTANTS
  Period,     \* 10000 ms, the time to the callback
  MaxVotes    \* bound: connections accepted

ASSUME LedAssumption == Period \in Nat /\ MaxVotes \in Nat

Doors == {"front", "back"}

\* What a client sends: "10" and "01" are alarms, "111" and "000" none.
\* A client may also go without sending anything.
Votes == {"10", "111", "01", "000", "none"}
DoorOf(v) == IF v \in {"10", "111"} THEN "front" ELSE IF v \in {"01", "000"} THEN "back" ELSE "none"
IsAlarm(v) == v \in {"10", "01"}

VARIABLES
  writer_pc,     \* "accept", "open", "evaluate", "arm", "reset", "ended"
  count,         \* front_count and back_count
  total_count,   \* front_total_count and back_total_count
  writing,       \* the door whose LED etx_write has lit last
  accepted,      \* counts up to MaxVotes
  gpio,          \* the LEDs: GPIO_7 at the front, GPIO_8 at the back
  pending,       \* whether etx_timer is armed
  left,          \* the time it has left
  callback,      \* etx_timer_callback: "idle", "off7", "off8"
  module,        \* "loaded", "off7", "off8", "unloaded": how far etx_driver_exit is
  cast, alarms,  \* history: the votes of each door's last round, and the alarms among them
  voted          \* history: the door of the last vote

writerVars == <<writer_pc, count, total_count, writing, accepted>>
timerVars == <<pending, left>>
historyVars == <<cast, alarms, voted>>
vars == <<writerVars, gpio, timerVars, callback, module, historyVars>>

TypeOK ==
  /\ writer_pc \in {"accept", "open", "evaluate", "arm", "reset", "ended"}
  /\ count \in [Doors -> 0..2] /\ total_count \in [Doors -> 0..2]
  /\ writing \in Doors
  /\ accepted \in 0..MaxVotes
  /\ gpio \in [Doors -> {0, 1}]
  /\ pending \in BOOLEAN /\ left \in 0..Period
  /\ callback \in {"idle", "off7", "off8"}
  /\ module \in {"loaded", "off7", "off8", "unloaded"}
  /\ cast \in [Doors -> 0..2] /\ alarms \in [Doors -> 0..2]
  /\ voted \in Doors \cup {"none"}

\* led_writer listens (any error before that ends it), the driver is loaded.
Init ==
  /\ writer_pc = "accept" /\ writing = "front" /\ accepted = 0
  /\ count = [d \in Doors |-> 0] /\ total_count = [d \in Doors |-> 0]
  /\ gpio = [d \in Doors |-> 0]
  /\ pending = FALSE /\ left = 0 /\ callback = "idle"
  /\ module = "loaded"
  /\ cast = [d \in Doors |-> 0] /\ alarms = [d \in Doors |-> 0] /\ voted = "none"

-----------------------------------------------------------------------------
(* led_writer.                                                             *)

Bool(b) == IF b THEN 1 ELSE 0

\* One connection: accept, read, and the counters.
AcceptVote(v) ==
  /\ writer_pc = "accept" /\ accepted < MaxVotes
  /\ count' = [d \in Doors |-> count[d] + Bool(DoorOf(v) = d /\ IsAlarm(v))]
  /\ total_count' = [d \in Doors |-> total_count[d] + Bool(DoorOf(v) = d)]
  /\ cast' = [d \in Doors |-> IF DoorOf(v) # d THEN cast[d] ELSE IF cast[d] = 2 THEN 1 ELSE cast[d] + 1]
  /\ alarms' = [d \in Doors |->
                  IF DoorOf(v) # d THEN alarms[d]
                  ELSE Bool(IsAlarm(v)) + (IF cast[d] = 2 THEN 0 ELSE alarms[d])]
  /\ voted' = DoorOf(v)
  /\ accepted' = accepted + 1
  /\ writer_pc' = "open"
  /\ UNCHANGED <<writing, gpio, timerVars, callback, module>>

Accept == \E v \in Votes : AcceptVote(v)

Open ==
  /\ writer_pc = "open"
  /\ writer_pc' = IF module = "loaded" THEN "evaluate" ELSE "ended"
  /\ UNCHANGED <<count, total_count, writing, accepted, gpio, timerVars, callback, module, historyVars>>

\* etx_write up to the gpio; the front door goes first.
Light(d) ==
  /\ gpio' = [gpio EXCEPT ![d] = 1]
  /\ writing' = d /\ writer_pc' = "arm"

Evaluate ==
  /\ writer_pc = "evaluate"
  /\ \/ count["front"] = 2 /\ Light("front")
     \/ count["front"] # 2 /\ count["back"] = 2 /\ Light("back")
     \/ count["front"] # 2 /\ count["back"] # 2 /\ writer_pc' = "reset" /\ UNCHANGED <<gpio, writing>>
  /\ UNCHANGED <<count, total_count, accepted, timerVars, callback, module, historyVars>>

\* Mutant: only one branch of etx_write arms the timer.
Arm_FrontOnly ==
  /\ writer_pc = "arm" /\ writer_pc' = "reset"
  /\ pending' = (pending \/ writing = "front")
  /\ left' = IF writing = "front" THEN Period ELSE left
  /\ UNCHANGED <<count, total_count, writing, accepted, gpio, callback, module, historyVars>>

\* mod_timer, which moves a timer that is armed already.
Arm ==
  /\ writer_pc = "arm" /\ writer_pc' = "reset"
  /\ pending' = TRUE /\ left' = Period
  /\ UNCHANGED <<count, total_count, writing, accepted, gpio, callback, module, historyVars>>

\* Mutant: the end of a round leaves the front door's alarms standing.
Reset_KeepsFront ==
  /\ writer_pc = "reset" /\ writer_pc' = "accept"
  /\ count' = [count EXCEPT !["back"] = IF total_count["back"] = 2 THEN 0 ELSE @]
  /\ total_count' = [d \in Doors |-> IF total_count[d] = 2 THEN 0 ELSE total_count[d]]
  /\ UNCHANGED <<writing, accepted, gpio, timerVars, callback, module, historyVars>>

\* A round of a door is over when both residents have voted.
Reset ==
  /\ writer_pc = "reset" /\ writer_pc' = "accept"
  /\ count' = [d \in Doors |-> IF total_count[d] = 2 THEN 0 ELSE count[d]]
  /\ total_count' = [d \in Doors |-> IF total_count[d] = 2 THEN 0 ELSE total_count[d]]
  /\ UNCHANGED <<writing, accepted, gpio, timerVars, callback, module, historyVars>>

WriterStep == Open \/ Evaluate \/ Arm \/ Reset

-----------------------------------------------------------------------------
(* The driver.                                                             *)

Tick ==
  /\ pending /\ left > 0
  /\ left' = left - 1
  /\ UNCHANGED <<writerVars, gpio, pending, callback, module, historyVars>>

Expire ==
  /\ pending /\ left = 0 /\ callback = "idle"
  /\ pending' = FALSE /\ callback' = "off7"
  /\ UNCHANGED <<writerVars, gpio, left, module, historyVars>>

\* Mutant: the callback forgets the second LED.
CallbackOff7_Only ==
  /\ callback = "off7" /\ callback' = "idle"
  /\ gpio' = [gpio EXCEPT !["front"] = 0]
  /\ UNCHANGED <<writerVars, timerVars, module, historyVars>>

CallbackOff7 ==
  /\ callback = "off7" /\ callback' = "off8"
  /\ gpio' = [gpio EXCEPT !["front"] = 0]
  /\ UNCHANGED <<writerVars, timerVars, module, historyVars>>

CallbackOff8 ==
  /\ callback = "off8" /\ callback' = "idle"
  /\ gpio' = [gpio EXCEPT !["back"] = 0]
  /\ UNCHANGED <<writerVars, timerVars, module, historyVars>>

TimerStep == Tick \/ Expire \/ CallbackOff7 \/ CallbackOff8

\* etx_driver_exit: possible while led_writer does not have the device open.
\* del_timer does not wait for a callback that runs.
Exit7 ==
  /\ module = "loaded" /\ writer_pc \notin {"evaluate", "arm", "reset"}
  /\ module' = "off7" /\ gpio' = [gpio EXCEPT !["front"] = 0]
  /\ UNCHANGED <<writerVars, timerVars, callback, historyVars>>

Exit8 ==
  /\ module = "off7"
  /\ module' = "off8" /\ gpio' = [gpio EXCEPT !["back"] = 0]
  /\ UNCHANGED <<writerVars, timerVars, callback, historyVars>>

DelTimer ==
  /\ module = "off8"
  /\ module' = "unloaded" /\ pending' = FALSE
  /\ UNCHANGED <<writerVars, gpio, left, callback, historyVars>>

Rmmod == Exit7 \/ Exit8 \/ DelTimer

Next == Accept \/ WriterStep \/ TimerStep \/ Rmmod

Spec == Init /\ [][Next]_vars

\* led_writer runs, and the kernel's timers go on.
FairSpec == Spec /\ WF_vars(WriterStep) /\ WF_vars(TimerStep)

-----------------------------------------------------------------------------
\* A lit LED never depends on anybody's further vote to be turned off: the timer
\* is armed, or its callback has not come to the LED yet, or the write that
\* lit it is about to arm the timer.
LitIsTimed ==
  \A d \in Doors :
    gpio[d] = 1 =>
      \/ pending \/ writer_pc = "arm"
      \/ callback = "off7" \/ (callback = "off8" /\ d = "back")

\* An LED is only lit by a round of its own door in which both votes were
\* alarms: no vote of an earlier round or of the other door counts.
LightIsARound == writer_pc = "arm" => cast[writing] = 2 /\ alarms[writing] = 2

\* Every LED goes off again, also if the other one is lit meanwhile, or the
\* driver is removed.
LightsGoOff == \A d \in Doors : gpio[d] = 1 ~> gpio[d] = 0

\* The counters of a door are those of its round, and they stand at two only
\* while the vote that completed the round is being handled.
CountInv ==
  /\ writer_pc = "arm" => count[writing] = 2
  /\ \A d \in Doors :
       /\ count[d] <= total_count[d]
       /\ writer_pc = "accept" => total_count[d] < 2
       /\ total_count[d] = 2 => voted = d
       /\ IF total_count[d] = 0 THEN cast[d] = 2 \/ cast[d] + alarms[d] = 0
          ELSE cast[d] = total_count[d] /\ alarms[d] = count[d]

\* While the driver is being removed nobody writes to it, and what it has turned
\* off stays off.
ModuleInv ==
  /\ module # "loaded" => writer_pc \notin {"evaluate", "arm", "reset"} /\ gpio["front"] = 0
  /\ module \in {"off8", "unloaded"} => gpio["back"] = 0

\* The inductive invariant behind LitIsTimed and LightIsARound.
LedInv == CountInv /\ ModuleInv /\ LitIsTimed
=============================================================================
