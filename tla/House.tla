------------------------------- MODULE House -------------------------------
(***************************************************************************)
(* The residents of the house and the alarm lights they vote about.  For   *)
(* each door a resident runs a photo client (deliver_photo/front_client_tcp*)
(* and back_client_tcp), which receives the photo and shows it with two    *)
(* buttons: one starts the video client, whose buttons decide the vote it  *)
(* sends to led_writer; the other ends the client without a vote.  The     *)
(* programs of alarm_system send an alarm without asking.                  *)
(***************************************************************************)
EXTENDS LedAlarm, Sequences

CONSTANTS
  Residents,
  MaxRuns     \* bound: how often each resident starts a client

\* led_writer counts to two.
ASSUME HouseAssumption ==
  /\ \E r, q \in Residents : Residents = {r, q} /\ r # q
  /\ MaxRuns \in Nat

VARIABLES
  stage,      \* of each resident's client of each door: see Stages
  alarm,      \* what the video client has made of the clicks
  line,       \* what the connections to led_writer carry that it has not accepted
  started,    \* of each resident, counts up to MaxRuns
  ran, again, \* history: the clients that were run, and those that were run again
  alarmed     \* history: whose alarms have been sent

\* "off"; "photo": the photo is received and then shown with the buttons; "video":
\* the video client runs; "vote": it has been closed
Stages == {"off", "photo", "video", "vote"}

historyOfClients == <<started, ran, again>>
homeVars == <<stage, alarm, line, historyOfClients, alarmed>>
houseVars == <<vars, homeVars>>

HouseTypeOK ==
  /\ stage \in [Residents -> [Doors -> Stages]]
  /\ alarm \in [Residents -> [Doors -> BOOLEAN]]
  /\ line \in Seq(Votes)
  /\ started \in [Residents -> 0..MaxRuns]
  /\ ran \subseteq Residents \X Doors /\ again \subseteq ran
  /\ alarmed \subseteq Residents \X Doors

HouseInit ==
  /\ Init
  /\ stage = [r \in Residents |-> [d \in Doors |-> "off"]]
  /\ alarm = [r \in Residents |-> [d \in Doors |-> FALSE]]
  /\ line = <<>>
  /\ started = [r \in Residents |-> 0] /\ ran = {} /\ again = {}
  /\ alarmed = {}

-----------------------------------------------------------------------------
(* The photo client.                                                       *)

Enter(r, d, s) == stage' = [stage EXCEPT ![r][d] = s]

\* Whoever runs a client twice at a door may vote twice.
Started(r, d) ==
  /\ stage[r][d] = "off" /\ started[r] < MaxRuns
  /\ started' = [started EXCEPT ![r] = @ + 1]
  /\ again' = (again \cup ({<<r, d>>} \cap ran)) /\ ran' = ran \cup {<<r, d>>}

\* The client connects, or there is no server and it exits.
Run(r, d) ==
  /\ Started(r, d)
  /\ Enter(r, d, "photo") \/ UNCHANGED stage
  /\ UNCHANGED <<vars, alarm, line, alarmed>>

\* The check button: the resident wants to see the video.
Watch(r, d) ==
  /\ stage[r][d] = "photo"
  /\ Enter(r, d, "video")
  /\ UNCHANGED <<vars, alarm, line, historyOfClients, alarmed>>

\* The cross button, the window closed, or a photo that cannot be loaded: "exit"
\* goes to the photo server, which does not read it, and nobody counts a vote.
\* A window that cannot be made ends the client, too.
Dismiss(r, d) ==
  /\ stage[r][d] = "photo"
  /\ Enter(r, d, "off")
  /\ UNCHANGED <<vars, alarm, line, historyOfClients, alarmed>>

PhotoClient(r, d) == Run(r, d) \/ Watch(r, d) \/ Dismiss(r, d)

\* The two programs differ in port, file and video client.
FrontPhotoClient(r) == PhotoClient(r, "front")
BackPhotoClient(r) == PhotoClient(r, "back")

-----------------------------------------------------------------------------
(* The video client (LiveVideo), seen from outside.                        *)

\* The resident's last click decides; without a click there is no alarm.
Click(r, d, cross) ==
  /\ stage[r][d] = "video"
  /\ alarm' = [alarm EXCEPT ![r][d] = cross]
  /\ Enter(r, d, "vote")
  /\ UNCHANGED <<vars, line, historyOfClients, alarmed>>

\* The client ends by an error, or is killed, before it votes.
VideoFails(r, d) ==
  /\ stage[r][d] = "video"
  /\ Enter(r, d, "off")
  /\ UNCHANGED <<vars, alarm, line, historyOfClients, alarmed>>

\* connect, send and close; or the connection fails, or only the send does.
Send(r, d, v) ==
  /\ stage[r][d] = "vote"
  /\ Enter(r, d, "off") /\ alarm' = [alarm EXCEPT ![r][d] = FALSE]
  /\ \/ /\ writer_pc # "ended"
        /\ line' = Append(line, v)
        /\ alarmed' = IF alarm[r][d] THEN alarmed \cup {<<r, d>>} ELSE alarmed
     \/ /\ line' \in {line} \cup (IF writer_pc = "ended" THEN {} ELSE {Append(line, "none")})
        /\ UNCHANGED alarmed
  /\ UNCHANGED <<vars, historyOfClients>>

\* Mutant: the back door's client was copied from the front door's.
SendBack_AsFront(r) == Send(r, "back", IF alarm[r]["back"] THEN "10" ELSE "000")

SendFront(r) == Send(r, "front", IF alarm[r]["front"] THEN "10" ELSE "111")
SendBack(r) == Send(r, "back", IF alarm[r]["back"] THEN "01" ELSE "000")

\* front_alarm_client and back_alarm_client: sendAlarmToServer and no more.
AlarmClient(r, d) ==
  /\ Started(r, d)
  /\ alarm' = [alarm EXCEPT ![r][d] = TRUE] /\ Enter(r, d, "vote")
  /\ UNCHANGED <<vars, line, alarmed>>

FrontAlarmClient(r) == AlarmClient(r, "front")
BackAlarmClient(r) == AlarmClient(r, "back")

-----------------------------------------------------------------------------
(* led_writer and the driver.                                              *)

AcceptNext ==
  /\ line # <<>>
  /\ AcceptVote(Head(line)) /\ line' = Tail(line)
  /\ UNCHANGED <<stage, alarm, historyOfClients, alarmed>>

AlarmStep == (WriterStep \/ TimerStep) /\ UNCHANGED homeVars

Remove == Rmmod /\ UNCHANGED homeVars

HouseNext ==
  \/ \E r \in Residents :
       \/ FrontPhotoClient(r) \/ BackPhotoClient(r)
       \/ \E d \in Doors : VideoFails(r, d) \/ \E cross \in BOOLEAN : Click(r, d, cross)
       \/ SendFront(r) \/ SendBack(r) \/ FrontAlarmClient(r) \/ BackAlarmClient(r)
  \/ AcceptNext \/ AlarmStep \/ Remove

HouseSpec == HouseInit /\ [][HouseNext]_houseVars

\* led_writer runs, and the kernel's timers go on.  Nobody has to start a client,
\* to click, to vote or to remove the driver.
FairHouse ==
  /\ HouseSpec
  /\ WF_houseVars(WriterStep /\ UNCHANGED homeVars) /\ WF_houseVars(AcceptNext)
  /\ WF_houseVars(TimerStep /\ UNCHANGED homeVars)

-----------------------------------------------------------------------------
\* The LED of a door is lit only if both residents sent an alarm about that door:
\* not one resident for both doors, nor for the other one.  (Of clients that were
\* run once: the votes carry no name, and led_writer counts a resident's second
\* vote as the other's.)
LightMeansBoth ==
  writer_pc = "arm" /\ (\A r \in Residents : <<r, writing>> \notin again) =>
    \A r \in Residents : <<r, writing>> \in alarmed

\* The alarms of a door that led_writer has not accepted.
AlarmOf(d) == IF d = "front" THEN "10" ELSE "01"
AlarmsOf(d) == {k \in DOMAIN line : line[k] = AlarmOf(d)}

\* Who runs a client once at a door has sent no alarm while it runs.
OnceInv ==
  \A r \in Residents, d \in Doors :
    /\ stage[r][d] # "off" => <<r, d>> \in ran /\ (<<r, d>> \in alarmed => <<r, d>> \in again)
    /\ <<r, d>> \in alarmed => <<r, d>> \in ran

\* The inductive invariant behind LightMeansBoth: as long as nobody runs a door's
\* client again, every alarm of it, counted or under way, has a voter of its own.
VoterInv ==
  \A d \in Doors : (\A r \in Residents : <<r, d>> \notin again) =>
    /\ (\A r \in Residents : <<r, d>> \notin alarmed) => AlarmsOf(d) = {} /\ count[d] = 0
    /\ (\E r \in Residents : <<r, d>> \notin alarmed) =>
         /\ count[d] <= 1 /\ (count[d] = 1 => AlarmsOf(d) = {})
         /\ \A j, k \in AlarmsOf(d) : j = k

\* When both residents have sent an alarm about a door its LED is lit, however
\* the votes about the other door are mixed with theirs, and whoever comes first.
\* (Of clients that were run once; led_writer may end for want of the driver.)
BothAlarmsLight ==
  \A d \in Doors :
    (\A r \in Residents : <<r, d>> \in alarmed) /\ (\E k \in DOMAIN line : DoorOf(line[k]) = d) ~>
      gpio[d] = 1 \/ writer_pc = "ended" \/ \E r \in Residents : <<r, d>> \in again
=============================================================================
