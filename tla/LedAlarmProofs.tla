--------------------------- MODULE LedAlarmProofs ---------------------------
(* The alarm lights for any number of votes and any time of the timer, and *)
(* the house, whose residents' votes are such votes: no light without two  *)
(* alarms of two residents.                                                *)
EXTENDS House, TLAPS

IInv == TypeOK /\ LedInv

USE DEF Doors, writerVars, timerVars, historyVars

LEMMA InitInv == ASSUME LedAssumption, Init PROVE IInv
<1>1. 0 \in 0..MaxVotes /\ 0 \in 0..Period
  BY DEF LedAssumption
<1>2. TypeOK
  <2>1. /\ count \in [Doors -> 0..2] /\ total_count \in [Doors -> 0..2]
        /\ cast \in [Doors -> 0..2] /\ alarms \in [Doors -> 0..2]
        /\ gpio \in [Doors -> {0, 1}]
    BY DEF Init
  <2>2. QED
    BY <1>1, <2>1 DEF Init, TypeOK
<1>3. LedInv
  BY DEF Init, LedInv, CountInv, ModuleInv, LitIsTimed
<1>4. QED
  BY <1>2, <1>3 DEF IInv

\* What a vote adds to the counters and the round of a door.
LEMMA AcceptInv == ASSUME LedAssumption, IInv, Accept PROVE IInv'
<1>1. PICK v \in Votes :
        /\ count' = [d \in Doors |-> count[d] + Bool(DoorOf(v) = d /\ IsAlarm(v))]
        /\ total_count' = [d \in Doors |-> total_count[d] + Bool(DoorOf(v) = d)]
        /\ cast' = [d \in Doors |->
                      IF DoorOf(v) # d THEN cast[d] ELSE IF cast[d] = 2 THEN 1 ELSE cast[d] + 1]
        /\ alarms' = [d \in Doors |->
                        IF DoorOf(v) # d THEN alarms[d]
                        ELSE Bool(IsAlarm(v)) + (IF cast[d] = 2 THEN 0 ELSE alarms[d])]
        /\ voted' = DoorOf(v)
  BY DEF Accept, AcceptVote
<1>2. accepted' \in 0..MaxVotes /\ writer_pc' = "open"
      /\ UNCHANGED <<writing, gpio, timerVars, callback, module>>
  BY DEF Accept, AcceptVote, IInv, TypeOK, LedAssumption
<1>3. voted' \in Doors \cup {"none"} /\ Bool(IsAlarm(v)) \in {0, 1}
  BY <1>1 DEF DoorOf, Bool
<1>4. ASSUME NEW d \in Doors
      PROVE  /\ count[d] \in 0..1 /\ total_count[d] \in 0..1 /\ count[d] <= total_count[d]
             /\ cast[d] \in 0..2 /\ alarms[d] \in 0..2
             /\ IF total_count[d] = 0 THEN cast[d] = 2 \/ cast[d] + alarms[d] = 0
                ELSE cast[d] = total_count[d] /\ alarms[d] = count[d]
  BY DEF Accept, AcceptVote, IInv, TypeOK, LedInv, CountInv
<1>5. ASSUME NEW d \in Doors
      PROVE  /\ count'[d] \in 0..2 /\ total_count'[d] \in 0..2 /\ count'[d] <= total_count'[d]
             /\ cast'[d] \in 0..2 /\ alarms'[d] \in 0..2
             /\ total_count'[d] = 2 => voted' = d
             /\ IF total_count'[d] = 0 THEN cast'[d] = 2 \/ cast'[d] + alarms'[d] = 0
                ELSE cast'[d] = total_count'[d] /\ alarms'[d] = count'[d]
  <2>1. CASE DoorOf(v) # d
    BY <1>1, <1>4, <2>1 DEF Bool
  <2>2. CASE DoorOf(v) = d
    <3>1. count'[d] = count[d] + Bool(IsAlarm(v)) /\ total_count'[d] = total_count[d] + 1
          /\ voted' = d
      BY <1>1, <2>2 DEF Bool
    <3>2. cast'[d] = (IF cast[d] = 2 THEN 1 ELSE cast[d] + 1)
          /\ alarms'[d] = Bool(IsAlarm(v)) + (IF cast[d] = 2 THEN 0 ELSE alarms[d])
      BY <1>1, <2>2
    <3>3. QED
      BY <1>3, <1>4, <3>1, <3>2
  <2>3. QED
    BY <2>1, <2>2
<1>6. TypeOK'
  <2>1. /\ count' \in [Doors -> 0..2] /\ total_count' \in [Doors -> 0..2]
        /\ cast' \in [Doors -> 0..2] /\ alarms' \in [Doors -> 0..2]
    BY <1>1, <1>5
  <2>2. QED
    BY <1>2, <1>3, <2>1 DEF IInv, TypeOK
<1>7. CountInv'
  BY <1>2, <1>5 DEF CountInv
<1>8. ModuleInv' /\ LitIsTimed'
  BY <1>2 DEF Accept, AcceptVote, IInv, LedInv, ModuleInv, LitIsTimed
<1>9. QED
  BY <1>6, <1>7, <1>8 DEF IInv, LedInv

\* The other steps of led_writer.  Open finds the driver loaded or ends; Arm
\* and Reset run with the device open.
LEMMA WriterInv == ASSUME LedAssumption, IInv, WriterStep PROVE IInv'
<1>1. UNCHANGED <<accepted, callback, module, historyVars>>
  BY DEF WriterStep, Open, Evaluate, Light, Arm, Reset
<1>2. ModuleInv'
  BY <1>1 DEF WriterStep, Open, Evaluate, Light, Arm, Reset, IInv, TypeOK, LedInv, ModuleInv
<1>3. LitIsTimed'
  BY <1>1 DEF WriterStep, Open, Evaluate, Light, Arm, Reset, IInv, TypeOK, LedInv, LitIsTimed
<1>4. TypeOK' /\ CountInv'
  <2>1. CASE Open \/ Arm
    <3>1. UNCHANGED <<count, total_count, writing, gpio, callback, module, historyVars>>
          /\ writer_pc' \in {"evaluate", "ended", "reset"}
      BY <2>1 DEF Open, Arm
    <3>2. pending' \in BOOLEAN /\ left' \in 0..Period
      <4>1. UNCHANGED timerVars \/ (pending' = TRUE /\ left' = Period)
        BY <2>1 DEF Open, Arm
      <4>2. pending \in BOOLEAN /\ left \in 0..Period
        BY DEF IInv, TypeOK
      <4>3. Period \in 0..Period
        BY DEF LedAssumption
      <4>4. QED
        BY <4>1, <4>2, <4>3
    <3>3. QED
      BY <1>1, <3>1, <3>2 DEF IInv, TypeOK, LedInv, CountInv
  <2>2. CASE Evaluate
    BY <1>1, <2>2 DEF Evaluate, Light, IInv, TypeOK, LedInv, CountInv
  <2>3. CASE Reset
    <3>1. \A d \in Doors : /\ count'[d] = IF total_count[d] = 2 THEN 0 ELSE count[d]
                           /\ total_count'[d] = IF total_count[d] = 2 THEN 0 ELSE total_count[d]
      BY <2>3 DEF Reset
    <3>2. count' \in [Doors -> 0..2] /\ total_count' \in [Doors -> 0..2]
      BY <2>3 DEF Reset, IInv, TypeOK
    <3>3. writer_pc' = "accept" /\ UNCHANGED <<writing, gpio, timerVars>>
      BY <2>3 DEF Reset
    <3>4. TypeOK'
      BY <1>1, <3>2, <3>3 DEF IInv, TypeOK
    <3>5. ASSUME NEW d \in Doors
          PROVE  /\ count'[d] <= total_count'[d] /\ total_count'[d] < 2
                 /\ IF total_count'[d] = 0 THEN cast[d] = 2 \/ cast[d] + alarms[d] = 0
                    ELSE cast[d] = total_count'[d] /\ alarms[d] = count'[d]
      <4>1. count[d] \in 0..2 /\ total_count[d] \in 0..2
        BY DEF IInv, TypeOK
      <4>2. QED
        BY <3>1, <4>1 DEF IInv, LedInv, CountInv
    <3>6. CountInv'
      BY <1>1, <3>3, <3>5 DEF CountInv
    <3>7. QED
      BY <3>4, <3>6
  <2>4. QED
    BY <2>1, <2>2, <2>3 DEF WriterStep
<1>5. QED
  BY <1>2, <1>3, <1>4 DEF IInv, LedInv

\* The callback turns a LED off before it stops being responsible for it, and
\* rmmod stops the timer only after both are off.
LEMMA DriverInv == ASSUME LedAssumption, IInv, TimerStep \/ Rmmod PROVE IInv'
<1>1. UNCHANGED <<writerVars, historyVars>>
  BY DEF TimerStep, Tick, Expire, CallbackOff7, CallbackOff8, Rmmod, Exit7, Exit8, DelTimer
<1>2. CountInv'
  BY <1>1 DEF IInv, LedInv, CountInv
<1>3. TypeOK'
  <2>1. gpio' \in [Doors -> {0, 1}]
    BY DEF TimerStep, Tick, Expire, CallbackOff7, CallbackOff8, Rmmod, Exit7, Exit8, DelTimer,
           IInv, TypeOK
  <2>2. pending' \in BOOLEAN /\ callback' \in {"idle", "off7", "off8"}
        /\ module' \in {"loaded", "off7", "off8", "unloaded"}
    BY DEF TimerStep, Tick, Expire, CallbackOff7, CallbackOff8, Rmmod, Exit7, Exit8, DelTimer,
           IInv, TypeOK
  <2>3. left' = left \/ (left > 0 /\ left' = left - 1)
    BY DEF TimerStep, Tick, Expire, CallbackOff7, CallbackOff8, Rmmod, Exit7, Exit8, DelTimer
  <2>4. left' \in 0..Period
    BY <2>3 DEF IInv, TypeOK, LedAssumption
  <2>5. QED
    BY <1>1, <2>1, <2>2, <2>4 DEF IInv, TypeOK
<1>4. ModuleInv'
  BY <1>1 DEF TimerStep, Tick, Expire, CallbackOff7, CallbackOff8, Rmmod, Exit7, Exit8, DelTimer,
              IInv, TypeOK, LedInv, ModuleInv
<1>5. LitIsTimed'
  BY <1>1 DEF TimerStep, Tick, Expire, CallbackOff7, CallbackOff8, Rmmod, Exit7, Exit8, DelTimer,
              IInv, TypeOK, LedInv, ModuleInv, LitIsTimed
<1>6. QED
  BY <1>2, <1>3, <1>4, <1>5 DEF IInv, LedInv

\* However votes, timer and rmmod interleave, the counters are those of the round
\* and every lit LED has the timer behind it (led_writer's main, etx_write,
\* etx_timer_callback, etx_driver_exit).
THEOREM LedInvHolds == ASSUME LedAssumption PROVE Spec => [](TypeOK /\ LedInv)
<1>1. Init => IInv
  BY InitInv
<1>2. IInv /\ [Next]_vars => IInv'
  <2> SUFFICES ASSUME IInv, [Next]_vars PROVE IInv'
    OBVIOUS
  <2>1. CASE UNCHANGED vars
    BY <2>1 DEF vars, IInv, TypeOK, LedInv, CountInv, ModuleInv, LitIsTimed
  <2>2. CASE Next
    BY <2>2, AcceptInv, WriterInv, DriverInv DEF Next
  <2>3. QED
    BY <2>1, <2>2
<1>3. QED
  BY <1>1, <1>2, PTL DEF Spec, IInv

\* No LED is ever lit without the timer, its callback or a write behind it.
THEOREM LitLedIsTimed == ASSUME LedAssumption PROVE Spec => []LitIsTimed
<1>1. TypeOK /\ LedInv => LitIsTimed
  BY DEF LedInv
<1>2. QED
  BY <1>1, LedInvHolds, PTL

\* A write only follows a round of two alarms at its own door.
THEOREM OnlyARoundLights == ASSUME LedAssumption PROVE Spec => []LightIsARound
<1>1. TypeOK /\ LedInv => LightIsARound
  BY DEF TypeOK, LedInv, CountInv, LightIsARound
<1>2. QED
  BY <1>1, LedInvHolds, PTL

-----------------------------------------------------------------------------
(* The house.                                                              *)

LEMMA HouseInitType == HouseInit => HouseTypeOK
<1> SUFFICES ASSUME HouseInit PROVE HouseTypeOK
  OBVIOUS
<1>1. /\ stage \in [Residents -> [Doors -> Stages]]
      /\ alarm \in [Residents -> [Doors -> BOOLEAN]]
  BY DEF HouseInit, Stages
<1>2. line \in Seq(Votes) /\ started \in [Residents -> 0..MaxRuns]
  BY HouseAssumption DEF HouseInit
<1>3. QED
  BY <1>1, <1>2 DEF HouseInit, HouseTypeOK

\* What a client does is no step of led_writer or the driver; what led_writer
\* accepts is one of the votes LedAlarm allows.
LEMMA HouseStepMaps ==
  ASSUME HouseTypeOK, [HouseNext]_houseVars
  PROVE  [Next]_vars
<1>1. CASE AcceptNext
  <2>1. Head(line) \in Votes
    BY <1>1 DEF AcceptNext, HouseTypeOK
  <2>2. QED
    BY <1>1, <2>1 DEF AcceptNext, Accept, Next
<1>2. CASE AlarmStep \/ Remove
  BY <1>2 DEF AlarmStep, Remove, Next
<1>3. CASE UNCHANGED houseVars
  BY <1>3 DEF houseVars
<1>4. ASSUME NEW r \in Residents, NEW d \in Doors, NEW v,
             PhotoClient(r, d) \/ VideoFails(r, d) \/ Click(r, d, TRUE) \/ Click(r, d, FALSE)
               \/ Send(r, d, v) \/ AlarmClient(r, d)
      PROVE  UNCHANGED vars
  BY <1>4 DEF PhotoClient, Run, Watch, Dismiss, VideoFails, Click, Send, AlarmClient
<1>5. QED
  BY <1>1, <1>2, <1>3, <1>4 DEF HouseNext, FrontPhotoClient, BackPhotoClient, SendFront, SendBack,
    FrontAlarmClient, BackAlarmClient

LEMMA EnterType ==
  ASSUME HouseTypeOK, NEW r \in Residents, NEW d \in Doors, NEW s \in Stages, Enter(r, d, s)
  PROVE  stage' \in [Residents -> [Doors -> Stages]]
<1>1. stage \in [Residents -> [Doors -> Stages]]
  BY DEF HouseTypeOK
<1>2. [stage[r] EXCEPT ![d] = s] \in [Doors -> Stages]
  <2> HIDE DEF Doors
  <2>1. QED
    BY <1>1, Zenon
<1>3. QED
  BY <1>1, <1>2, Zenon DEF Enter

LEMMA HouseStepType ==
  ASSUME HouseTypeOK, [HouseNext]_houseVars
  PROVE  HouseTypeOK'
<1>1. CASE AcceptNext
  BY <1>1 DEF AcceptNext, HouseTypeOK, historyOfClients
<1>2. CASE AlarmStep \/ Remove \/ UNCHANGED houseVars
  BY <1>2 DEF AlarmStep, Remove, houseVars, homeVars, HouseTypeOK, historyOfClients
<1>3. ASSUME NEW r \in Residents, NEW d \in Doors, PhotoClient(r, d) \/ AlarmClient(r, d)
      PROVE  HouseTypeOK'
  <2>1. stage' \in [Residents -> [Doors -> Stages]]
    <3>1. stage \in [Residents -> [Doors -> Stages]]
      BY DEF HouseTypeOK
    <3>2. UNCHANGED stage \/ \E s \in Stages : Enter(r, d, s)
      BY <1>3 DEF PhotoClient, Run, Watch, Dismiss, AlarmClient, Stages
    <3>3. QED
      BY <3>1, <3>2, EnterType
  <2>2. alarm' \in [Residents -> [Doors -> BOOLEAN]]
    <3>1. alarm' = alarm \/ alarm' = [alarm EXCEPT ![r] = [alarm[r] EXCEPT ![d] = TRUE]]
      BY <1>3 DEF PhotoClient, Run, Watch, Dismiss, AlarmClient
    <3>2. alarm \in [Residents -> [Doors -> BOOLEAN]]
      BY DEF HouseTypeOK
    <3> HIDE DEF Doors
    <3>3. [alarm[r] EXCEPT ![d] = TRUE] \in [Doors -> BOOLEAN]
      BY <3>2, Zenon
    <3>4. CASE alarm' = [alarm EXCEPT ![r] = [alarm[r] EXCEPT ![d] = TRUE]]
      BY <3>2, <3>3, <3>4, Zenon
    <3>5. QED
      BY <3>1, <3>2, <3>4
  <2>3. started' \in [Residents -> 0..MaxRuns]
    BY <1>3, HouseAssumption DEF PhotoClient, Run, Watch, Dismiss, AlarmClient, Started, HouseTypeOK, historyOfClients
  <2>4. ran' \subseteq Residents \X Doors /\ again' \subseteq ran'
    BY <1>3 DEF PhotoClient, Run, Watch, Dismiss, AlarmClient, Started, HouseTypeOK, historyOfClients
  <2>5. UNCHANGED <<line, alarmed>>
    BY <1>3 DEF PhotoClient, Run, Watch, Dismiss, AlarmClient
  <2>6. QED
    BY <2>1, <2>2, <2>3, <2>4, <2>5 DEF HouseTypeOK
<1>4. ASSUME NEW r \in Residents, NEW d \in Doors, NEW cross \in BOOLEAN,
             VideoFails(r, d) \/ Click(r, d, cross)
      PROVE  HouseTypeOK'
  <2>1. stage' \in [Residents -> [Doors -> Stages]]
    BY <1>4, EnterType DEF VideoFails, Click, Stages
  <2>2. alarm' \in [Residents -> [Doors -> BOOLEAN]]
    <3>1. alarm \in [Residents -> [Doors -> BOOLEAN]]
      BY DEF HouseTypeOK
    <3>2. CASE alarm' = [alarm EXCEPT ![r] = [alarm[r] EXCEPT ![d] = cross]]
      <4> HIDE DEF Doors
      <4>1. [alarm[r] EXCEPT ![d] = cross] \in [Doors -> BOOLEAN]
        BY <3>1, Zenon
      <4>2. QED
        BY <3>1, <3>2, <4>1, Zenon
    <3>3. alarm' = alarm \/ alarm' = [alarm EXCEPT ![r] = [alarm[r] EXCEPT ![d] = cross]]
      BY <1>4 DEF VideoFails, Click
    <3>4. QED
      BY <3>1, <3>2, <3>3
  <2>3. QED
    BY <1>4, <2>1, <2>2 DEF VideoFails, Click, HouseTypeOK, historyOfClients
<1>5. ASSUME NEW r \in Residents, NEW d \in Doors, NEW v \in Votes, Send(r, d, v)
      PROVE  HouseTypeOK'
  <2>1. stage' \in [Residents -> [Doors -> Stages]]
    BY <1>5, EnterType DEF Send, Stages
  <2>2. alarm' \in [Residents -> [Doors -> BOOLEAN]]
    BY <1>5 DEF Send, HouseTypeOK
  <2>3. line' \in Seq(Votes)
    <3>1. line' = line \/ line' = Append(line, v) \/ line' = Append(line, "none")
      BY <1>5 DEF Send
    <3>2. line \in Seq(Votes) /\ "none" \in Votes
      BY DEF HouseTypeOK, Votes
    <3> HIDE DEF Votes
    <3>3. QED
      BY <3>1, <3>2
  <2>4. alarmed' \subseteq Residents \X Doors
    BY <1>5 DEF Send, HouseTypeOK
  <2>5. QED
    BY <1>5, <2>1, <2>2, <2>3, <2>4 DEF Send, HouseTypeOK, historyOfClients
<1>6. \A r \in Residents : (SendFront(r) \/ SendBack(r)) =>
        \E d \in Doors, v \in Votes : Send(r, d, v)
  BY DEF SendFront, SendBack, Votes
<1>7. QED
  BY <1>1, <1>2, <1>3, <1>4, <1>5, <1>6 DEF HouseNext, FrontPhotoClient, BackPhotoClient,
    FrontAlarmClient, BackAlarmClient

\* The residents with their clients are one of the environments LedAlarm allows:
\* all that is proved of it holds in the house.
THEOREM HouseUsesAlarm == HouseSpec => Spec /\ []HouseTypeOK
<1>1. HouseTypeOK /\ [HouseNext]_houseVars => HouseTypeOK' /\ [Next]_vars
  BY HouseStepMaps, HouseStepType
<1>2. HouseInit => Init
  BY DEF HouseInit
<1>3. QED
  BY <1>1, <1>2, HouseInitType, PTL DEF HouseSpec, Spec

-----------------------------------------------------------------------------
(* The votes of the residents.                                             *)

LEMMA EnterStage ==
  ASSUME HouseTypeOK, NEW r \in Residents, NEW d \in Doors, NEW at, Enter(r, d, at)
  PROVE  \A q \in Residents, e \in Doors :
           stage'[q][e] = IF q = r /\ e = d THEN at ELSE stage[q][e]
  BY DEF Enter, HouseTypeOK

LEMMA SendsAVote ==
  ASSUME NEW r \in Residents, SendFront(r) \/ SendBack(r)
  PROVE  \E d \in Doors, v \in Votes :
           Send(r, d, v) /\ (v = AlarmOf(d) <=> alarm[r][d]) /\ DoorOf(v) = d
  BY DEF SendFront, SendBack, Votes, AlarmOf, DoorOf

LEMMA OnceStep == HouseTypeOK /\ OnceInv /\ [HouseNext]_houseVars => OnceInv'
<1> SUFFICES ASSUME HouseTypeOK, OnceInv, [HouseNext]_houseVars PROVE OnceInv'
  OBVIOUS
<1>1. CASE AcceptNext \/ AlarmStep \/ Remove \/ UNCHANGED houseVars
  BY <1>1 DEF AcceptNext, AlarmStep, Remove, houseVars, homeVars, historyOfClients, OnceInv
<1>2. ASSUME NEW r \in Residents, NEW d \in Doors, Started(r, d), UNCHANGED alarmed,
             \A q \in Residents, e \in Doors : stage'[q][e] # "off" =>
               stage[q][e] # "off" \/ (q = r /\ e = d)
      PROVE  OnceInv'
  <2>1. /\ ran' = ran \cup {<<r, d>>} /\ again \subseteq again'
        /\ <<r, d>> \in ran => <<r, d>> \in again'
    BY <1>2 DEF Started
  <2>2. QED
    BY <1>2, <2>1 DEF OnceInv
<1>3. ASSUME NEW r \in Residents, NEW d \in Doors, UNCHANGED <<historyOfClients, alarmed>>,
             \A q \in Residents, e \in Doors : stage'[q][e] # "off" => stage[q][e] # "off"
      PROVE  OnceInv'
  BY <1>3 DEF OnceInv, historyOfClients
<1>4. ASSUME NEW r \in Residents, NEW d \in Doors, PhotoClient(r, d) \/ AlarmClient(r, d)
      PROVE  OnceInv'
  <2>1. CASE Run(r, d)
    BY <1>2, <2>1, EnterStage DEF Run
  <2>2. CASE AlarmClient(r, d)
    BY <1>2, <2>2, EnterStage DEF AlarmClient
  <2>3. CASE Watch(r, d) \/ Dismiss(r, d)
    BY <1>3, <2>3, EnterStage DEF Watch, Dismiss
  <2>4. QED
    BY <1>4, <2>1, <2>2, <2>3 DEF PhotoClient
<1>5. ASSUME NEW r \in Residents, NEW d \in Doors, NEW cross \in BOOLEAN,
             VideoFails(r, d) \/ Click(r, d, cross)
      PROVE  OnceInv'
  BY <1>3, <1>5, EnterStage DEF VideoFails, Click
<1>6. ASSUME NEW r \in Residents, NEW d \in Doors, NEW v, Send(r, d, v)
      PROVE  OnceInv'
  <2>1. /\ stage[r][d] = "vote" /\ UNCHANGED <<ran, again>>
        /\ alarmed' \subseteq alarmed \cup {<<r, d>>}
        /\ \A q \in Residents, e \in Doors :
             stage'[q][e] = IF q = r /\ e = d THEN "off" ELSE stage[q][e]
    BY <1>6, EnterStage DEF Send, historyOfClients
  <2>2. <<r, d>> \in ran
    BY <2>1 DEF OnceInv
  <2>3. QED
    BY <2>1, <2>2 DEF OnceInv
<1>7. QED
  BY <1>1, <1>4, <1>5, <1>6, SendsAVote
     DEF HouseNext, FrontPhotoClient, BackPhotoClient, FrontAlarmClient, BackAlarmClient

\* VoterInv of one door.
VoterAt(d) ==
  (\A r \in Residents : <<r, d>> \notin again) =>
    /\ (\A r \in Residents : <<r, d>> \notin alarmed) => AlarmsOf(d) = {} /\ count[d] = 0
    /\ (\E r \in Residents : <<r, d>> \notin alarmed) =>
         /\ count[d] <= 1 /\ (count[d] = 1 => AlarmsOf(d) = {})
         /\ \A j, k \in AlarmsOf(d) : j = k

\* Nothing happens to the alarms of a door but, maybe, the end of its round.
LEMMA VoterKept ==
  ASSUME NEW d \in Doors, VoterAt(d), again \subseteq again', AlarmsOf(d)' = AlarmsOf(d),
         \A r \in Residents : <<r, d>> \in alarmed' <=> <<r, d>> \in alarmed,
         count'[d] \in {count[d], 0}
  PROVE  VoterAt(d)'
<1> SUFFICES ASSUME \A r \in Residents : <<r, d>> \notin again
             PROVE  VoterAt(d)'
  BY DEF VoterAt
<1>1. CASE count'[d] = count[d]
  BY <1>1 DEF VoterAt
<1>2. CASE count'[d] = 0
  <2>1. (\A r \in Residents : <<r, d>> \notin alarmed') => AlarmsOf(d)' = {}
    BY DEF VoterAt
  <2>2. (\E r \in Residents : <<r, d>> \notin alarmed') => \A j, k \in AlarmsOf(d)' : j = k
    BY DEF VoterAt
  <2>3. count'[d] <= 1 /\ count'[d] # 1
    BY <1>2
  <2>4. QED
    BY <1>2, <2>1, <2>2, <2>3 DEF VoterAt
<1>3. QED
  BY <1>1, <1>2

LEMMA AppendedAlarm ==
  ASSUME HouseTypeOK, NEW d \in Doors, NEW v \in Votes, line' = Append(line, v)
  PROVE  AlarmsOf(d)' = AlarmsOf(d) \cup (IF v = AlarmOf(d) THEN {Len(line) + 1} ELSE {})
<1>1. line \in Seq(Votes)
  BY DEF HouseTypeOK
<1> HIDE DEF Votes
<1>2. /\ DOMAIN line' = DOMAIN line \cup {Len(line) + 1}
      /\ Len(line) + 1 \notin DOMAIN line
      /\ line'[Len(line) + 1] = v
      /\ \A k \in DOMAIN line : line'[k] = line[k]
  BY <1>1
<1>3. AlarmsOf(d)' = {k \in DOMAIN line' : line'[k] = AlarmOf(d)}
  BY DEF AlarmsOf
<1>4. QED
  BY <1>2, <1>3 DEF AlarmsOf

LEMMA AcceptedAlarm ==
  ASSUME HouseTypeOK, NEW d \in Doors, line # <<>>, line' = Tail(line)
  PROVE  /\ AlarmsOf(d)' = {k \in 1 .. Len(line) - 1 : k + 1 \in AlarmsOf(d)}
         /\ 1 \in AlarmsOf(d) <=> Head(line) = AlarmOf(d)
<1>1. line \in Seq(Votes)
  BY DEF HouseTypeOK
<1> HIDE DEF Votes
<1>2. /\ Len(line) \in Nat \ {0} /\ DOMAIN line = 1 .. Len(line)
      /\ DOMAIN line' = 1 .. Len(line) - 1
      /\ \A k \in 1 .. Len(line) - 1 : line'[k] = line[k + 1]
      /\ Head(line) = line[1]
  BY <1>1
<1>3. AlarmsOf(d)' = {k \in DOMAIN line' : line'[k] = AlarmOf(d)}
  BY DEF AlarmsOf
<1>4. QED
  BY <1>2, <1>3 DEF AlarmsOf

\* A vote is sent: an alarm makes its resident one of the alarmed.
LEMMA SendVoter ==
  ASSUME HouseTypeOK, OnceInv, NEW d \in Doors, VoterAt(d),
         NEW r \in Residents, NEW e \in Doors, NEW v \in Votes, Send(r, e, v),
         v = AlarmOf(e) <=> alarm[r][e], DoorOf(v) = e
  PROVE  VoterAt(d)'
<1>1. count' = count /\ again' = again /\ "none" \in Votes /\ "none" # AlarmOf(d)
  BY DEF Send, vars, historyOfClients, Votes, AlarmOf
<1>2. v = AlarmOf(d) => e = d
  BY DEF DoorOf, AlarmOf
<1>3. CASE line' = line /\ alarmed' = alarmed
  <2>1. AlarmsOf(d)' = AlarmsOf(d)
    BY <1>3 DEF AlarmsOf
  <2>2. QED
    BY <1>1, <1>3, <2>1, VoterKept
<1>4. CASE line' = Append(line, "none") /\ alarmed' = alarmed
  BY <1>1, <1>4, AppendedAlarm, VoterKept
<1>5. CASE /\ line' = Append(line, v)
           /\ alarmed' = IF alarm[r][e] THEN alarmed \cup {<<r, e>>} ELSE alarmed
  <2>1. CASE v # AlarmOf(d)
    <3>1. AlarmsOf(d)' = AlarmsOf(d)
      BY <1>5, <2>1, AppendedAlarm
    <3>2. e = d => alarmed' = alarmed
      BY <1>5, <2>1
    <3>3. \A q \in Residents : <<q, d>> \in alarmed' <=> <<q, d>> \in alarmed
      BY <1>5, <3>2
    <3>4. QED
      BY <1>1, <3>1, <3>3, VoterKept
  <2>2. CASE v = AlarmOf(d)
    <3>1. e = d /\ alarmed' = alarmed \cup {<<r, d>>}
      BY <1>2, <1>5, <2>2
    <3>2. <<r, d>> \notin again => <<r, d>> \notin alarmed
      BY <3>1 DEF Send, OnceInv
    <3>3. AlarmsOf(d)' = AlarmsOf(d) \cup {Len(line) + 1}
      BY <1>5, <2>2, AppendedAlarm
    <3>4. SUFFICES ASSUME \A q \in Residents : <<q, d>> \notin again,
                          NEW q \in Residents, <<q, d>> \notin alarmed'
                   PROVE  /\ count[d] <= 1 /\ (count[d] = 1 => AlarmsOf(d)' = {})
                          /\ \A j, k \in AlarmsOf(d)' : j = k
      BY <1>1, <3>1 DEF VoterAt
    <3>5. \A x \in Residents : <<x, d>> \notin alarmed
      BY <3>1, <3>2, <3>4, HouseAssumption
    <3>6. AlarmsOf(d) = {} /\ count[d] = 0
      BY <3>4, <3>5 DEF VoterAt
    <3>7. QED
      BY <3>3, <3>6
  <2>3. QED
    BY <2>1, <2>2
<1>6. QED
  BY <1>3, <1>4, <1>5 DEF Send

\* led_writer accepts a vote: an alarm goes from the line into the counter.
LEMMA AcceptVoter ==
  ASSUME HouseTypeOK, TypeOK, NEW d \in Doors, VoterAt(d), AcceptNext
  PROVE  VoterAt(d)'
<1>1. /\ again' = again /\ alarmed' = alarmed /\ line # <<>> /\ line' = Tail(line)
      /\ count'[d] = count[d] + Bool(DoorOf(Head(line)) = d /\ IsAlarm(Head(line)))
  BY DEF AcceptNext, AcceptVote, historyOfClients
<1>2. DoorOf(Head(line)) = d /\ IsAlarm(Head(line)) <=> Head(line) = AlarmOf(d)
  BY DEF DoorOf, IsAlarm, AlarmOf
<1>3. /\ AlarmsOf(d)' = {k \in 1 .. Len(line) - 1 : k + 1 \in AlarmsOf(d)}
      /\ 1 \in AlarmsOf(d) <=> Head(line) = AlarmOf(d)
  BY <1>1, AcceptedAlarm
<1>4. count[d] \in 0..2
  BY DEF TypeOK
<1>5. SUFFICES ASSUME \A r \in Residents : <<r, d>> \notin again
               PROVE  VoterAt(d)'
  BY <1>1 DEF VoterAt
<1>6. CASE 1 \notin AlarmsOf(d)
  <2>1. count'[d] = count[d]
    BY <1>1, <1>2, <1>3, <1>4, <1>6 DEF Bool
  <2>2. AlarmsOf(d) = {} => AlarmsOf(d)' = {}
    BY <1>3
  <2>3. (\A j, k \in AlarmsOf(d) : j = k) => \A j, k \in AlarmsOf(d)' : j = k
    <3> SUFFICES ASSUME \A j, k \in AlarmsOf(d) : j = k,
                        NEW j \in AlarmsOf(d)', NEW k \in AlarmsOf(d)'
                 PROVE  j = k
      OBVIOUS
    <3>1. j \in Int /\ k \in Int /\ j + 1 = k + 1
      BY <1>3
    <3>2. QED
      BY <3>1
  <2>4. QED
    BY <1>1, <2>1, <2>2, <2>3 DEF VoterAt
<1>7. CASE 1 \in AlarmsOf(d)
  <2>1. count'[d] = count[d] + 1
    BY <1>1, <1>2, <1>3, <1>7 DEF Bool
  <2>2. ~\A r \in Residents : <<r, d>> \notin alarmed
    BY <1>5, <1>7 DEF VoterAt
  <2>3. ASSUME \E r \in Residents : <<r, d>> \notin alarmed
        PROVE  count[d] = 0 /\ AlarmsOf(d)' = {}
    <3>1. count[d] <= 1 /\ (count[d] = 1 => AlarmsOf(d) = {}) /\ \A j, k \in AlarmsOf(d) : j = k
      BY <1>5, <2>3 DEF VoterAt
    <3>2. count[d] = 0
      BY <1>4, <1>7, <3>1
    <3>3. \A k \in 1 .. Len(line) - 1 : k + 1 \notin AlarmsOf(d)
      BY <1>7, <3>1
    <3>4. QED
      BY <1>3, <3>2, <3>3
  <2>4. QED
    BY <1>1, <2>1, <2>2, <2>3 DEF VoterAt
<1>8. QED
  BY <1>6, <1>7

LEMMA VoterStep ==
  HouseTypeOK /\ TypeOK /\ OnceInv /\ VoterInv /\ [HouseNext]_houseVars => VoterInv'
<1> SUFFICES ASSUME HouseTypeOK, TypeOK, OnceInv, VoterInv, [HouseNext]_houseVars,
                    NEW d \in Doors
             PROVE  VoterAt(d)'
  BY DEF VoterInv, VoterAt
<1>1. VoterAt(d)
  BY DEF VoterInv, VoterAt
<1>2. ASSUME UNCHANGED <<line, alarmed>>, again \subseteq again', count'[d] \in {count[d], 0}
      PROVE  VoterAt(d)'
  BY <1>1, <1>2, VoterKept DEF AlarmsOf
<1>3. CASE AcceptNext
  BY <1>1, <1>3, AcceptVoter
<1>4. CASE AlarmStep \/ Remove \/ UNCHANGED houseVars
  <2>1. UNCHANGED <<line, alarmed, again>>
    BY <1>4 DEF AlarmStep, Remove, houseVars, homeVars, historyOfClients
  <2>2. count'[d] \in {count[d], 0}
    BY <1>4 DEF AlarmStep, WriterStep, Open, Evaluate, Arm, Reset, TimerStep, Tick, Expire,
                CallbackOff7, CallbackOff8, Remove, Rmmod, Exit7, Exit8, DelTimer, houseVars, vars
  <2>3. QED
    BY <1>2, <2>1, <2>2
<1>5. ASSUME NEW r \in Residents, NEW e \in Doors, NEW cross \in BOOLEAN,
             PhotoClient(r, e) \/ AlarmClient(r, e) \/ VideoFails(r, e) \/ Click(r, e, cross)
      PROVE  VoterAt(d)'
  <2>1. UNCHANGED <<line, alarmed, count>> /\ again \subseteq again'
    BY <1>5 DEF PhotoClient, Run, Watch, Dismiss, AlarmClient, VideoFails, Click, Started,
                historyOfClients, vars
  <2>2. QED
    BY <1>2, <2>1
<1>6. ASSUME NEW r \in Residents, SendFront(r) \/ SendBack(r)
      PROVE  VoterAt(d)'
  BY <1>1, <1>6, SendsAVote, SendVoter
<1>7. QED
  BY <1>3, <1>4, <1>5, <1>6
     DEF HouseNext, FrontPhotoClient, BackPhotoClient, FrontAlarmClient, BackAlarmClient

\* The LED of a door is lit only by the alarms of both residents about it, as long
\* as nobody runs that door's client a second time.
THEOREM LightNeedsBoth == HouseSpec => []LightMeansBoth
<1>1. HouseInit => OnceInv /\ VoterInv
  BY DEF HouseInit, Init, OnceInv, VoterInv, AlarmsOf
<1>2. TypeOK /\ LedInv /\ VoterInv => LightMeansBoth
  BY DEF TypeOK, LedInv, CountInv, VoterInv, LightMeansBoth
<1>3. Spec => [](TypeOK /\ LedInv)
  BY LedInvHolds, LedAssumption
<1>4. QED
  BY <1>1, <1>2, <1>3, OnceStep, VoterStep, HouseUsesAlarm, PTL DEF HouseSpec
=============================================================================
