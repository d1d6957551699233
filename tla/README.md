# A verification of the NCTU embedded operating systems programs

The repository is a term's work in embedded operating systems: three homework programs that grow into a food-delivery
server (`hw1` - `hw3`), lab exercises on drivers, sockets, processes, threads, shared memory and signals (`lab3` -
`lab7`), and a final project, a door alarm with cameras (`Final_project`). The programs share no code. What they have
in common is what makes them hard: processes, threads, signals, drivers and clients that meet in shared state.

The verification covers all of these programs but those of section 5. It consists of TLA+ modules, TLC runs on small
instances, and TLAPS proofs that hold for every instance. `PROJECT.json` lists the components, the runs, the mutants
each property is tried against, the source lines of each definition, the hazards and the theorems. To repeat a run:
`tlc -config X.cfg M`; to repeat a proof: `tlapm M.tla`.

## 1. Inventory

| part | state | operations | what is hard | what makes it correct |
|---|---|---|---|---|
| delivery server, `hw3/hw3.c` | per client process: the order globals, `pc`; shared: `delivery_shm`, `result_shm`, semaphore `s` | shop list, order, confirm, cancel; countdown once a second; Ctrl+C | processes on shared memory, a question asked inside the critical section, hang-ups, signals | backlogs only touched under `s`; the estimate is the wait; couriers serve in turn; totals = meals delivered; confirmations are served; Ctrl+C ends all |
| single-client server, `hw2/hw2.c` | the same order globals, one per program | the same commands; one courier | globals outlive a client; a client that is gone | the order is of one shop, at its distance and price; nothing is inherited from an earlier client |
| ordering terminal, `hw1/hw1.c` | the choices of an order, the parity `led_flag` | choose, order, confirm; digits and LEDs written to the driver | two writes a kilometre, their parity kept in a global; numbers scanf lets through | the display shows the sum; the LEDs count the distance down |
| drivers of `lab3`, `hw1`, `lab4`, `led_driver.c` | region, cdev, class, device, GPIOs | probe, write, remove | goto clean-up, one failing call of many, pins others hold | what is taken is freed, and nothing else |
| marquee, `lab4` | one letter in a driver, a connection to the window | write a letter; read its picture, send it, show it | writer and reader run at their own speed; both may be started again | letters come on in order, the last one always |
| train server, `lab5` | child processes, SIGCHLD, descriptors | accept, fork, exec, reap; Ctrl+C | SIGCHLD does not queue; a parent that waits; inherited descriptors | no zombie goes unnoticed; a client sees the end of its train; nobody waits for ever, nor for the train of another |
| web ATM, `lab6` | the account, thread table, `user_num`, a mutex or a System V semaphore | deposit and withdraw by client threads; Ctrl+C | the connection handed over by pointer; a busy-wait for the fourth client | the account is the sum of the operations; every client is answered by its own thread; the semaphore outlives its threads |
| number game, `lab7` | a shared record {guess, result}, SIGUSR1, an interval timer | answer a guess; halve the interval | the two processes poll and signal each other without a lock; either may be stopped | the interval keeps the number; the guess converges on it |
| alarm lights, `Final_raspberry/led_*.c` | four counters of votes, two LEDs, one timer | take a vote, light, time out, unload | the timer's callback runs beside the write; counters outlive an incident | no LED stays lit; two alarms light a door |
| residents, `deliver_photo/*_client_tcp.c`, `alarm_system`, and the video client from outside | per resident and door: a photo client, a video client | show the photo, watch, dismiss, vote | four programs a resident, connections that fail half-way | a LED means both residents' alarms; both alarms light it |
| door watch, `Final_raspberry/trig_face*.py`, `pir_sensor.c` | the flags `detecting`, `camera`, the list of recognitions; pids of each other | motion signals the recognition; it takes a photo, signals the photo server, starts the video server | signals that coalesce or come early; flags that are not reset | every motion is looked at; the photo is taken before it is sent |
| photo delivery, `deliver_photo/*_server_tcp.c` | a global buffer, a send flag, client threads | wait for an intruder, send the photo | one buffer for all threads; the flag is never reset | every client gets every whole photo |
| live video, `deliver_realtime` | the current frame, a frame being assembled | capture, send in datagrams, reassemble, vote | capture overwrites what is being sent; datagrams are lost | a shown image is complete, in place and of one frame; the user is answered even after losses |
| video file, camera tests, face recognition, `backup`, `ta_tutorial` | - | - | - | not modelled: sequential, library code, superseded or course material |

How the parts of the delivery server interact: `main` forks one process that accepts connections and itself becomes
the *main process*, which only runs `counting_time_CS`. Each accepted connection gets a process by `fork`, which runs
the dialog in `handleClient`. All of them are attached to two shared-memory segments, the couriers' backlogs
(`delivery_shm`) and the totals (`result_shm`), and to one System V semaphore. `safe_close_routine` is the SIGINT
handler of all of them.

In the final project a camera process per door (`trig_face.py`, `trig_face2.py`) is signalled by the motion sensor's
process; it signals the photo server and starts the video server. A resident's photo client starts the video client,
which votes over TCP; `led_writer` counts the votes and writes to `led_driver`. The parts share nothing but these
messages and signals. So door, video and lights are modules of their own, and the one place where many of them meet,
the votes, is `House`.

Many files are copies: those under `311512064_*` (lab3, lab4, lab6, hw2) repeat the lab's programs, lab6 has its
server and its client several times, `hw2/server.c` is `lab5/server.c`, and the video servers under Final_project
differ from those under Final_raspberry in one pause. `map` names the copy that was read.

## 2. Modules

```
CourierService           Order          GuessGame   WebATM    TrainServer  DoorWatch   LiveVideo   LedAlarm      Probe
      ^  implements      /   \              |          |           |           |           |        /     \         |
      |          Dispatch     OrderSession  MCGuess-  MCWebATM  TrainProofs  DoorWatch-  LiveVideo-  |     House   Drivers
      +-----------/   |           |         Game,     Account-                Proofs      Proofs     |     /         |
             MCDispatch     MCOrderSession  GuessGame- Proofs                                  LedAlarm-         Display
             DispatchProofs AccountProofs   Proofs                                              Proofs              |
                                                                                                                 Marquee
                                                                                                                 /     \
                                                                                                          MCDisplay  DriverProofs
```

A module is one component, its MC module (where it has one) gives constants that a .cfg cannot express, its Proofs
module holds theorems only (AccountProofs those of OrderSession and of WebATM). Downwards is EXTENDS. A definition
whose name ends in `_Something` under the comment *Mutant* is a plausible bug, kept to show that a run would find it;
nothing uses it.

### The delivery servers

**Order** - the order one process keeps, as a record, and the functions of `hw3.c` on it as operators:
`MeasureDistance` is the side effect of `get_shop_name` (the distance is only set while `first_order` holds),
`ShopName` its result, `ChooseShop` the first `order` command, `update_num_price`, `show_current_order` and
`reset_order` the functions of these names, `OrderItem` the whole `order` command. The text of replies is not
modelled; `show_current_order` is the set of items it lists.

**OrderSession** - these operators as the actions of one process and the clients it serves one after the other;
`server` says whether the process is that of `hw2.c` or one of `hw3.c`. hw2 has its own `get_shop_name`, which sets
the distance on every call. `HangUp` makes later reads return nothing, so that the last command is taken again until a
send raises SIGPIPE. `named` and `sleeping_for` are history: the shops of whose items the client has spoken, and the
shop whose delivery is under way.

**Dispatch** - the whole server. A step is what a process does between two accesses to shared memory or two system
calls. The main process goes through P, load, store, V, sleep; a client process through read, P, estimate, (reply),
schedule, store, V, sleep and the four steps of the two updates of the totals. Loads and stores of shared variables
are separate steps, so lost updates are possible where the code allows them. In particular:

* `MainLoad`/`MainStore` are the two halves of `delivery_shm[i] = delivery_shm[i]-1`; `Schedule`/`StoreBacklog` those
  of `schedule_and_wait`; `LoadCustomer` ... `StoreIncome` those of the totals. `Estimate` reads both backlogs in one
  step: `MutualExclusion`, checked and proved, says nobody can write between the two reads.
* The pthread mutex around the totals does not appear: it is a global, so after `fork` each process has its own, and
  nobody ever waits for it.
* `Reads` is the read at the head of the dialog. It returns 0 once the client has hung up; the code does not look at
  that and interprets its old buffer again. The buffer is followed for the clients in `Quitters` only, as nobody
  else's is ever read twice.
* `SigPipe` - a send to a client that has gone may kill the process, since nothing ignores SIGPIPE. The semaphore is
  taken without SEM_UNDO and stays taken.
* A process that is done with its client returns from `handleClient` into `main`'s accept loop and is from then on one
  more acceptor. All acceptors hold a reset order, so a client *slot* is simply reused (`Connect`, `Leave`).
* `CtrlC` signals the whole foreground process group. After it a process may still touch memory, but its next system
  call runs `safe_close_routine`: steps with a system call ask for `~sigint`, and `MainSafeClose` / `ClientSafeClose`
  are possible anywhere.
* `sleep` counts whole seconds; `Tick` is a second for every sleeper. A process may wake late, never early. A client
  process has no children, so no SIGCHLD cuts its sleep or its `semop` short; the main process's only child is the
  first acceptor, which never ends.

**CourierService** - what the couriers promise, without processes or a lock: an order goes as a whole to a courier
with the least work, its client waits for all that courier's work, a backlog otherwise shrinks by one. `Dispatch`
implements it under the mapping `Service` (a client is *assigned* when its process stores the new backlog).

### Drivers, terminal and marquee

**Probe** - insmod and rmmod of one driver at a time. An init function is the *sequence of its calls*, each with what
the label it goes to gives back when it fails; the exit function is a sequence, too. `Succeeds`, `Fails`, `GiveBack`
execute them one by one, while others in the kernel ask for pins (`OtherRequests`, `OtherFrees`, one pin at a time).
The code compares what class_create and device_create return with NULL, but they return error pointers: their failure
goes unnoticed (`Unnoticed`), and a device_destroy with an error pointer for its class is the end (`mode = "oops"`, in
which nothing is claimed any more).

**Drivers** - the five drivers as such tables. The labels of lab3 and hw1 are one: `r_gpio` frees every pin, requested
or not. The branches behind `gpio_is_valid` cannot be taken with these pins and do not appear.

**Display** - `hw1.c` and the writers of lab3 on their drivers. A character is its distance to '0', which is what the
drivers compute with; `set_7seg_display`, `set_display` and `set_led_display` are the levels of the pins, and `shown`
is what somebody reads off them (`DigitSeen`, `LedsSeen`). `Write` is one iteration of `write_to_dev`: character, LED
count, parity. The distance of a shop that does not exist is an uninitialized variable (`Confirm`), which `CountsDown`
shows never to matter. A device that is open keeps its driver from being removed.

**Marquee** - lab4 on top of Display: `writer.c`, the one letter in `mydev`, `reader.c`, its connection and `seg.py`.
`names` and `written` are history: they give each picture on its way the place in which its letter was written.
`seg_for_c` has a row for each capital; for a small letter it reads behind its end, so any picture may come
(`seg_for_c`).

### Train server, web ATM and number game

**TrainServer** - the three servers of lab5, of which one runs at a time; after Ctrl+C any of them may be started
while trains of the last one still run. A train is the child's name; `holders` and `listeners` are the processes with
a descriptor of a connection and of the listening socket, since a socket lives as long as its last descriptor. henry's
children never close the listening one, sl ignores SIGINT, so the port stays taken. `stop_child` is `HandleChld` and
one `Reap` per `waitpid`.

**WebATM** - `lab6/server_binary_semophore.c`: the main thread (`MainAccept`, `MainCreate`, `MainCount`), one thread
per connection (`Start` ... `Close`), the account and its semaphore. `server_mutex.c` takes the same steps with a
mutex. The thread gets the *address* of `client_socket`: `Start` reads what is there by then. Descriptors are reused,
lowest first, so a thread can read, and close, a connection that is not its own; if the connection has been read
already the second `read` returns nothing and the thread goes on with what its uninitialized variables hold
(`Garbage`). The Makefile does not optimise, so the busy wait for the party reads `user_num` anew each time. Ctrl+C
runs the handler in the main thread, which joins all threads. SIGINT is blocked there meanwhile, and a second one runs
the handler in another thread, whose join fails and exits (`CtrlCAgain`). With `version = "henry"` it is the earlier
`done_mutex/henry.c`: each thread has its own descriptor, nobody waits for a party, Ctrl+C removes the semaphore
without a join, and a semop that fails ends the program.

**GuessGame** - `lab7/game.c` and `guess.c` with the shared segment, SIGUSR1 (at most one is pending), the handler in
three steps (the answer is copied byte by byte: `"partial"` in between), a guess.c that is stopped at any step and
started again on the segment it left, and Ctrl+C in the game, which removes the segment (a guess.c started then gets
an `"empty"` one). Nothing makes guess.c wait for the answer but the second between two guesses, so nothing does in
the model: it goes at any pace. Two history variables say what becomes of that: `about`, the guess the answer in the
segment is about, and `misled`, whether guess.c has gone on (its interval or its guess changed) while the segment held
no whole answer to its own guess. Such a guess.c may lose the number for ever, so the properties say what holds until
it is misled, and `MisledByHaste` what must have happened before.

### The final project

**DoorWatch** - `pir_sensor.c`, the recognition and the photo server of one door, three processes and the two signals
between them; `door` chooses `trig_face.py` and `front_server_tcp.c` or `trig_face2.py` and `back_server_tcp.c`. `Pir`
is a second of the sensor's loop: reading the line and `kill` are one step, as nothing else looks at the line. SIGUSR1
does not queue, so a pending signal is a Boolean; Python runs its handler between any two instructions
(`HandleSignal`), the photo server's runs in any of its threads (`UsrHandler`). A look is `Frame` repeated, with any
faces in each frame, then `Judge` and either `Rest` or `Save`, `Saved`, `Kill`. The front door saves the last frame
with a face, the back door the last frame, which may be none at all: then `imwrite` raises and the program ends. `bad`
counts the strangers in `bad_list`, which is never cleared; `MaxFrames` of them already pass the ratio of any look, so
it stays there. The ratio is compared in integers, `10 * bad > 6 * count`. `Save` and `Saved` are the two ends of
`imwrite`: between them the file is partial. The photo server's threads wait for the flag (`Open`), read a piece into
the one buffer (`Read`) and send what is in it by then (`Write`). A write to a client that is gone may still succeed,
fail, or raise SIGPIPE and end the server; `os.kill` to a server that has ended raises an exception and ends the
recognition. That the operator starts a program again is not modelled, nor is the video server here.

**LiveVideo** - the video server and client of one door (`door` chooses the pair and its votes). The camera thread
copies a frame into the shared buffer chunk by chunk while the sender sends the buffer chunk by chunk. The network
keeps the order of datagrams and may lose any; since the client never influences the sender, a datagram is delivered
or lost in the step that sends it. The client appends chunks until an empty datagram comes, shows the image if it is
full, and only then looks at its user's clicks. There are two history variables: `missing`, the datagrams lost since
the last empty one arrived, and `overtaken`, whether the camera thread has copied while the datagrams of this round
were sent. A frame is taken to be 153600 bytes (320 x 240 YUYV), four whole chunks. `recvfrom` is taken not to fail.

**LedAlarm** - `led_writer.c` and `led_driver.c`: `Accept` is one vote (accept, read and count are local to one
process), `Open`, `Evaluate`, `Arm`, `Reset` what follows. `etx_write` is two steps, the GPIO (`Light`) and
`mod_timer` (`Arm`), because the callback, again two steps, may run on another processor between them. `Rmmod` is the
driver's exit, possible whenever the device is not open; its `del_timer` does not wait for a callback that runs.

**House** - LedAlarm with the residents who vote: for each door a photo client with its two buttons, the video client
as LiveVideo shows it from outside (a click decides, or it fails), and the alarm programs, which send an alarm without
asking. `line` is what the connections to led_writer carry and it has not accepted; a connection may be made and
nothing sent. House is one of the environments LedAlarm allows, which is proved (`HouseUsesAlarm`), so what is proved
of LedAlarm holds in the house.

## 3. Runs

| run | module, cfg | checks | shows |
|---|---|---|---|
| dispatch_safety | MCDispatch, DispatchSafety | MutualExclusion, EstimateHonoured, NeverOvercounted, BacklogCoversWaits, ServedInTurn, ImplementsService | three clients at once on two couriers, one of whom may hang up anywhere: the backlogs are safe and so are the estimates, and the server implements CourierService |
| dispatch_live | MCDispatch, DispatchLive | ConfirmIsServed, CtrlCEndsAll | with clients that answer, confirmations are served, and Ctrl+C ends every process |
| dispatch_lost_update | MCDispatch, DispatchLostUpdate | ResultComplete, **violated** | two processes lose a customer or an income: the mutex is private |
| orders | MCOrderSession, OrderSession | OneShopAndPrice, DistanceOfShop | the real menu, all items and an unknown one, quantities -1 .. 2 (atoi accepts all), clients one after the other and hang-ups, in hw2 and hw3: an order is of one shop, its distance and price are those of the items the client is shown, and a later client inherits nothing |
| display | MCDisplay, Display | NothingIsLeft, PinsAreKept, DigitsAreShown, CountsDown, LettersInOrder, LastLetterIsShown | five drivers with any call failing and others asking for pins: a failed probe and a removal leave nothing behind; prices, arguments and the countdown are shown whole; letters come on in order, the last one always |
| train | TrainServer, TrainServer | ZombieIsNoticed, EndIsSeen, NobodyWaitsForever | three clients, trains that end together, fork failing, Ctrl+C and another server: nobody is left a zombie or waiting, and nobody waits for the train of another at henry |
| web_atm | MCWebATM, WebATM | NoOperationLost, SemaphoreOutlivesThreads, RequestsExecuted, PartyIsServed, CtrlCEndsServer | three users with deposits and withdrawals, in the server of lab6 any of them on the wrong connection, Ctrl+C once or twice, and henry.c |
| guess_game | MCGuessGame, GuessGame | NumberInInterval, BingoIsRight, MisledByHaste, NumberIsFound | every number of the range, the upper bound included, at any pace, with a restart anywhere: the number is lost only to an answer to another guess, which only haste or a restart brings about; otherwise it is found, but for the upper bound, which never is |
| door_watch | DoorWatch, DoorWatch | PhotoFirst, WholeUnlessOverwritten, StayingIsLookedAt, IntruderIsReported | either door: somebody comes and goes, camera and sensor may fail, two clients connect at any time and may hang up: the photo is complete before anybody reads it and is sent whole unless overwritten, whoever stays is looked at, and a recognized intruder is reported to every client that waits |
| live_video | LiveVideo, LiveVideo | ImageFits, ShownInPlace, ShownIsOneFrame, ClickIsAnswered | losses at any four places, the camera copying at any time, at either door |
| led_alarm | LedAlarm, LedAlarm | LitIsTimed, LightsGoOff | six votes for two doors, in any order, against the callback and rmmod |
| house | House, House | LightMeansBoth, BothAlarmsLight | two residents, each with clients for two doors, up to two votes of each door, mixed, empty, late or never sent |

The longest take two to three minutes (display, door_watch, live_video).

**Bounds.**

* *Order, OrderSession*: the real menu and distances. `MaxQuantity` bounds a single count, either way; every
  combination of items occurs below it.
* *Dispatch*: distances are 1 and 2 instead of 3, 5, 8 and `LongWait` is 1 or 2 instead of 30. What matters is that a
  wait can be below, at and above the limit, and both couriers busy, which three orders achieve. `MaxAccepted` bounds
  the connections of a behaviour, so that the backlogs stay finite. `MaxPrice` bounds an order's price; where the
  totals play no part it is 0, which makes orders without a quantity stand for all orders of a shop. With three
  clients all order at one shop and one of them may hang up, which makes the three of them two kinds of clients
  (symmetry among the equal ones); dispatch_live has both shops.
* *Display*: `MaxItems` 2 items an order, of quantities -1, 1 and 9, give prices of two to four digits and negative
  ones. Pins others may ask for: 21, which three drivers share, the first of two of them and the last of the third;
  both pins of led_driver; and the last one of hw1. *Marquee*: `MaxNames` 3 are the 'A' the driver begins with and two
  names, the least in which a letter of the one can be under way while the other is written; `MaxQueue` 2 so that one
  picture can follow another. There is one writer at a time.
* *TrainServer*: three clients: one whose train runs on, one that ends with it, one in the backlog.
* *WebATM*: a party of 3 instead of 4, with as many users (a user too many makes the party's wait miss its value, see
  section 6): two make a race, the third a bystander. One deposit done twice, one withdrawal done once.
* *GuessGame*: `Upper` 25 instead of the 100 of demo.sh takes five halvings instead of seven, with all numbers from 1
  to 25; with 100, too many intervals of misled guess.c's are reachable. One restart leaves any guess and answer
  behind, and more add no new kind of segment.
* *DoorWatch*: two clients and a photo of two pieces are the least in which one thread can overwrite what another has
  read; two frames of at most one stranger and one known person give ratios below, at and above the limit, also with
  strangers of an earlier look.
* *LiveVideo*: three chunks a frame instead of four, so that four losses (`MaxLost`) are a whole round with its empty
  datagram, the case in which the client is a round behind. `MaxClicks` is 2 so that a second click can revise the
  first. Frames are numbered modulo 2: two that meet in one image suffice.
* *LedAlarm*: six votes complete three rounds, so both doors can be lit at once and one of them again; `Period` 2 lets
  the timer be moved while it runs. *House*: two residents, as led_writer expects; `MaxRuns` 2 for each of them and
  `MaxVotes` 4 are a whole round at both doors, in any mixture and one after the other, or one round and votes that may
  get in its way: empty, or from the same resident again. `Period` 1, since the timer is led_alarm's question.

**Deadlock** is not checked: all these programs may stop. A process killed in the critical section keeps the
semaphore, Ctrl+C or SIGPIPE ends servers, an oops ends the kernel's part, bounds end the clients.

**Fairness.** Always of the program's own runnable steps, never of users, clients, the network or Ctrl+C.

* *Dispatch*: `FairSpec` has weak fairness of each process's own steps and of time, and strong fairness of taking the
  semaphore: waiters of a System V semaphore are queued and woken in turn. `PatientSpec` adds that a client that is
  asked a question answers it; without, ConfirmIsServed fails (section 6).
* *Marquee*: reader.c and seg.py are scheduled. Nobody has to start a program, write or go on writing.
* *TrainServer*: the server and its handler are scheduled. A train arrives in the end (sl takes as long as the
  terminal is wide) if lab5 waits for it or its server is gone; henry's need not.
* *WebATM*: weak fairness of the threads, strong of P for the same reason as in Dispatch.
* *GuessGame*: both processes are scheduled, and guess.c, which looks once a second, does not for ever meet the few
  instructions in which an answer is being copied. That it waits for the answers is not assumed.
* *DoorWatch*: the sensor's loop, the recognition, its handler and the photo server's threads are scheduled. Nobody
  has to come, stay, connect or press a key. Cameras, sensors and servers may fail; the properties allow for it.
* *LiveVideo*: the sender's thread and the client are scheduled. Losses end because there are at most `MaxLost`; the
  properties allow for a server that exits, and start once there is a frame.
* *LedAlarm, House*: led_writer and the kernel's timers go on. Residents do what they like.

## 4. Proofs

The theorems hold for all values of the constants that satisfy the module's named assumptions: any set of clients, any
menu and limit, any number of users, requests, votes, names and chunks, any upper bound, any tables of calls. In every
proof the step lemma has one step per action, and the temporal theorem joins `Init`, the step and the consequence.

* **Dispatch.** `TypeCorrect`: `Spec => []TypeOK`. TypeOK is split by the owner of the variables, and one lemma per
  part says which steps can disturb it. `SafetyInvHolds`: mutual exclusion is not inductive as it stands. It needs
  that the semaphore is 0 while somebody is inside (`LockInv`), and that what a process has read under the semaphore
  is still true (`CountdownInv` for the main process, `AssignInv` for a client process). `SafetyInv` is the
  conjunction of these with `BacklogCoversWaits`, and is inductive relative to TypeOK. `MutualExclusionHolds`,
  `EstimateIsHonoured` and `WaitsAreCovered` follow. `CouriersServeInTurn` is the action property that follows from
  the invariant in the state before the step.
  `NobodyIsOvercounted` has an invariant of its own: a client about to be counted has a customer to spare, over the
  total as it is and as any other process is about to store it (`CountInv`, with a cardinality: a lost update makes
  the total smaller, never larger). `PlatformImplementsService` is the refinement: `StepImplements` maps every step of
  Dispatch to one of CourierService or none. That a courier with the least work is chosen needs `AssignInv` (the
  backlog read under the semaphore is still the courier's), that the amount is a distance of the platform
  `DistanceInv`, that an order is delivered no sooner than promised TypeOK and the wait itself.
* **Order.** `ResetIsFresh` (DispatchProofs): a reset order and the order of a new process react alike to every
  `order` command. `reset_order` forgets `initial_shop`; the theorem is why that is harmless and why Dispatch may use
  EmptyOrder.
* **OrderSession** (in AccountProofs, which the web ATM shares: both need sums). `SessionInvHolds`: the price is
  the sum over the whole menu, since items the client is not shown count 0 (`BooksInv`), and what has been named so
  far decides what the distance is (`DistanceInv`). `OrdersAreOfOneShop` and `DistancesAreOfTheShop` follow, for any finite menu, in hw2 and hw3.
* **Drivers.** `ProbeInvHolds`, for any tables with `LadderAssumption`: a call that fails gives back at least all that
  the calls before it took, and the exit function gives back everything. TLC evaluates the assumption for the five
  drivers: that is where a wrong label would show. The invariant says what the driver has at each stage: what its
  calls so far took, or, while it gives back, at most what is still to come. `FailedProbeLeavesNothing` and
  `LoadedDriverHasAll` follow, for the composition with the programs, too (`MarqueeUsesDrivers`). `LoadedHasAll` has
  no run: it holds although `r_gpio` frees others' pins, since a loaded driver's own pins are freed by nobody else in
  the model. `PinsOfOthersAreKept`: what the driver is about to free is its own, each pin once (`PinsInv`); here
  the tables are those of the repository, whose lists `ListsOfDrivers` goes through.
* **Display.** `DisplayInvHolds` for any prices, quantities and arguments. `CountsDown` speaks of the writes of an
  order, two for each kilometre; what makes it inductive is an equation between the writes so far, the parity and the
  LEDs lit (`PairInv`), with the parity even at each order's begin. `NumberInv` says which digit each write showed:
  `DigitsComeOut` then needs that the digits of a number make it up again (`DecimalIs`, by induction over numbers),
  and that the tables of segments have no two rows alike (`RowsDiffer`). `MarqueeIsDisplay`: the programs of lab4
  run beside these, so both hold in the composition that is checked.
* **Marquee.** `OrderInvHolds`: panel, connection, reader and driver hold letters in the order in which they were
  written (each not before the one ahead of it). `LettersInOrder` speaks of two pictures on the panel only, and what
  comes on next is decided long before in the connection and the reader; hence the chain. `LettersComeInOrder`
  follows.
* **TrainServer.** `TrainInvHolds`: a zombie is noticed only because nobody but its own server has it as a child
  (`ChildInv`): a client gets its process when it is served, lab5 has one child and waits for it, orphans are never
  zombies. `ZombiesAreNoticed` follows.
* **WebATM.** `ATMInvHolds`: who is inside holds the semaphore and has loaded the current account (`LockInv`); main
  removes the semaphore only behind the join (`EndInv`). `NoOperationIsLost` and `SemaphoreOutlives` follow, whatever
  a misled thread has read. `RequestsAreExecuted`: what is applied is the sum of each user's share, amount times
  operations so far (`ShareInv`); and a thread of henry.c has its descriptor for itself until it closes it
  (`PrivateInv`), so the exception for misled threads is not needed there.
* **GuessGame.** Nothing is assumed of the pace of the two programs or of where guess.c is stopped.
  `NumberStaysInInterval` and `BingoIsAlwaysRight` rest on `GuessInv`. A handler may run late, so that what it has read
  is not the guess in the segment any more, without anybody being misled: before the first answer guess.c repeats its
  first guess (`FirstGuess`), and after it a second signal for one guess brings the same answer again. What makes this
  inductive is that a guess that hits the number is not replaced while its "bingo" is on the way. `OnlyHasteMisleads`
  is the action property: until a restart, once no signal is pending or handled the answer is the one to the guess
  (`HasteInv`).
* **DoorWatch.** `TypeCorrect`, and `PhotoInvHolds`: a stranger counted means a frame kept, which is what is saved (at
  the back door, a frame that is not `None` once it is saved); the signal is sent only in the state after `Saved`,
  which is never left towards another `Save`; the flag needs the signal, a thread past its wait the flag. `PhotoFirst`
  alone is not inductive, since a thread's past does not show what the recognition will do next. `PhotoIsFirst`
  follows. `PhotoIsWhole`: what a client has is what its thread has read, but the piece in the buffer (`PieceInv`).
* **LiveVideo.** `VideoInvHolds`: as long as less than a round of datagrams is missing, the chunks received and the
  missing ones add up to what the sender has sent in this round, or to that and a whole round more (`InStep`). This
  equation, not the chunks' positions, is what is inductive. `ImageAlwaysFits` and `ShownIsInPlace` follow.
  `ShownFrameIsOne` adds `FrameInv`: until the camera thread overtakes the sender, what is sent and what has been
  received are the frame the round began with.
* **LedAlarm.** `LedInvHolds`: a door's counters are those of its current round and reach two only while the vote that
  completed the round is handled (`CountInv`), which is why the `else` in led_writer never starves the back door.
  `ModuleInv` says nobody writes to a driver that is being removed. `LitLedIsTimed` and `OnlyARoundLights` follow (the
  latter has no run: house checks what it means for the residents). `HouseUsesAlarm`: every step of House is one of
  LedAlarm or none. `LightNeedsBoth`: `LightMeansBoth` looks at one state, but an alarm is on its way for long; as
  long as nobody runs a client of a door again, each of its alarms, in the line or counted, has a voter of its own
  (`VoterInv`), because whoever still runs its client has not voted (`OnceInv`).

The inductive invariants are not checked by a run of their own since they are proved.

*Recursive functions.* The sums over users and over items, the digits of a price and the digits of an argument are
recursive functions. The library's induction theorem for naturals has an operator as its parameter, which the provers
cannot instantiate. The proofs use induction over a *set* instead (`SetInduction`: a set of naturals with 0 and all
successors is Nat; it follows from the well-foundedness of `<`): first there is a function with the equations (so that
the CHOOSE behind the definition is that function), then the function has the property, each by showing that the set
of the numbers for which it is so is Nat. For sums over sets the number is the cardinality (`SizeInduction`).

Every invariant and every action property of the passing runs is stated by a theorem, and so is the refinement.
Model-checked only: liveness, which is out of the prover's reach: `ConfirmIsServed`, `CtrlCEndsAll`, `EndIsSeen`,
`NobodyWaitsForever`, `PartyIsServed`, `CtrlCEndsServer`, `NumberIsFound`, `LastLetterIsShown`, `StayingIsLookedAt`,
`IntruderIsReported`, `ClickIsAnswered`, `LightsGoOff` and `BothAlarmsLight`.

## 5. Not modelled

* Formats of messages and replies, the 256-byte transfers, 32-bit overflow of quantities and prices, failures of
  `semget`, `shmget`, `fork` (but in lab5), `accept` and `pthread_create` at start-up (the programs exit).
* Undefined behaviour whose outcome is a matter of the allocator or of the stack: `show_current_order` on an empty
  history (hw3.c:415), the eleventh thread of lab6 (server_binary_semophore.c:231), hw1's `buff_num`, one byte short
  for the price's terminator.
* rmmod of led_driver under a callback that is running (led_driver.c:127): whatever the processor then executes is no
  behaviour of the program.
* `alarm_server.c` (an older led_writer on the same port, without votes against an alarm), `indicate.c`, the photo
  servers under Final_project, which send to whoever connects, the older video clients under Final_raspberry, which
  vote only for an alarm; the drafts `mydev _new.c` and `test.c` of lab4; drawing in the clients.
* The interactive client of hw2: terminal input and output. (It reads before it sends, client.c:48, while hw2.c's
  greeting is commented out.)
* Video files, camera tests, face recognition, `backup`, `ta_tutorial`: sequential, library code, superseded, course
  material.

### What is left

In the order of what it would add: the safety parts of the liveness properties as theorems (that a courier's
countdown never skips a client, that a zombie noticed stays noticed until it is reaped); abstract specifications for
the web ATM (an account with atomic operations) and the photo server (a register of pieces) with proofs that the
threads implement them; DoorWatch and LiveVideo in one model with the operator who starts a server again.

## 6. What the code does not promise

Met while modelling; each is outside the properties above for the reason given.

* **Delivery server.** `result.txt` may miss a meal that has arrived when Ctrl+C comes before it is counted
  (hw3.c:494; the assignment asks for all, the assignment's html:112, 115-116). A client that does not answer the
  question holds the semaphore, and everybody waits (hw3.c:293; `ConfirmIsServed` fails under FairSpec). A wait of
  exactly 30 is not asked about (hw3.c:281). An order command without a quantity makes an order without a meal that
  can be confirmed (hw3.c:269). Confirmations may overtake each other between the read and P(s) (hw3.c:276).
  Quantities and prices may overflow. A process killed by SIGPIPE inside the critical section leaves the semaphore at
  0 for ever (hw3.c:291), so liveness is only claimed for clients that stay.
* **hw2.** The distance is set by every item that is looked up, refused ones of another shop included (hw2.c:178),
  though the assignment has it that the shop is the first item's ("src/hw2/Hw 2_spec.html":91, :118): `DistanceOfShop`
  is claimed for clients that name no other shop's items. A client that is gone keeps the server in its loop until
  SIGPIPE ends it (hw2.c:115).
* **Drivers.** A failed gpio_request in lab3 and hw1 frees every pin of the driver, somebody else's included
  (my_driver.c:199; `PinsAreKept` excepts these). A class or device that could not be created is not noticed
  (my_driver.c:157), and a later device_destroy follows an error pointer.
* **hw1.** Quantities may be negative; a negative total is confirmed and shown without its sign and its last digit, so
  `DigitsAreShown` and `CountsDown` speak of totals from 0.
* **Marquee.** A small letter, which writer.c accepts (writer.c:25), reads behind the end of the driver's table
  (mydev.c:66). Letters may be missed or read twice; those written before the reader has started are. seg.py accepts
  once (seg.py:40), so a reader that is started again is never shown, and its window stands still while it waits for a
  picture.
* **Trains.** After Ctrl+C henry's trains keep the port until they have arrived, and a client that connects meanwhile
  is only turned away then (henry.c:33). A failed fork leaves henry's client without a train. lab5.c serves one client
  at a time: the parent waits for the train before it accepts again (lab5.c:39), although Lab5_spec.html:41 asks for
  several clients connected at the same time ("server 端要能夠支援同時多人連線的情境") and demo.sh starts three. For lab5
  `NobodyWaitsForever` therefore assumes that trains arrive.
* **Web ATM.** A thread may serve another's connection or none (server_binary_semophore.c:231, :99), so
  `RequestsExecuted` speaks of parties in which everybody got its own. With a fifth client the party of four is never
  seen by threads that have not looked in time (:116; set `MaxUsers` above `Party` and PartyIsServed fails). Ctrl+C
  before the party is complete waits for ever (:42), and a second one leaves the semaphore behind. henry.c's Ctrl+C
  removes the semaphore under its threads, whose next semop ends the program.
* **Number game.** The upper bound itself is never tried (guess.c:37): guess.c repeats the number below it for ever,
  although "Lab 7 終極密碼.html":71 counts it in the range (1 - 100); the second half of `NumberIsFound` says so. An
  answer may be applied to another guess (guess.c:33): if the game has not answered within the second, or if guess.c is
  stopped between the store of its guess (:38) and the kill (:40) and started again. With number 43: 50 is "smaller",
  25 is stored and never signalled, the next guess.c takes "smaller" for the answer to 25, and 43 is out of its
  interval for good. A game that has ended leaves guess.c going on for ever.
* **Live video.** The lock around sending is commented out (front_realtime_server_udp.c:246), so an image whose round
  the camera thread overtakes mixes two frames; `ShownIsOneFrame` excepts these rounds. The request for the stream is
  sent once (front_realtime_client_udp.c:219): a client whose request is lost waits for ever. Closing the window, or
  an error, ends the client's loop and votes "no alarm" unless the cross was clicked before. Chunks carry no number:
  after a whole round's worth of losses an image with chunks out of place may be shown.
* **Alarm lights.** A callback that runs beside a write may put out the LED just lit (`LitIsTimed` only says it does
  not stay lit for ever). Votes carry neither an incident nor a name: who runs a client twice votes for the other
  resident, too, and a resident who dismisses the photo, or whose client fails, sends no vote, so that half a round is
  left for the next incident (`LightMeansBoth` and `BothAlarmsLight` except clients that are run again). A comment
  speaks of three votes (led_writer.c:96), the code takes two. led_writer ends when the device cannot be opened
  (led_writer.c:91), and `BothAlarmsLight` allows for that.
* **Door watch.** `camera` is never set back to True (trig_face.py:122), though a client's "no alarm" is commented as
  detection starting again (front_realtime_client_udp.c:317): a door is watched until its first intruder only, and the
  recognition spins from then on. `bad_list` is never cleared (trig_face.py:58), so a later look may alarm because of
  an earlier one, and the photo, the last frame with any face, may show a known person. The back door saves the last
  frame read (trig_face2.py:112), which may show nobody, or is None after a failed read: `imwrite` raises, and nobody
  is told (`IntruderIsReported` excepts it). Pieces sent to several clients at a time are mixed
  (front_server_tcp.c:17, :39, :41), although the README of deliver_photo has it (line 4) that several clients can be
  served at the same time; `WholeUnlessOverwritten` excepts the clients whose pieces were overwritten. A client that
  hangs up may end the photo server by SIGPIPE, and with it the recognition at its next `os.kill`.
