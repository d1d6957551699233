------------------------------ MODULE LiveVideo ------------------------------
(***************************************************************************)
(* The live video of a door (front_realtime_server_udp.c and               *)
(* front_realtime_client_udp.c; those of the back door differ in the ports *)
(* and in the votes they send).  The camera thread copies one frame after  *)
(* the other into a shared buffer.  For each client a thread sends the     *)
(* buffer in datagrams of BUFSIZE bytes and an empty one after the last.   *)
(* The client puts datagrams together until the empty one comes, shows the *)
(* image if it is complete, and sends its user's vote over TCP when it     *)
(* ends.                                                                   *)
(*                                                                         *)
(* The network may lose datagrams but keeps their order.  The client does  *)
(* not influence the sender, so a datagram is delivered or lost in the     *)
(* step that sends it: its delay changes nothing in what the client gets.  *)
(* Clients share nothing but the buffer, which they only read: one client  *)
(* stands for each.                                                        *)
(***************************************************************************)
EXTENDS Integers, Sequences

CONSTANTS
  Chunks,      \* MAX_IMAGE_SIZE / BUFSIZE = 4
  Clicks,      \* what the user may do: subset of {"check", "cross", "quit"}
  MaxClicks,   \* bound: clicks before the window is closed
  MaxLost      \* bound: datagrams lost and sends that fail

ASSUME VideoAssumption ==
  /\ Chunks \in Nat \ {0}
  /\ Clicks \subseteq {"check", "cross", "quit"}
  /\ MaxClicks \in Nat /\ MaxLost \in Nat

Size == {0, Chunks}         \* global_camera_data_size, in chunks
Frames == {0, 1}            \* frames are numbered modulo 2
Chunk == [pos : 1..Chunks, frame : Frames]

VARIABLES
  door,                     \* "front" or "back": whose programs run
  global_camera_buffer,     \* the frame each chunk of the buffer is from
  global_camera_data_size,
  camera,                   \* the camera thread: "wait", "copy" or "ended"
  copied,                   \* the chunks its memcpy has copied
  frame,                    \* the frame it copies
  sender,                   \* the client's thread: "none", "begin", "send"; "exited" is the whole server
  size,                     \* the global_camera_data_size of the round
  sent,                     \* the chunks it has sent in this round
  client,                   \* "start", "running", "decided", "over"
  image_buffer,             \* the chunks received; its length is current_size
  alarm,
  clicks,                   \* the user's clicks, in SDL's event queue until an image is shown
  vote,                     \* the message to led_writer, "none" before
  lost,                     \* counts up to MaxLost
  missing,                  \* history: datagrams that did not arrive since the last empty one did
  overtaken,                \* history: camera_thread has been copying while this round is sent
  shown                     \* history: the last datagram made an image appear

cameraVars == <<global_camera_buffer, global_camera_data_size, camera, copied, frame>>
senderVars == <<sender, size, sent>>
userVars == <<alarm, clicks, vote>>
vars == <<door, cameraVars, senderVars, client, image_buffer, userVars, lost, missing, overtaken, shown>>

TypeOK ==
  /\ door \in {"front", "back"}
  /\ global_camera_buffer \in [1..Chunks -> Frames]
  /\ global_camera_data_size \in Size
  /\ camera \in {"wait", "copy", "ended"}
  /\ copied \in 0..Chunks
  /\ frame \in Frames
  /\ sender \in {"none", "begin", "send", "exited"}
  /\ size \in Size /\ sent \in 0..Chunks
  /\ client \in {"start", "running", "decided", "over"}
  /\ image_buffer \in Seq(Chunk)
  /\ alarm \in {0, 1}
  /\ clicks \in Seq(Clicks)
  /\ vote \in {"none", "10", "111", "01", "000"}
  /\ lost \in 0..MaxLost
  /\ missing \in Nat
  /\ overtaken \in BOOLEAN /\ shown \in BOOLEAN

Init ==
  /\ door \in {"front", "back"}
  /\ global_camera_buffer = [k \in 1..Chunks |-> 0] /\ global_camera_data_size = 0
  /\ camera = "wait" /\ copied = 0 /\ frame = 0
  /\ sender = "none" /\ size = 0 /\ sent = 0
  /\ client = "start" /\ image_buffer = <<>>
  /\ alarm = 0 /\ clicks = <<>> /\ vote = "none"
  /\ lost = 0 /\ missing = 0 /\ overtaken = FALSE /\ shown = FALSE

-----------------------------------------------------------------------------
(* camera_thread.  Its mutex keeps nobody away: handle_client does not     *)
(* lock it.                                                                *)

Dequeue ==
  /\ camera = "wait"
  /\ camera' = "copy" /\ copied' = 0 /\ frame' = 1 - frame
  /\ overtaken' = (overtaken \/ sender = "send")
  /\ UNCHANGED <<global_camera_buffer, global_camera_data_size>>

CopyChunk ==
  /\ camera = "copy" /\ copied < Chunks
  /\ copied' = copied + 1
  /\ global_camera_buffer' = [global_camera_buffer EXCEPT ![copied + 1] = frame]
  /\ UNCHANGED <<global_camera_data_size, camera, frame, overtaken>>

\* Mutant: the copy ends one chunk too soon.
Copied_Early ==
  /\ camera = "copy" /\ copied = Chunks - 1
  /\ global_camera_data_size' = Chunks /\ camera' = "wait"
  /\ UNCHANGED <<global_camera_buffer, copied, frame, overtaken>>

Copied ==
  /\ camera = "copy" /\ copied = Chunks
  /\ global_camera_data_size' = Chunks /\ camera' = "wait"
  /\ UNCHANGED <<global_camera_buffer, copied, frame, overtaken>>

\* The server's own window is closed, or an ioctl fails: the buffer stays as it is.
CameraEnds ==
  /\ camera = "wait" /\ camera' = "ended"
  /\ UNCHANGED <<global_camera_buffer, global_camera_data_size, copied, frame, overtaken>>

CameraStep ==
  /\ sender # "exited"
  /\ Dequeue \/ CopyChunk \/ Copied \/ CameraEnds
  /\ UNCHANGED <<door, senderVars, client, image_buffer, userVars, lost, missing, shown>>

-----------------------------------------------------------------------------
(* What the client does with a datagram.                                   *)

\* Mutant: a full image is not noticed.
ReceiveChunk_Unchecked(c) ==
  /\ image_buffer' = Append(image_buffer, c)
  /\ shown' = FALSE
  /\ UNCHANGED <<client, alarm>>

\* Mutant: the image is taken to be full one datagram too early.
ReceiveChunk_TooEarly(c) ==
  /\ image_buffer' = IF Len(image_buffer) + 1 >= Chunks THEN <<>> ELSE Append(image_buffer, c)
  /\ shown' = FALSE
  /\ UNCHANGED <<client, alarm>>

\* A full image means that its empty datagram is missing: start again, without
\* this one.
ReceiveChunk(c) ==
  /\ image_buffer' = IF Len(image_buffer) = Chunks THEN <<>> ELSE Append(image_buffer, c)
  /\ shown' = FALSE
  /\ UNCHANGED <<client, alarm>>

\* alarm after the event queue has been polled: the last button decides.
AlarmAfter(a, queue) ==
  LET buttons == SelectSeq(queue, LAMBDA c : c # "quit")
  IN  IF buttons = <<>> THEN a ELSE IF buttons[Len(buttons)] = "cross" THEN 1 ELSE 0

\* Events are polled only when an image is shown.
Show ==
  /\ shown' = TRUE
  /\ alarm' = AlarmAfter(alarm, clicks)
  /\ client' = IF clicks = <<>> THEN "running" ELSE "decided"

\* Mutant: an incomplete image is kept.
ReceiveEmpty_NoReset ==
  IF Len(image_buffer) = Chunks THEN Show /\ image_buffer' = <<>>
  ELSE UNCHANGED <<image_buffer, shown, client, alarm>>

ReceiveEmpty ==
  /\ image_buffer' = <<>>
  /\ IF Len(image_buffer) = Chunks THEN Show
     ELSE shown' = FALSE /\ UNCHANGED <<client, alarm>>

\* The client does not receive anything: it has ended, or the network loses it.
NotReceived(n) ==
  /\ \/ client # "running" /\ UNCHANGED <<lost, missing>>
     \/ /\ client = "running" /\ lost < MaxLost
        /\ lost' = lost + 1 /\ missing' = missing + n
  /\ UNCHANGED <<client, image_buffer, alarm, shown>>

-----------------------------------------------------------------------------
(* main and handle_client of the server.                                   *)

\* The client asks once; if that is lost it waits for ever.
Start ==
  /\ client = "start" /\ sender = "none"
  /\ client' = "running"
  /\ \/ sender' = "begin" /\ UNCHANGED lost
     \/ lost < MaxLost /\ lost' = lost + 1 /\ UNCHANGED sender
  /\ UNCHANGED <<door, cameraVars, size, sent, image_buffer, userVars, missing, overtaken, shown>>

\* Before the first frame the size is 0, and nothing but empty datagrams is sent.
BeginRound ==
  /\ sender = "begin"
  /\ size' = global_camera_data_size /\ sent' = 0 /\ sender' = "send"
  /\ overtaken' = (camera = "copy")
  /\ UNCHANGED <<door, cameraVars, client, image_buffer, userVars, lost, missing, shown>>

SendChunk ==
  /\ sender = "send" /\ sent < size
  /\ sent' = sent + 1
  /\ \/ /\ client = "running"
        /\ ReceiveChunk([pos |-> sent + 1, frame |-> global_camera_buffer[sent + 1]])
        /\ UNCHANGED <<lost, missing>>
     \/ NotReceived(1)
  /\ UNCHANGED <<door, cameraVars, sender, size, clicks, vote, overtaken>>

\* The rest of the frame and its empty datagram are left out.
SendFails ==
  /\ sender = "send" /\ sent < size
  /\ NotReceived(size - sent + 1)
  /\ sender' = "begin" /\ sent' = 0
  /\ UNCHANGED <<door, cameraVars, size, clicks, vote, overtaken>>

\* (An empty datagram that follows no chunk is not missed.)
SendEmpty ==
  /\ sender = "send" /\ sent = size
  /\ \/ client = "running" /\ ReceiveEmpty /\ missing' = 0 /\ UNCHANGED lost
     \/ NotReceived(IF size = 0 THEN 0 ELSE 1)
  /\ sender' = "begin" /\ sent' = 0
  /\ UNCHANGED <<door, cameraVars, size, clicks, vote, overtaken>>

\* An empty datagram that cannot be sent, or Ctrl+C: the server exits.
ServerExits ==
  /\ sender # "exited" /\ sender' = "exited"
  /\ UNCHANGED <<door, cameraVars, size, sent, client, image_buffer, userVars, lost, missing, overtaken, shown>>

SenderStep == BeginRound \/ SendChunk \/ SendEmpty

-----------------------------------------------------------------------------
(* The user, and the end of the client.                                    *)

Click ==
  /\ client = "running" /\ Len(clicks) < MaxClicks
  /\ \E c \in Clicks : clicks' = Append(clicks, c)
  /\ UNCHANGED <<door, cameraVars, senderVars, client, image_buffer, alarm, vote, lost, missing, overtaken, shown>>

FrontVote == IF alarm = 1 THEN "10" ELSE "111"
BackVote == IF alarm = 1 THEN "01" ELSE "000"

\* sendAlarmToServer and sendAlarm111ToServer or sendAlarm000ToServer: the vote,
\* unless led_writer cannot be reached.
Vote ==
  /\ client = "decided"
  /\ client' = "over"
  /\ vote' \in {IF door = "front" THEN FrontVote ELSE BackVote, "none"}
  /\ UNCHANGED <<door, cameraVars, senderVars, image_buffer, alarm, clicks, lost, missing, overtaken, shown>>

VideoServer == CameraStep \/ Start \/ SenderStep \/ SendFails \/ ServerExits

FrontServer == door = "front" /\ VideoServer
BackServer == door = "back" /\ VideoServer

Next == FrontServer \/ BackServer \/ Click \/ Vote

Spec == Init /\ [][Next]_vars

\* The server's thread and the client are scheduled.  Nothing is asked of the
\* camera, the user or the network, except that losses end (MaxLost).
FairSpec == Spec /\ WF_vars(SenderStep) /\ WF_vars(Vote)

-----------------------------------------------------------------------------
\* current_size never exceeds MAX_IMAGE_SIZE: memcpy stays inside image_buffer,
\* also when the empty datagrams are lost.
ImageFits == Len(image_buffer) <= Chunks

\* The next empty datagram to arrive would make the client show its image.
AboutToShow ==
  sender = "send" /\ size = Chunks /\ sent = size /\ Len(image_buffer) = Chunks

InPlace == \A k \in 1..Len(image_buffer) : image_buffer[k].pos = k

\* An image that is shown has every chunk in its place, unless as many
\* datagrams as a whole round has (Chunks and the empty one) went missing since
\* the last empty datagram arrived.  No chunk carries a number: the count of
\* received chunks alone has to see to this.
ShownInPlace == (AboutToShow /\ missing <= Chunks) => InPlace

\* An image with nothing missing is one frame of the camera, unless the camera
\* thread was copying while it was sent: nobody keeps it from that, as the lock of
\* handle_client is commented out.
ShownIsOneFrame ==
  (AboutToShow /\ missing = 0 /\ ~overtaken) =>
    \A j, k \in 1..Chunks : image_buffer[j].frame = image_buffer[k].frame

\* A click is answered: the client ends, although it looks at its events only
\* when an image is shown.  Wherever losses have left it, it falls into step with
\* the sender again and the picture comes back.
ClickIsAnswered ==
  (client = "running" /\ clicks # <<>> /\ sender \in {"begin", "send"}
     /\ global_camera_data_size = Chunks)
    ~> (client = "over" \/ sender = "exited")

\* Where the client stands relative to the sender, as long as less than a round
\* is missing: either in step, or a whole round behind.
InStep ==
  \/ missing > Chunks
  \/ Len(image_buffer) + missing = sent
  \/ Len(image_buffer) + missing = sent + Chunks + 1

\* The inductive invariant behind ImageFits and ShownInPlace.
VideoInv ==
  /\ ImageFits
  /\ sender = "send" => sent <= size
  /\ sender \in {"none", "begin"} => sent = 0
  /\ client # "running" => image_buffer = <<>>
  /\ client = "start" => missing = 0
  /\ client = "running" => InStep
  /\ missing = 0 => InPlace

\* The inductive invariant behind ShownIsOneFrame: the buffer is one frame except
\* while the camera thread copies, and as long as it does not, what the client
\* has received of a round is what the buffer holds.
FrameInv ==
  /\ camera # "copy" => \A j, k \in 1..Chunks : global_camera_buffer[j] = global_camera_buffer[k]
  /\ camera = "copy" => \A k \in 1..copied : global_camera_buffer[k] = frame
  /\ sender = "send" /\ ~overtaken => camera # "copy"
  /\ sender = "send" /\ ~overtaken /\ missing = 0 =>
       \A k \in 1..Len(image_buffer) : image_buffer[k].frame = global_camera_buffer[k]
=============================================================================
