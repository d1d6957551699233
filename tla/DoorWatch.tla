------------------------------ MODULE DoorWatch ------------------------------
(***************************************************************************)
(* The watch at a door (Final_raspberry: pir_sensor.c, trig_face.py and    *)
(* deliver_photo/front_server_tcp.c at the front door, trig_face2.py and   *)
(* back_server_tcp.c at the back).  Once a second the motion sensor's process*)
(* signals the recognition, which looks at the camera for some seconds.    *)
(* If it sees too many strangers it saves a photo, signals the photo       *)
(* server, hands the camera to the video server and is done.  The photo    *)
(* server has a thread for each client, which waits for the signal and     *)
(* then sends the photo; all of them read it through one buffer.           *)
(***************************************************************************)
EXTENDS Integers, Sequences

CONSTANTS
  Clients,    \* the clients of the photo server
  Size,       \* the photo's length in pieces of BUFFER_SIZE
  MaxFrames,  \* bound: frames in one look, which lasts ten seconds
  MaxFaces    \* bound: strangers, and known persons, in one frame

ASSUME WatchAssumption ==
  /\ Size \in Nat /\ MaxFrames \in Nat \ {0} /\ MaxFaces \in Nat

VARIABLES
  door,           \* "front" or "back"
  present,        \* whether somebody is at the door
  pir,            \* pir_sensor: "running" or "ended"
  face_signal,    \* SIGUSR1 to trig_face.py, pending
  face_pc,        \* trig_face.py: see FacePCs
  detecting, first_in_flag,
  count,          \* the frames of this look
  bad,            \* the strangers in bad_list, of all looks; more than MaxFrames count alike
  show_img,       \* what the frame to be saved shows, see Images: at the front door
                  \* show_img, the last frame with a face, at the back img, the last one
  photo,          \* the saved photo: of an earlier time, half written, or what it shows
  video,          \* the video server has been started
  server,         \* the photo server: "running" or "exited"
  server_signal,  \* SIGUSR1 to it, pending
  send_pic,
  buffer,         \* the piece of the photo in its buffer
  pc,             \* the thread of each client: see ThreadPCs
  pos,            \* the pieces it has read
  got,            \* the pieces its client was sent
  gone,           \* the clients that have closed their connection
  overwritten     \* history: the clients whose piece was overwritten before it was sent

\* "wait" for a motion, "open" the camera, "look", "judge", "rest"; or "save",
\* "saving", "kill" and "spin" when an intruder was seen; "ended" by an error
FacePCs == {"wait", "open", "look", "judge", "rest", "save", "saving", "kill", "spin", "ended"}
Images == {"none", "nobody", "known", "stranger"}
ThreadPCs == {"none", "wait", "read", "write", "done"}

lookVars == <<face_pc, detecting, first_in_flag, count, bad, show_img>>
faceVars == <<face_signal, lookVars, photo, video>>
threadVars == <<buffer, pc, pos, got>>
serverVars == <<server, server_signal, send_pic, threadVars, gone, overwritten>>
vars == <<door, present, pir, faceVars, serverVars>>

TypeOK ==
  /\ door \in {"front", "back"}
  /\ present \in BOOLEAN /\ pir \in {"running", "ended"}
  /\ face_signal \in BOOLEAN
  /\ face_pc \in FacePCs
  /\ detecting \in BOOLEAN /\ first_in_flag \in BOOLEAN
  /\ count \in 0..MaxFrames /\ bad \in 0..MaxFrames
  /\ show_img \in Images
  /\ photo \in {"old", "partial"} \cup Images
  /\ video \in BOOLEAN
  /\ server \in {"running", "exited"}
  /\ server_signal \in BOOLEAN /\ send_pic \in BOOLEAN
  /\ buffer \in 0..Size
  /\ pc \in [Clients -> ThreadPCs]
  /\ pos \in [Clients -> 0..Size]
  /\ got \in [Clients -> Seq(0..Size)]
  /\ gone \subseteq Clients /\ overwritten \subseteq Clients

\* The handler is installed and the recognizer has read its faces: the loops begin.
Init ==
  /\ door \in {"front", "back"}
  /\ present = FALSE /\ pir = "running"
  /\ face_signal = FALSE /\ face_pc = "wait"
  /\ detecting = FALSE /\ first_in_flag = TRUE
  /\ count = 0 /\ bad = 0 /\ show_img = "none" /\ photo = "old" /\ video = FALSE
  /\ server = "running" /\ server_signal = FALSE /\ send_pic = FALSE
  /\ buffer = 0
  /\ pc = [c \in Clients |-> "none"] /\ pos = [c \in Clients |-> 0]
  /\ got = [c \in Clients |-> <<>>] /\ gone = {} /\ overwritten = {}

-----------------------------------------------------------------------------
(* The door and pir_sensor.                                                *)

ComeOrGo ==
  /\ present' = ~present
  /\ UNCHANGED <<door, pir, faceVars, serverVars>>

\* One second of the loop: the sensor's line is 1 while somebody is there.
Pir ==
  /\ pir = "running" /\ present
  /\ face_signal' = (face_pc # "ended")
  /\ UNCHANGED <<door, present, pir, lookVars, photo, video, serverVars>>

\* An error of the chip or of a line, when it starts or in the loop, ends it.
PirFails ==
  /\ pir = "running" /\ pir' = "ended"
  /\ UNCHANGED <<door, present, faceVars, serverVars>>

-----------------------------------------------------------------------------
(* trig_face.py.                                                           *)

\* Python runs the handler between two of its instructions, wherever it is.
HandleSignal ==
  /\ face_signal /\ face_pc # "ended"
  /\ face_signal' = FALSE /\ detecting' = TRUE
  /\ UNCHANGED <<face_pc, first_in_flag, count, bad, show_img, photo, video>>

WakeUp ==
  /\ face_pc = "wait" /\ detecting
  /\ face_pc' = "open"
  /\ UNCHANGED <<face_signal, detecting, first_in_flag, count, bad, show_img, photo, video>>

\* The camera is opened the first time, and stays open.
OpenCamera ==
  /\ face_pc = "open"
  /\ first_in_flag' = FALSE /\ count' = 0
  /\ face_pc' \in (IF first_in_flag THEN {"look", "ended"} ELSE {"look"})
  /\ UNCHANGED <<face_signal, detecting, bad, show_img, photo, video>>

AtMost(limit, n) == IF n > limit THEN limit ELSE n

\* The look ends after ten seconds, at a key, or when no frame is returned.
NextFrame ==
  /\ face_pc = "look" /\ count < MaxFrames
  /\ count' = count + 1
  /\ UNCHANGED <<face_signal, detecting, first_in_flag, photo, video>>

Faces(known, strangers) ==
  /\ bad' = AtMost(MaxFrames, bad + strangers)
  /\ face_pc' \in {"look", "judge"}

Shows(known, strangers, otherwise) ==
  IF strangers > 0 THEN "stranger" ELSE IF known > 0 THEN "known" ELSE otherwise

\* A frame with its faces, or a camera that returns none.
FrontFrame ==
  /\ NextFrame
  /\ \/ \E known, strangers \in 0..MaxFaces :
          Faces(known, strangers) /\ show_img' = Shows(known, strangers, show_img)
     \/ face_pc' = "judge" /\ UNCHANGED <<bad, show_img>>

BackFrame ==
  /\ NextFrame
  /\ \/ \E known, strangers \in 0..MaxFaces :
          Faces(known, strangers) /\ show_img' = Shows(known, strangers, "nobody")
     \/ face_pc' = "judge" /\ show_img' = "none" /\ UNCHANGED bad

Frame == (door = "front" /\ FrontFrame) \/ (door = "back" /\ BackFrame)

LastFrame ==
  /\ face_pc = "look" /\ count = MaxFrames
  /\ face_pc' = "judge"
  /\ UNCHANGED <<face_signal, detecting, first_in_flag, count, bad, show_img, photo, video>>

\* bad_guy_ratio > 0.6
BadGuy == 10 * bad > 6 * count

\* Mutant: the photo server is signalled before the photo is written.
Judge_SignalFirst ==
  /\ face_pc = "judge"
  /\ face_pc' = IF BadGuy THEN "kill" ELSE "rest"
  /\ UNCHANGED <<face_signal, detecting, first_in_flag, count, bad, show_img, photo, video>>

Judge ==
  /\ face_pc = "judge"
  /\ face_pc' = IF BadGuy THEN "save" ELSE "rest"
  /\ UNCHANGED <<face_signal, detecting, first_in_flag, count, bad, show_img, photo, video>>

\* Mutant: the camera is given up when nobody was seen, too.
Rest_GivesUp ==
  /\ face_pc = "rest"
  /\ detecting' = FALSE /\ face_pc' = "spin"
  /\ UNCHANGED <<face_signal, first_in_flag, count, bad, show_img, photo, video>>

\* A motion signalled during the look is forgotten.
Rest ==
  /\ face_pc = "rest"
  /\ detecting' = FALSE /\ face_pc' = "wait"
  /\ UNCHANGED <<face_signal, first_in_flag, count, bad, show_img, photo, video>>

\* imwrite of a frame the camera did not return raises an exception.
Save ==
  /\ face_pc = "save"
  /\ \/ show_img # "none" /\ photo' = "partial" /\ face_pc' = "saving"
     \/ show_img = "none" /\ face_pc' = "ended" /\ UNCHANGED photo
  /\ UNCHANGED <<face_signal, detecting, first_in_flag, count, bad, show_img, video>>

Saved ==
  /\ face_pc = "saving"
  /\ photo' = show_img /\ face_pc' = "kill"
  /\ UNCHANGED <<face_signal, detecting, first_in_flag, count, bad, show_img, video>>

\* os.kill raises an exception when the server is gone; nobody catches it.
Kill ==
  /\ face_pc = "kill"
  /\ \/ server = "running" /\ server_signal' = TRUE /\ face_pc' = "spin"
        /\ detecting' = FALSE /\ video' = TRUE
     \/ server = "exited" /\ face_pc' = "ended" /\ UNCHANGED <<server_signal, detecting, video>>
  /\ UNCHANGED <<face_signal, first_in_flag, count, bad, show_img, photo>>

LookStep ==
  WakeUp \/ OpenCamera \/ Frame \/ LastFrame \/ Judge \/ Rest \/ Save \/ Saved

Recognition == Kill \/ (LookStep /\ UNCHANGED server_signal)

FrontRecognition == door = "front" /\ Recognition
BackRecognition == door = "back" /\ Recognition

FaceStep ==
  /\ UNCHANGED <<door, present, pir, server, send_pic, threadVars, gone, overwritten>>
  /\ FrontRecognition \/ BackRecognition \/ (HandleSignal /\ UNCHANGED server_signal)

-----------------------------------------------------------------------------
(* front_server_tcp.c and back_server_tcp.c.                               *)

UsrHandler ==
  /\ server_signal
  /\ server_signal' = FALSE /\ send_pic' = TRUE
  /\ UNCHANGED <<server, threadVars, gone, overwritten>>

\* accept and pthread_create; the thread gets a copy of the socket.
Connect(c) ==
  /\ pc[c] = "none"
  /\ pc' = [pc EXCEPT ![c] = "wait"]
  /\ UNCHANGED <<server, server_signal, send_pic, buffer, pos, got, gone, overwritten>>

\* Mutant: the flag is taken back by the first thread that sees it.
Open_TakesFlag(c) ==
  /\ pc[c] = "wait" /\ send_pic
  /\ pc' = [pc EXCEPT ![c] = "read"] /\ send_pic' = FALSE
  /\ UNCHANGED <<server, server_signal, buffer, pos, got, gone, overwritten>>

Open(c) ==
  /\ pc[c] = "wait" /\ send_pic
  /\ pc' = [pc EXCEPT ![c] = "read"]
  /\ UNCHANGED <<server, server_signal, send_pic, buffer, pos, got, gone, overwritten>>

\* Mutant: the end of the file is noticed one piece too soon.
Read_Short(c) ==
  /\ pc[c] = "read"
  /\ \/ /\ pos[c] < Size - 1
        /\ pc' = [pc EXCEPT ![c] = "write"] /\ pos' = [pos EXCEPT ![c] = @ + 1]
        /\ buffer' = pos'[c]
     \/ pos[c] >= Size - 1 /\ pc' = [pc EXCEPT ![c] = "done"] /\ UNCHANGED <<pos, buffer>>
  /\ UNCHANGED <<server, server_signal, send_pic, got, gone, overwritten>>

\* fread into the buffer of all threads; at the end of the file the thread ends.
Read(c) ==
  /\ pc[c] = "read"
  /\ \/ /\ pos[c] < Size
        /\ pc' = [pc EXCEPT ![c] = "write"] /\ pos' = [pos EXCEPT ![c] = @ + 1]
        /\ buffer' = pos'[c]
        /\ overwritten' = overwritten \cup {o \in Clients : pc[o] = "write"}
     \/ /\ pos[c] = Size
        /\ pc' = [pc EXCEPT ![c] = "done"] /\ UNCHANGED <<pos, buffer, overwritten>>
  /\ UNCHANGED <<server, server_signal, send_pic, got, gone>>

\* To a client that is gone write still succeeds, fails, or raises SIGPIPE.
Write(c) ==
  /\ pc[c] = "write"
  /\ \/ /\ pc' = [pc EXCEPT ![c] = "read"]
        /\ got' = [got EXCEPT ![c] = Append(@, buffer)] /\ UNCHANGED server
     \/ c \in gone /\ pc' = [pc EXCEPT ![c] = "done"] /\ UNCHANGED <<got, server>>
     \/ c \in gone /\ server' = "exited" /\ UNCHANGED <<pc, got>>
  /\ UNCHANGED <<server_signal, send_pic, buffer, pos, gone, overwritten>>

ThreadStep(c) == Open(c) \/ Read(c) \/ Write(c)

HangUp(c) ==
  /\ pc[c] # "none" /\ c \notin gone
  /\ gone' = gone \cup {c}
  /\ UNCHANGED <<server, server_signal, send_pic, threadVars, overwritten>>

\* safe_close_routine
CtrlC ==
  /\ server' = "exited"
  /\ UNCHANGED <<server_signal, send_pic, threadVars, gone, overwritten>>

PhotoServer == UsrHandler \/ CtrlC \/ \E c \in Clients : Connect(c) \/ ThreadStep(c)

FrontPhotoServer == door = "front" /\ PhotoServer
BackPhotoServer == door = "back" /\ PhotoServer

ServerStep ==
  /\ server = "running"
  /\ FrontPhotoServer \/ BackPhotoServer \/ \E c \in Clients : HangUp(c)
  /\ UNCHANGED <<door, present, pir, faceVars>>

-----------------------------------------------------------------------------
Next == ComeOrGo \/ Pir \/ PirFails \/ FaceStep \/ ServerStep

Spec == Init /\ [][Next]_vars

\* The processes and threads of the Raspberry Pi are scheduled.  Nobody has to
\* come, to stay, to connect or to press a key.
FairSpec ==
  /\ Spec
  /\ WF_vars(Pir)
  /\ WF_vars(FaceStep /\ HandleSignal) /\ WF_vars(FaceStep /\ (LookStep \/ Kill))
  /\ WF_vars(ServerStep /\ UsrHandler)
  /\ \A c \in Clients : WF_vars(ServerStep /\ ThreadStep(c))

-----------------------------------------------------------------------------
\* No thread opens the photo before it is written completely: what a client is
\* sent is a photo of this incident, and at the front door it shows somebody.
\* (The order imwrite, os.kill, handler, flag, fopen, over two processes and their
\* threads.)
PhotoFirst ==
  \A c \in Clients : pc[c] \in {"read", "write", "done"} =>
    photo \in (IF door = "front" THEN {"known", "stranger"} ELSE Images \ {"none"})

\* A client gets the photo piece by piece, complete and in order, unless another
\* thread read into their one buffer between its read and its write: nobody keeps
\* it from that.
Pieces(n) == [k \in 1..n |-> k]
WholeUnlessOverwritten ==
  \A c \in Clients \ (gone \cup overwritten) : pc[c] = "done" => got[c] = Pieces(Size)

\* The inductive invariant behind it: how far reading and sending are, and whose
\* the piece in the buffer is.
PieceInv ==
  \A c \in Clients \ (gone \cup overwritten) :
    /\ pc[c] \in {"none", "wait"} => pos[c] = 0 /\ got[c] = Pieces(0)
    /\ pc[c] = "read" => got[c] = Pieces(pos[c])
    /\ pc[c] = "write" => pos[c] > 0 /\ buffer = pos[c] /\ got[c] = Pieces(pos[c] - 1)
    /\ pc[c] = "done" => got[c] = Pieces(Size)

\* Whoever stays at the door is looked at, although signals that come while the
\* last look ends are forgotten - until an intruder has been reported.
StayingIsLookedAt ==
  (present /\ face_pc # "look") ~>
    (face_pc = "look" \/ ~present \/ video \/ pir = "ended" \/ face_pc = "ended")

\* Once an intruder is recognized every client that waits is sent as many pieces
\* as the photo has, and the video server is started - at the back door only if the
\* camera returned the look's last frame.
IntruderIsReported ==
  \A c \in Clients :
    (face_pc = "save" /\ pc[c] = "wait" /\ (door = "back" => show_img # "none")) ~>
      (video /\ pc[c] = "done" /\ Len(got[c]) = Size) \/ c \in gone \/ server = "exited"
=============================================================================
