-------------------------- MODULE DoorWatchProofs --------------------------
(***************************************************************************)
(* Theorems about the watch at a door: a client is only ever sent a photo  *)
(* that the recognition has written completely and that shows somebody,    *)
(* and gets it whole unless another thread overwrites the buffer.          *)
(***************************************************************************)
EXTENDS DoorWatch, TLAPS

\* What a saved photo may show: at the front door somebody, at the back anything.
Shown == IF door = "front" THEN {"known", "stranger"} ELSE Images \ {"none"}

\* The part of the state that has values other than Booleans.
Typing ==
  /\ door \in {"front", "back"} /\ pir \in {"running", "ended"} /\ face_pc \in FacePCs
  /\ count \in 0..MaxFrames /\ bad \in 0..MaxFrames
  /\ show_img \in Images
  /\ photo \in {"old", "partial"} \cup Images
  /\ server \in {"running", "exited"}
  /\ buffer \in 0..Size
  /\ pc \in [Clients -> ThreadPCs] /\ pos \in [Clients -> 0..Size]
  /\ got \in [Clients -> Seq(0..Size)]
  /\ gone \subseteq Clients /\ overwritten \subseteq Clients

Booleans ==
  /\ present \in BOOLEAN /\ face_signal \in BOOLEAN
  /\ detecting \in BOOLEAN /\ first_in_flag \in BOOLEAN /\ video \in BOOLEAN
  /\ server_signal \in BOOLEAN /\ send_pic \in BOOLEAN

\* From a stranger's face to the client's file: what has to be so before each step.
PhotoInv ==
  /\ door = "front" => (bad > 0 => show_img \in Shown)
  /\ door = "front" => (face_pc = "save" => show_img \in Shown)
  /\ face_pc = "saving" => show_img \in Shown
  /\ face_pc \in {"kill", "spin"} => photo \in Shown
  /\ server_signal \/ send_pic => face_pc = "spin"
  /\ \A c \in Clients : pc[c] \in {"read", "write", "done"} => send_pic

-----------------------------------------------------------------------------
LEMMA TypingSplit == TypeOK <=> Typing /\ Booleans
  BY DEF TypeOK, Typing, Booleans

LEMMA TypingInit == Init => Typing
<1> SUFFICES ASSUME Init PROVE Typing
  OBVIOUS
<1>1. 0 \in 0..MaxFrames /\ 0 \in 0..Size
  BY WatchAssumption
<1>2. pc \in [Clients -> ThreadPCs] /\ pos \in [Clients -> 0..Size]
  BY <1>1 DEF Init, ThreadPCs
<1>3. got \in [Clients -> Seq(0..Size)]
  BY DEF Init
<1> QED
  BY <1>1, <1>2, <1>3 DEF Init, Typing, FacePCs, Images

LEMMA LookKeepsTyping ==
  Typing /\ FaceStep => Typing'
<1> SUFFICES ASSUME Typing, FaceStep PROVE Typing'
  OBVIOUS
<1>1. UNCHANGED <<door, present, pir, server, send_pic, threadVars, gone, overwritten>>
  BY DEF FaceStep
<1>2. CASE Frame
  <2>1. face_pc' \in FacePCs
    BY <1>2 DEF Frame, FrontFrame, BackFrame, Faces, FacePCs
  <2>2. count' \in 0..MaxFrames /\ photo' = photo
    BY <1>2, WatchAssumption DEF Typing, Frame, FrontFrame, BackFrame, NextFrame
  <2>3. bad' \in 0..MaxFrames
    BY <1>2, WatchAssumption DEF Typing, Frame, FrontFrame, BackFrame, Faces, AtMost
  <2>4. show_img' \in Images
    BY <1>2 DEF Typing, Frame, FrontFrame, BackFrame, Shows, Images
  <2> QED
    BY <1>1, <2>1, <2>2, <2>3, <2>4 DEF Typing, threadVars
<1>3. CASE WakeUp \/ OpenCamera \/ LastFrame \/ Judge \/ Rest \/ Kill \/ HandleSignal
  <2>1. face_pc' \in FacePCs /\ count' \in 0..MaxFrames /\ UNCHANGED <<bad, show_img, photo>>
    BY <1>3, WatchAssumption DEF Typing, WakeUp, OpenCamera, LastFrame, Judge, Rest, Kill, HandleSignal, FacePCs
  <2> QED
    BY <1>1, <2>1 DEF Typing, threadVars
<1>4. CASE Save \/ Saved
  <2>1. face_pc' \in FacePCs /\ photo' \in {"old", "partial"} \cup Images
    BY <1>4 DEF Typing, Save, Saved, FacePCs
  <2>2. UNCHANGED <<count, bad, show_img>>
    BY <1>4 DEF Save, Saved
  <2> QED
    BY <1>1, <2>1, <2>2 DEF Typing, threadVars
<1> QED
  BY <1>2, <1>3, <1>4 DEF FaceStep, FrontRecognition, BackRecognition, Recognition, LookStep

LEMMA ServerKeepsTyping ==
  Typing /\ ServerStep => Typing'
<1> SUFFICES ASSUME Typing, ServerStep PROVE Typing'
  OBVIOUS
<1> USE WatchAssumption
<1>1. UNCHANGED <<door, pir, face_pc, count, bad, show_img, photo>>
  BY DEF ServerStep, faceVars, lookVars
<1>2. CASE UsrHandler
  BY <1>1, <1>2 DEF Typing, UsrHandler, threadVars
<1>3. CASE CtrlC
  BY <1>1, <1>3 DEF Typing, CtrlC, threadVars
<1>4. ASSUME NEW c \in Clients, Connect(c) PROVE Typing'
  BY <1>1, <1>4 DEF Typing, Connect, ThreadPCs
<1>5. ASSUME NEW c \in Clients, Open(c) PROVE Typing'
  BY <1>1, <1>5 DEF Typing, Open, ThreadPCs
<1>6. ASSUME NEW c \in Clients, Read(c) PROVE Typing'
  <2>1. CASE pos[c] < Size
    <3>1. pos[c] + 1 \in 0..Size
      BY <2>1 DEF Typing
    <3>2. pos' = [pos EXCEPT ![c] = @ + 1] /\ buffer' = pos'[c] /\ pc' = [pc EXCEPT ![c] = "write"]
      BY <1>6, <2>1 DEF Read, Typing
    <3>3. pos' \in [Clients -> 0..Size] /\ pos'[c] = pos[c] + 1
      BY <3>1, <3>2 DEF Typing
    <3> QED
      BY <1>1, <1>6, <3>1, <3>2, <3>3 DEF Read, Typing, ThreadPCs
  <2>2. CASE ~(pos[c] < Size)
    BY <1>1, <1>6, <2>2 DEF Read, Typing, ThreadPCs
  <2> QED
    BY <2>1, <2>2
<1>7. ASSUME NEW c \in Clients, Write(c) PROVE Typing'
  <2>1. Append(got[c], buffer) \in Seq(0..Size)
    BY DEF Typing
  <2>2. got' \in [Clients -> Seq(0..Size)]
    BY <1>7, <2>1 DEF Write, Typing
  <2>3. pc' \in [Clients -> ThreadPCs]
    BY <1>7 DEF Write, Typing, ThreadPCs
  <2>4. server' \in {"running", "exited"}
    BY <1>7 DEF Write, Typing
  <2> QED
    BY <1>1, <1>7, <2>2, <2>3, <2>4 DEF Write, Typing
<1>8. ASSUME NEW c \in Clients, HangUp(c) PROVE Typing'
  BY <1>1, <1>8 DEF Typing, HangUp, threadVars
<1> QED
  BY <1>2, <1>3, <1>4, <1>5, <1>6, <1>7, <1>8 DEF ServerStep, FrontPhotoServer, BackPhotoServer, PhotoServer, ThreadStep

LEMMA TypingStep ==
  Typing /\ [Next]_vars => Typing'
<1> SUFFICES ASSUME Typing, [Next]_vars PROVE Typing'
  OBVIOUS
<1>1. CASE ComeOrGo \/ Pir \/ PirFails \/ UNCHANGED vars
  BY <1>1 DEF Typing, ComeOrGo, Pir, PirFails, vars, faceVars, lookVars, serverVars, threadVars
<1> QED
  BY <1>1, LookKeepsTyping, ServerKeepsTyping DEF Next

LEMMA BooleansStep ==
  Booleans /\ [Next]_vars => Booleans'
<1> SUFFICES ASSUME Booleans, [Next]_vars PROVE Booleans'
  OBVIOUS
<1>1. CASE ComeOrGo
  BY <1>1, Zenon DEF Booleans, ComeOrGo, faceVars, lookVars, serverVars
<1>2. CASE Pir
  BY <1>2, Zenon DEF Booleans, Pir, lookVars, serverVars
<1>3. CASE PirFails \/ UNCHANGED vars
  BY <1>3, Zenon DEF Booleans, PirFails, vars, faceVars, lookVars, serverVars
<1>4. CASE FaceStep
  <2>1. present' \in BOOLEAN /\ send_pic' \in BOOLEAN
    BY <1>4, Zenon DEF Booleans, FaceStep
  <2>2. CASE Kill
    BY <2>1, <2>2, Zenon DEF Booleans, Kill
  <2>3. CASE HandleSignal /\ UNCHANGED server_signal
    BY <2>1, <2>3, Zenon DEF Booleans, HandleSignal
  <2>4. CASE LookStep /\ UNCHANGED server_signal
    <3>1. CASE Frame
      BY <2>1, <2>4, <3>1, Zenon DEF Booleans, Frame, FrontFrame, BackFrame, NextFrame
    <3>2. CASE WakeUp \/ OpenCamera \/ LastFrame \/ Judge \/ Rest \/ Save \/ Saved
      BY <2>1, <2>4, <3>2, Zenon DEF Booleans, WakeUp, OpenCamera, LastFrame, Judge, Rest, Save, Saved
    <3>3. QED
      BY <2>4, <3>1, <3>2 DEF LookStep
  <2> QED
    BY <1>4, <2>2, <2>3, <2>4 DEF FaceStep, FrontRecognition, BackRecognition, Recognition
<1>5. CASE ServerStep
  <2>1. UNCHANGED <<present, face_signal, detecting, first_in_flag, video>>
    BY <1>5, Zenon DEF ServerStep, faceVars, lookVars
  <2>2. server_signal' \in BOOLEAN /\ send_pic' \in BOOLEAN
    BY <1>5, Zenon DEF Booleans, ServerStep, FrontPhotoServer, BackPhotoServer,
         PhotoServer, UsrHandler, CtrlC, Connect, ThreadStep, Open, Read, Write, HangUp
  <2> QED
    BY <2>1, <2>2, Zenon DEF Booleans
<1> QED
  BY <1>1, <1>2, <1>3, <1>4, <1>5 DEF Next

\* The variables of both processes always have their types: no counter leaves
\* its range, no thread reads past the end of the photo.
THEOREM TypeCorrect == Spec => []TypeOK
<1>1. Init => TypeOK
  BY TypingInit, TypingSplit, Zenon DEF Init, Booleans
<1>2. TypeOK /\ [Next]_vars => TypeOK'
  <2>1. TypeOK' <=> Typing' /\ Booleans'
    BY DEF TypeOK, Typing, Booleans
  <2> QED
    BY <2>1, TypingSplit, TypingStep, BooleansStep
<1> QED
  BY <1>1, <1>2, PTL DEF Spec

-----------------------------------------------------------------------------
LEMMA PhotoInvInit == Init => PhotoInv
  BY DEF Init, PhotoInv

\* A ratio above 0.6 needs a stranger, so some frame with a face was kept.
LEMMA BadGuyWasSeen ==
  ASSUME Typing, BadGuy PROVE bad > 0
  BY WatchAssumption DEF Typing, BadGuy

LEMMA FaceKeepsPhotoInv ==
  Typing /\ PhotoInv /\ FaceStep => PhotoInv'
<1> SUFFICES ASSUME Typing, PhotoInv, FaceStep PROVE PhotoInv'
  OBVIOUS
<1>1. UNCHANGED <<door, send_pic, pc>>
  BY DEF FaceStep, threadVars
<1>2. CASE Kill
  BY <1>1, <1>2 DEF PhotoInv, Shown, Kill
<1>3. CASE HandleSignal /\ UNCHANGED server_signal
  BY <1>1, <1>3 DEF PhotoInv, Shown, HandleSignal
<1>4. CASE (WakeUp \/ OpenCamera \/ LastFrame \/ Rest \/ Save \/ Saved) /\ UNCHANGED server_signal
  BY <1>1, <1>4 DEF PhotoInv, Shown, Typing, WakeUp, OpenCamera, LastFrame, Rest, Save, Saved
<1>5. CASE Frame /\ UNCHANGED server_signal
  <2>1. ~server_signal /\ ~send_pic /\ face_pc' \in {"look", "judge"}
    BY <1>5 DEF PhotoInv, Frame, FrontFrame, BackFrame, NextFrame, Faces
  <2>2. door = "front" => (bad' > 0 => show_img' \in Shown)
    BY <1>5, WatchAssumption DEF PhotoInv, Typing, Frame, FrontFrame, Faces, Shows, AtMost, Shown
  <2> QED
    BY <1>1, <1>5, <2>1, <2>2 DEF PhotoInv, Shown
<1>6. CASE Judge /\ UNCHANGED server_signal
  BY <1>1, <1>6, BadGuyWasSeen DEF PhotoInv, Shown, Judge
<1> QED
  BY <1>2, <1>3, <1>4, <1>5, <1>6 DEF FaceStep, FrontRecognition, BackRecognition, Recognition, LookStep

LEMMA ServerKeepsPhotoInv ==
  Typing /\ PhotoInv /\ ServerStep => PhotoInv'
<1> SUFFICES ASSUME Typing, PhotoInv, ServerStep PROVE PhotoInv'
  OBVIOUS
<1>1. UNCHANGED <<door, face_pc, bad, show_img, photo>>
  BY DEF ServerStep, faceVars, lookVars
<1>2. CASE UsrHandler
  BY <1>1, <1>2 DEF PhotoInv, Shown, UsrHandler, threadVars
<1>3. CASE CtrlC
  BY <1>1, <1>3 DEF PhotoInv, Shown, CtrlC, threadVars
<1>4. ASSUME NEW c \in Clients, Connect(c) \/ HangUp(c) PROVE PhotoInv'
  BY <1>1, <1>4 DEF PhotoInv, Shown, Typing, Connect, HangUp, threadVars
<1>5. ASSUME NEW c \in Clients, Open(c) PROVE PhotoInv'
  BY <1>1, <1>5 DEF PhotoInv, Shown, Typing, Open
<1>6. ASSUME NEW c \in Clients, Read(c) \/ Write(c) PROVE PhotoInv'
  <2>1. pc[c] \in {"read", "write"} /\ UNCHANGED <<server_signal, send_pic>>
    BY <1>6 DEF Read, Write
  <2>2. send_pic
    BY <2>1 DEF PhotoInv
  <2> QED
    BY <1>1, <1>6, <2>1, <2>2 DEF PhotoInv, Shown, Typing, Read, Write
<1> QED
  BY <1>2, <1>3, <1>4, <1>5, <1>6 DEF ServerStep, FrontPhotoServer, BackPhotoServer, PhotoServer, ThreadStep

\* A client's thread goes past its wait only for the flag, the flag is set only
\* by the signal, the signal is sent only when the photo is written, and it is
\* written only of a look at which somebody has been seen.
THEOREM PhotoInvHolds == Spec => []PhotoInv
<1>1. TypeOK /\ PhotoInv /\ [Next]_vars => PhotoInv'
  <2> SUFFICES ASSUME Typing, PhotoInv, [Next]_vars PROVE PhotoInv'
    BY TypingSplit
  <2>1. CASE ComeOrGo \/ Pir \/ PirFails \/ UNCHANGED vars
    BY <2>1 DEF PhotoInv, Shown, ComeOrGo, Pir, PirFails, vars, faceVars, lookVars, serverVars, threadVars
  <2> QED
    BY <2>1, FaceKeepsPhotoInv, ServerKeepsPhotoInv DEF Next
<1> QED
  BY <1>1, PhotoInvInit, TypeCorrect, PTL DEF Spec

\* No thread opens the photo before it is written completely.
THEOREM PhotoIsFirst == Spec => []PhotoFirst
<1>1. PhotoInv => PhotoFirst
  BY DEF PhotoInv, PhotoFirst, Shown
<1> QED
  BY <1>1, PhotoInvHolds, PTL

-----------------------------------------------------------------------------
(* The pieces of the photo.                                                *)

LEMMA NoPieces == <<>> = Pieces(0)
  BY DEF Pieces

LEMMA OneMorePiece ==
  ASSUME NEW n \in Nat \ {0}
  PROVE  Append(Pieces(n - 1), n) = Pieces(n)
<1>1. Pieces(n - 1) \in Seq(Int) /\ Len(Pieces(n - 1)) = n - 1
  BY DEF Pieces
<1>2. Pieces(n) \in Seq(Int) /\ Len(Pieces(n)) = n
  BY DEF Pieces
<1>3. ASSUME NEW k \in 1..n PROVE Append(Pieces(n - 1), n)[k] = Pieces(n)[k]
  BY <1>1, <1>3 DEF Pieces
<1> HIDE DEF Pieces
<1>4. Append(Pieces(n - 1), n) \in Seq(Int) /\ Len(Append(Pieces(n - 1), n)) = n
  BY <1>1
<1> QED
  BY <1>2, <1>3, <1>4

\* PieceInv of one client.
PiecesOf(c) ==
  c \notin gone \cup overwritten =>
    /\ pc[c] \in {"none", "wait"} => pos[c] = 0 /\ got[c] = Pieces(0)
    /\ pc[c] = "read" => got[c] = Pieces(pos[c])
    /\ pc[c] = "write" => pos[c] > 0 /\ buffer = pos[c] /\ got[c] = Pieces(pos[c] - 1)
    /\ pc[c] = "done" => got[c] = Pieces(Size)

\* What others do leaves a client's pieces alone, unless it reads into the buffer
\* before the client's piece is sent: the client is overwritten then.
LEMMA PiecesKept ==
  ASSUME NEW c \in Clients, PiecesOf(c), gone \subseteq gone', overwritten \subseteq overwritten',
         pc'[c] = pc[c], pos'[c] = pos[c], got'[c] = got[c],
         pc[c] = "write" => buffer' = buffer \/ c \in overwritten'
  PROVE  PiecesOf(c)'
  BY DEF PiecesOf

LEMMA ReaderHasPieces ==
  ASSUME Typing, NEW c \in Clients, PiecesOf(c), Read(c) PROVE PiecesOf(c)'
<1> USE WatchAssumption
<1>1. pc[c] = "read" /\ gone' = gone /\ got' = got /\ overwritten \subseteq overwritten'
  BY DEF Read
<1>2. SUFFICES ASSUME c \notin gone \cup overwritten PROVE PiecesOf(c)'
  BY <1>1 DEF PiecesOf
<1>3. got[c] = Pieces(pos[c]) /\ pos[c] \in 0..Size
  BY <1>1, <1>2 DEF PiecesOf, Typing
<1>4. CASE pos[c] < Size
  <2>1. pc'[c] = "write" /\ pos'[c] = pos[c] + 1 /\ buffer' = pos'[c]
    BY <1>4 DEF Read, Typing
  <2>2. pos'[c] > 0 /\ pos'[c] - 1 = pos[c]
    BY <1>3, <2>1
  <2> QED
    BY <1>1, <1>3, <2>1, <2>2 DEF PiecesOf
<1>5. CASE pos[c] = Size
  <2>1. pc'[c] = "done"
    BY <1>3, <1>5 DEF Read, Typing
  <2> QED
    BY <1>1, <1>3, <1>5, <2>1 DEF PiecesOf
<1> QED
  BY <1>3, <1>4, <1>5

LEMMA WriterHasPieces ==
  ASSUME Typing, NEW c \in Clients, PiecesOf(c), Write(c) PROVE PiecesOf(c)'
<1>1. pc[c] = "write" /\ gone' = gone /\ pos' = pos /\ overwritten' = overwritten
  BY DEF Write
<1>2. SUFFICES ASSUME c \notin gone \cup overwritten PROVE PiecesOf(c)'
  BY <1>1 DEF PiecesOf
<1>3. pc'[c] = "read" /\ got'[c] = Append(got[c], buffer)
  BY <1>2 DEF Write, Typing
<1>4. buffer = pos[c] /\ got[c] = Pieces(pos[c] - 1) /\ pos[c] \in Nat \ {0}
  BY <1>1, <1>2, WatchAssumption DEF PiecesOf, Typing
<1>5. got'[c] = Pieces(pos[c])
  BY <1>3, <1>4, OneMorePiece
<1> QED
  BY <1>1, <1>3, <1>5 DEF PiecesOf

LEMMA PieceStep == Typing /\ PieceInv /\ [Next]_vars => PieceInv'
<1> SUFFICES ASSUME Typing, PieceInv, [Next]_vars, NEW c \in Clients PROVE PiecesOf(c)'
  BY DEF PieceInv, PiecesOf
<1>1. PiecesOf(c)
  BY DEF PieceInv, PiecesOf
<1>2. CASE ComeOrGo \/ Pir \/ PirFails \/ FaceStep \/ UNCHANGED vars
  <2>1. UNCHANGED <<threadVars, gone, overwritten>>
    BY <1>2 DEF ComeOrGo, Pir, PirFails, FaceStep, vars, serverVars
  <2> QED
    BY <1>1, <2>1, PiecesKept DEF threadVars
<1>3. CASE UsrHandler \/ CtrlC
  BY <1>1, <1>3, PiecesKept DEF UsrHandler, CtrlC, threadVars
<1>4. ASSUME NEW o \in Clients, Connect(o) \/ Open(o) PROVE PiecesOf(c)'
  <2>1. CASE o # c
    BY <1>1, <1>4, <2>1, PiecesKept DEF Connect, Open, Typing
  <2>2. CASE o = c
    BY <1>1, <1>4, <2>2 DEF Connect, Open, Typing, PiecesOf
  <2> QED
    BY <2>1, <2>2
<1>5. ASSUME NEW o \in Clients, HangUp(o) PROVE PiecesOf(c)'
  BY <1>1, <1>5, PiecesKept DEF HangUp, threadVars
<1>6. ASSUME NEW o \in Clients, Read(o) PROVE PiecesOf(c)'
  <2>1. CASE o # c
    BY <1>1, <1>6, <2>1, PiecesKept DEF Read, Typing
  <2> QED
    BY <1>1, <1>6, <2>1, ReaderHasPieces
<1>7. ASSUME NEW o \in Clients, Write(o) PROVE PiecesOf(c)'
  <2>1. CASE o # c
    BY <1>1, <1>7, <2>1, PiecesKept DEF Write, Typing
  <2> QED
    BY <1>1, <1>7, <2>1, WriterHasPieces
<1> QED
  BY <1>2, <1>3, <1>4, <1>5, <1>6, <1>7
     DEF Next, ServerStep, FrontPhotoServer, BackPhotoServer, PhotoServer, ThreadStep

\* A photo of any length reaches any number of clients whole and in order, unless
\* another thread's piece came into the buffer between a read and its write.
THEOREM PhotoIsWhole == Spec => []WholeUnlessOverwritten
<1>1. Init => PieceInv
  BY NoPieces DEF Init, PieceInv
<1>2. PieceInv => WholeUnlessOverwritten
  BY DEF PieceInv, WholeUnlessOverwritten
<1>3. TypeOK => Typing
  BY TypingSplit
<1> QED
  BY <1>1, <1>2, <1>3, PieceStep, TypeCorrect, PTL DEF Spec
=============================================================================
