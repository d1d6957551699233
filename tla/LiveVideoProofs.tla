--------------------------- MODULE LiveVideoProofs ---------------------------
(* The reassembly of an image for any number of datagrams per image.       *)
EXTENDS LiveVideo, SequenceTheorems, TLAPS

IInv == TypeOK /\ VideoInv

USE DEF Size, Chunk

LEMMA InitInv == ASSUME VideoAssumption, Init PROVE IInv
<1>1. image_buffer = <<>> /\ clicks = <<>>
  BY DEF Init
<1>2. TypeOK
  <2>1. image_buffer \in Seq(Chunk) /\ clicks \in Seq(Clicks)
    BY <1>1
  <2>2. global_camera_buffer \in [1..Chunks -> Frames]
    BY DEF Init, Frames
  <2>3. QED
    <3>1. 0 \in 0..Chunks /\ 0 \in 0..MaxLost
      BY DEF VideoAssumption
    <3>2. /\ global_camera_data_size = 0 /\ camera = "wait" /\ copied = 0 /\ frame = 0
          /\ sender = "none" /\ size = 0 /\ sent = 0 /\ client = "start"
          /\ alarm = 0 /\ vote = "none" /\ lost = 0 /\ missing = 0 /\ shown = FALSE
          /\ overtaken = FALSE /\ door \in {"front", "back"}
      BY DEF Init
    <3>3. QED
      BY <2>1, <2>2, <3>1, <3>2 DEF TypeOK, Frames
<1>3. VideoInv
  BY <1>1 DEF Init, VideoInv, VideoAssumption, ImageFits, InStep, InPlace
<1>4. QED
  BY <1>2, <1>3 DEF IInv

\* A chunk that arrives is put in its place if nothing is missing, and keeps the
\* client in step in any case.
LEMMA ChunkInv ==
  ASSUME VideoAssumption, IInv, client = "running", sender = "send", sent < size,
         NEW c \in Chunk, c.pos = sent + 1, ReceiveChunk(c),
         sent' = sent + 1, UNCHANGED <<sender, size, missing>>
  PROVE  VideoInv' /\ image_buffer' \in Seq(Chunk)
<1>1. client' = "running" /\ size = Chunks /\ sent \in Nat /\ Chunks \in Nat /\ missing \in Nat
  BY DEF ReceiveChunk, IInv, TypeOK, VideoAssumption
<1>a. image_buffer \in Seq(Chunk) /\ Len(image_buffer) <= Chunks /\ InStep
      /\ (missing = 0 => InPlace) /\ Chunks # 0
  BY DEF IInv, TypeOK, VideoInv, ImageFits, VideoAssumption
<1>2. CASE Len(image_buffer) = Chunks
  <2>1. image_buffer' = <<>>
    BY <1>2 DEF ReceiveChunk
  <2>2. Len(image_buffer') = 0 /\ image_buffer' \in Seq(Chunk)
    BY <2>1
  <2>3. InStep'
    BY <1>1, <1>a, <1>2, <2>2 DEF InStep
  <2>4. QED
    BY <1>1, <2>1, <2>2, <2>3 DEF VideoInv, ImageFits, InPlace
<1>3. CASE Len(image_buffer) # Chunks
  <2>1. image_buffer' = Append(image_buffer, c)
    BY <1>3 DEF ReceiveChunk
  <2>2. Len(image_buffer') = Len(image_buffer) + 1 /\ image_buffer' \in Seq(Chunk)
        /\ Len(image_buffer) \in Nat
    BY <1>a, <2>1
  <2>3. \A k \in 1..Len(image_buffer) : image_buffer'[k] = image_buffer[k]
    BY <1>a, <2>1
  <2>4. image_buffer'[Len(image_buffer) + 1] = c
    BY <1>a, <2>1
  <2>5. ImageFits'
    BY <1>1, <1>a, <1>3, <2>2 DEF ImageFits
  <2>6. InStep'
    <3>1. sent' = sent + 1 /\ missing' = missing
      OBVIOUS
    <3>2. CASE missing > Chunks
      BY <3>1, <3>2 DEF InStep
    <3>3. CASE Len(image_buffer) + missing = sent
      BY <1>1, <2>2, <3>1, <3>3 DEF InStep
    <3>4. CASE Len(image_buffer) + missing = sent + Chunks + 1
      <4>1. Len(image_buffer') + missing = (Len(image_buffer) + missing) + 1
        BY <1>1, <2>2
      <4>2. sent' + Chunks + 1 = (sent + Chunks + 1) + 1
        BY <1>1, <3>1
      <4>3. Len(image_buffer') + missing' = sent' + Chunks + 1
        BY <3>1, <3>4, <4>1, <4>2
      <4>4. QED
        BY <4>3 DEF InStep
    <3>5. QED
      BY <1>a, <3>2, <3>3, <3>4 DEF InStep
  <2>7. missing' = 0 => InPlace'
    <3>1. SUFFICES ASSUME missing = 0 PROVE InPlace'
      OBVIOUS
    <3>2. Len(image_buffer) = sent
      BY <1>1, <1>a, <2>2, <3>1 DEF InStep
    <3>3. InPlace
      BY <1>a, <3>1
    <3>4. \A k \in 1..Len(image_buffer') : k \in 1..Len(image_buffer) \/ k = Len(image_buffer) + 1
      BY <2>2
    <3>5. QED
      BY <2>2, <2>3, <2>4, <3>2, <3>3, <3>4 DEF InPlace
  <2>8. QED
    BY <1>1, <2>2, <2>5, <2>6, <2>7 DEF VideoInv
<1>4. QED
  BY <1>2, <1>3

\* Datagrams that go missing at the end of a round put the client a round behind.
LEMMA MissingInv ==
  ASSUME VideoAssumption, IInv, sender = "send", NEW n \in Nat, NotReceived(n),
         UNCHANGED size,
         \/ n = 1 /\ sent < size /\ sent' = sent + 1 /\ sender' = sender
         \/ n = size - sent + 1 /\ size = Chunks /\ sent' = 0 /\ sender' = "begin"
         \/ n = 0 /\ size = 0 /\ sent' = 0 /\ sender' = "begin"
  PROVE  VideoInv'
<1>1. UNCHANGED <<client, image_buffer>> /\ Len(image_buffer) \in Nat
  BY DEF NotReceived, IInv, TypeOK
<1>2. client = "running" => missing' = missing + n
  BY DEF NotReceived
<1>3. client # "running" => missing' = missing
  BY DEF NotReceived
<1>4. sent \in Nat /\ Chunks \in Nat /\ missing \in Nat /\ sent <= size /\ size \in {0, Chunks}
  BY DEF IInv, TypeOK, VideoInv, VideoAssumption
<1>5. client' = "running" => InStep'
  <2>1. SUFFICES ASSUME client = "running" PROVE InStep'
    BY <1>1
  <2>2. InStep /\ Len(image_buffer) <= Chunks /\ missing' = missing + n
        /\ Len(image_buffer') = Len(image_buffer)
    BY <1>1, <1>2, <2>1 DEF IInv, VideoInv, ImageFits
  <2>3. CASE n = 1 /\ sent < size /\ sent' = sent + 1
    BY <1>1, <1>4, <2>2, <2>3 DEF InStep
  <2>4. CASE n = size - sent + 1 /\ size = Chunks /\ sent' = 0
    BY <1>1, <1>4, <2>2, <2>4 DEF InStep
  <2>5. CASE n = 0 /\ size = 0 /\ sent' = 0
    BY <1>1, <1>4, <2>2, <2>5 DEF InStep
  <2>6. QED
    BY <2>3, <2>4, <2>5
<1>6. missing' = 0 => InPlace'
  BY <1>1, <1>2, <1>3, <1>4 DEF IInv, VideoInv, InPlace
<1>7. (sender' = "send" => sent' <= size') /\ (sender' \in {"none", "begin"} => sent' = 0)
  BY <1>4
<1>8. QED
  BY <1>1, <1>3, <1>5, <1>6, <1>7 DEF IInv, VideoInv, ImageFits

LEMMA OvertakenType == ASSUME overtaken \in BOOLEAN, Next PROVE overtaken' \in BOOLEAN
<1>1. CASE CameraStep
  BY <1>1 DEF CameraStep, Dequeue, CopyChunk, Copied, CameraEnds
<1>2. CASE BeginRound
  BY <1>2 DEF BeginRound
<1>3. CASE Start \/ SendChunk \/ SendEmpty \/ SendFails \/ ServerExits \/ Click \/ Vote
  BY <1>3 DEF Start, SendChunk, SendEmpty, SendFails, ServerExits, Click, Vote, FrontVote, BackVote
<1>4. QED
  BY <1>1, <1>2, <1>3 DEF Next, FrontServer, BackServer, VideoServer, SenderStep

LEMMA TypeStep == ASSUME VideoAssumption, IInv, Next PROVE TypeOK'
<1>0. overtaken' \in BOOLEAN
  BY OvertakenType DEF IInv, TypeOK
<1> USE DEF IInv, TypeOK, VideoAssumption, cameraVars, senderVars, userVars
<1>1. CASE CameraStep
  <2>1. UNCHANGED <<door, senderVars, client, image_buffer, userVars, lost, missing, shown>>
    BY <1>1 DEF CameraStep
  <2>2. /\ global_camera_buffer' \in [1..Chunks -> Frames] /\ global_camera_data_size' \in Size
        /\ camera' \in {"wait", "copy", "ended"} /\ copied' \in 0..Chunks /\ frame' \in Frames
    <3>1. CASE Dequeue
      BY <3>1 DEF Dequeue, Frames
    <3>2. CASE CopyChunk
      BY <3>2 DEF CopyChunk
    <3>3. CASE Copied
      BY <3>3 DEF Copied
    <3>4. CASE CameraEnds
      BY <3>4 DEF CameraEnds
    <3>5. QED
      BY <1>1, <3>1, <3>2, <3>3, <3>4 DEF CameraStep
  <2>3. QED
    BY <1>0, <2>1, <2>2
<1>2. CASE Start \/ BeginRound \/ ServerExits
  <2> HIDE DEF Chunk
  <2>1. CASE Start
    BY <1>0, <2>1 DEF Start
  <2>2. CASE BeginRound
    BY <1>0, <2>2 DEF BeginRound
  <2>3. CASE ServerExits
    BY <1>0, <2>3 DEF ServerExits
  <2>4. QED
    BY <1>2, <2>1, <2>2, <2>3
<1>3. ASSUME NEW n \in Nat, NotReceived(n) PROVE
        /\ UNCHANGED <<client, image_buffer, alarm, shown>>
        /\ lost' \in 0..MaxLost /\ missing' \in Nat
  BY <1>3 DEF NotReceived
<1>4. CASE SendChunk
  <2>1. size = Chunks /\ sent + 1 \in 1..Chunks
    BY <1>4 DEF SendChunk, VideoInv
  <2>2. [pos |-> sent + 1, frame |-> global_camera_buffer[sent + 1]] \in Chunk
    BY <2>1
  <2>3. UNCHANGED <<door, cameraVars, sender, size, clicks, vote>> /\ sent' \in 0..Chunks
    BY <1>4, <2>1 DEF SendChunk
  <2>4. CASE NotReceived(1)
    BY <1>0, <1>3, <2>3, <2>4
  <2>5. CASE ReceiveChunk([pos |-> sent + 1, frame |-> global_camera_buffer[sent + 1]])
             /\ UNCHANGED <<lost, missing>>
    <3> DEFINE c == [pos |-> sent + 1, frame |-> global_camera_buffer[sent + 1]]
    <3>1. shown' = FALSE /\ UNCHANGED <<client, alarm>>
      BY <2>5 DEF ReceiveChunk
    <3>2. image_buffer' = <<>> \/ image_buffer' = Append(image_buffer, c)
      BY <2>5 DEF ReceiveChunk
    <3>3. c \in Chunk /\ image_buffer \in Seq(Chunk)
      BY <2>2
    <3>4. image_buffer' \in Seq(Chunk)
      <4> HIDE DEF c, Chunk
      <4>1. CASE image_buffer' = <<>>
        BY <4>1
      <4>2. CASE image_buffer' = Append(image_buffer, c)
        BY <3>3, <4>2, AppendProperties
      <4>3. QED
        BY <3>2, <4>1, <4>2
    <3> HIDE DEF c, Chunk, Size
    <3>5. QED
      BY <1>0, <2>3, <2>5, <3>1, <3>4
  <2>6. QED
    BY <1>4, <2>4, <2>5 DEF SendChunk
<1>5. CASE SendFails
  <2>1. size - sent + 1 \in Nat
    BY <1>5 DEF SendFails
  <2>2. QED
    BY <1>0, <1>3, <1>5, <2>1 DEF SendFails
<1>6. CASE SendEmpty
  <2>1. UNCHANGED <<door, cameraVars, size, clicks, vote>> /\ sender' = "begin" /\ sent' = 0
    BY <1>6 DEF SendEmpty
  <2>2. CASE NotReceived(IF size = 0 THEN 0 ELSE 1)
    BY <1>0, <1>3, <2>1, <2>2
  <2>3. CASE ReceiveEmpty /\ missing' = 0 /\ UNCHANGED lost
    <3>1. image_buffer' \in Seq(Chunk)
      BY <2>3 DEF ReceiveEmpty
    <3>2. shown' \in BOOLEAN /\ client' \in {"start", "running", "decided", "over"}
          /\ alarm' \in {0, 1}
      BY <2>3 DEF ReceiveEmpty, Show, AlarmAfter
    <3>3. QED
      BY <1>0, <2>1, <2>3, <3>1, <3>2
  <2>4. QED
    BY <1>6, <2>2, <2>3 DEF SendEmpty
<1>7. CASE Click
  BY <1>0, <1>7 DEF Click
<1>8. CASE Vote
  <2>1. vote' \in {"none", "10", "111", "01", "000"} /\ client' = "over"
    BY <1>8 DEF Vote, FrontVote, BackVote
  <2>2. UNCHANGED <<door, cameraVars, senderVars, image_buffer, alarm, clicks, lost, missing, overtaken, shown>>
    BY <1>8 DEF Vote
  <2>3. QED
    BY <1>0, <2>1, <2>2
<1>9. QED
  BY <1>1, <1>2, <1>4, <1>5, <1>6, <1>7, <1>8 DEF Next, FrontServer, BackServer, VideoServer, SenderStep

LEMMA VideoStep == ASSUME VideoAssumption, IInv, Next PROVE VideoInv'
<1> USE DEF cameraVars, senderVars, userVars
<1>1. CASE CameraStep \/ Click
  BY <1>1 DEF CameraStep, Click, IInv, VideoInv, ImageFits, InStep, InPlace
<1>2. CASE Start
  <2>1. image_buffer' = <<>> /\ missing' = 0 /\ sent' = 0 /\ sender' \in {"none", "begin"}
        /\ client' = "running" /\ size' = size
    BY <1>2 DEF Start, IInv, VideoInv
  <2>2. QED
    BY <2>1 DEF VideoInv, ImageFits, InStep, InPlace, VideoAssumption
<1>3. CASE BeginRound
  <2>1. sent = 0 /\ sent' = 0 /\ size' \in {0, Chunks} /\ UNCHANGED <<client, image_buffer, missing>>
    BY <1>3 DEF BeginRound, IInv, VideoInv, TypeOK
  <2>2. QED
    BY <1>3, <2>1 DEF BeginRound, IInv, VideoInv, ImageFits, InStep, InPlace, VideoAssumption
<1>4. CASE SendChunk
  <2>1. size = Chunks /\ sent + 1 \in 1..Chunks
    BY <1>4 DEF SendChunk, IInv, TypeOK, VideoInv, VideoAssumption
  <2>2. [pos |-> sent + 1, frame |-> global_camera_buffer[sent + 1]] \in Chunk
    BY <2>1 DEF IInv, TypeOK
  <2>3. QED
    BY <1>4, <2>2, ChunkInv, MissingInv DEF SendChunk
<1>5. CASE SendFails
  <2>1. size - sent + 1 \in Nat /\ size = Chunks
    BY <1>5 DEF SendFails, IInv, TypeOK, VideoAssumption
  <2>2. QED
    BY <1>5, <2>1, MissingInv DEF SendFails
<1>6. CASE SendEmpty
  <2>1. CASE NotReceived(IF size = 0 THEN 0 ELSE 1)
    <3>1. size \in {0, Chunks} /\ sent = size /\ Chunks # 0 /\ Chunks \in Nat
      BY <1>6 DEF SendEmpty, IInv, TypeOK, VideoAssumption
    <3>2. CASE size = 0
      BY <1>6, <2>1, <3>1, <3>2, MissingInv DEF SendEmpty
    <3>3. CASE size = Chunks
      <4>1. NotReceived(1) /\ size - sent + 1 = 1
        BY <2>1, <3>1, <3>3
      <4>2. QED
        BY <1>6, <3>3, <4>1, MissingInv DEF SendEmpty
    <3>4. QED
      BY <3>1, <3>2, <3>3
  <2>2. CASE client = "running" /\ ReceiveEmpty /\ missing' = 0
    <3>1. image_buffer' = <<>> /\ client' \in {"running", "decided"} /\ sent' = 0
          /\ sender' = "begin"
      BY <1>6, <2>2 DEF SendEmpty, ReceiveEmpty, Show
    <3>2. QED
      BY <2>2, <3>1 DEF VideoInv, ImageFits, InStep, InPlace, VideoAssumption
  <2>3. QED
    BY <1>6, <2>1, <2>2 DEF SendEmpty
<1>7. CASE ServerExits
  BY <1>7 DEF ServerExits, IInv, VideoInv, ImageFits, InStep, InPlace
<1>8. CASE Vote
  BY <1>8 DEF Vote, IInv, VideoInv, ImageFits, InStep, InPlace
<1>9. QED
  BY <1>1, <1>2, <1>3, <1>4, <1>5, <1>6, <1>7, <1>8 DEF Next, FrontServer, BackServer, VideoServer, SenderStep

\* Whatever the network loses and whenever a send fails, less than a whole round
\* missing leaves the client in step with its sender (the count of received bytes
\* in the client's main).
THEOREM VideoInvHolds == ASSUME VideoAssumption PROVE Spec => [](TypeOK /\ VideoInv)
<1>1. Init => IInv
  BY InitInv
<1>2. IInv /\ [Next]_vars => IInv'
  <2> SUFFICES ASSUME IInv, [Next]_vars PROVE IInv'
    OBVIOUS
  <2>1. CASE UNCHANGED vars
    BY <2>1 DEF vars, cameraVars, senderVars, userVars, IInv, TypeOK, VideoInv, ImageFits,
                InStep, InPlace
  <2>2. CASE Next
    BY <2>2, TypeStep, VideoStep DEF IInv
  <2>3. QED
    BY <2>1, <2>2
<1>3. QED
  BY <1>1, <1>2, PTL DEF Spec, IInv

\* The client's memcpy never leaves image_buffer.
THEOREM ImageAlwaysFits == ASSUME VideoAssumption PROVE Spec => []ImageFits
<1>1. TypeOK /\ VideoInv => ImageFits
  BY DEF VideoInv
<1>2. QED
  BY <1>1, VideoInvHolds, PTL

\* An image is only shown out of place after a whole round's worth of losses.
THEOREM ShownIsInPlace == ASSUME VideoAssumption PROVE Spec => []ShownInPlace
<1>1. TypeOK /\ VideoInv => ShownInPlace
  <2> SUFFICES ASSUME TypeOK, VideoInv, AboutToShow, missing <= Chunks PROVE InPlace
    BY DEF ShownInPlace
  <2>1. Len(image_buffer) = Chunks /\ sent = Chunks /\ Chunks \in Nat \ {0}
    BY DEF AboutToShow, VideoAssumption
  <2>2. client = "running"
    BY <2>1 DEF VideoInv
  <2>3. missing = 0
    BY <2>1, <2>2 DEF VideoInv, InStep, TypeOK
  <2>4. QED
    BY <2>3 DEF VideoInv
<1>2. QED
  BY <1>1, VideoInvHolds, PTL

\* The camera thread's own steps: what it has copied is of its frame.
LEMMA CameraFrame == ASSUME VideoAssumption, IInv, FrameInv, CameraStep PROVE FrameInv'
<1> USE DEF cameraVars, senderVars
<1>1. Chunks \in Nat /\ copied \in 0..Chunks /\ global_camera_buffer \in [1..Chunks -> Frames]
  BY DEF IInv, TypeOK, VideoAssumption
<1>2. UNCHANGED <<sender, image_buffer, missing>>
  BY DEF CameraStep
<1>3. CASE Dequeue
  <2>1. camera' = "copy" /\ copied' = 0 /\ UNCHANGED global_camera_buffer
    BY <1>3 DEF Dequeue
  <2>2. ~(sender' = "send" /\ ~overtaken')
    BY <1>2, <1>3, Zenon DEF Dequeue
  <2>3. QED
    BY <2>1, <2>2 DEF FrameInv
<1>4. CASE CopyChunk
  <2>1. camera = "copy" /\ camera' = "copy" /\ copied' = copied + 1 /\ copied + 1 \in 1..Chunks
        /\ frame' = frame /\ overtaken' = overtaken
        /\ global_camera_buffer' = [global_camera_buffer EXCEPT ![copied + 1] = frame]
    BY <1>1, <1>4 DEF CopyChunk
  <2>2. \A k \in 1..copied' : global_camera_buffer'[k] = frame'
    BY <1>1, <2>1 DEF FrameInv
  <2>3. ~(sender' = "send" /\ ~overtaken')
    BY <1>2, <2>1 DEF FrameInv
  <2>4. QED
    BY <2>1, <2>2, <2>3 DEF FrameInv
<1>5. CASE Copied
  BY <1>1, <1>2, <1>5 DEF Copied, FrameInv
<1>6. CASE CameraEnds
  BY <1>1, <1>2, <1>6 DEF CameraEnds, FrameInv
<1>7. QED
  BY <1>3, <1>4, <1>5, <1>6 DEF CameraStep

\* A chunk that arrives with nothing missing is the buffer's at its place.
LEMMA ChunkFrame == ASSUME VideoAssumption, IInv, FrameInv, SendChunk PROVE FrameInv'
<1> USE DEF cameraVars
<1>1. UNCHANGED <<global_camera_buffer, camera, copied, frame, sender, overtaken>>
      /\ sender = "send" /\ sent + 1 \in 1..Chunks /\ size = Chunks /\ Chunks \in Nat
      /\ sent \in Nat
  BY DEF SendChunk, IInv, TypeOK, VideoInv, VideoAssumption
<1>2. image_buffer \in Seq(Chunk) /\ Len(image_buffer) \in Nat /\ missing \in Nat
  BY DEF IInv, TypeOK
<1>3. CASE NotReceived(1)
  <2>1. UNCHANGED image_buffer /\ (missing' = 0 => missing = 0)
    BY <1>2, <1>3 DEF NotReceived
  <2>2. QED
    BY <1>1, <2>1 DEF FrameInv
<1>4. CASE client = "running" /\ UNCHANGED missing
           /\ ReceiveChunk([pos |-> sent + 1, frame |-> global_camera_buffer[sent + 1]])
  <2> DEFINE c == [pos |-> sent + 1, frame |-> global_camera_buffer[sent + 1]]
  <2>1. SUFFICES ASSUME ~overtaken, missing = 0
                 PROVE  \A k \in 1..Len(image_buffer') : image_buffer'[k].frame = global_camera_buffer[k]
    BY <1>1, <1>4 DEF FrameInv
  <2>2. Len(image_buffer) = sent /\ Len(image_buffer) # Chunks
    <3>1. InStep /\ Len(image_buffer) <= Chunks
      BY <1>4 DEF IInv, VideoInv, ImageFits
    <3>2. QED
      BY <1>1, <1>2, <2>1, <3>1 DEF InStep
  <2>3. image_buffer' = Append(image_buffer, c)
    BY <1>4, <2>2 DEF ReceiveChunk
  <2>4. c \in Chunk /\ c.frame = global_camera_buffer[sent + 1]
    BY <1>1 DEF IInv, TypeOK
  <2> HIDE DEF c
  <2>5. /\ Len(image_buffer') = sent + 1
        /\ \A k \in 1..sent : image_buffer'[k] = image_buffer[k]
        /\ image_buffer'[sent + 1] = c
    BY <1>2, <2>2, <2>3, <2>4
  <2>6. \A k \in 1..sent : image_buffer[k].frame = global_camera_buffer[k]
    BY <1>1, <2>1, <2>2 DEF FrameInv
  <2>7. \A k \in 1..(sent + 1) : k \in 1..sent \/ k = sent + 1
    BY <1>1
  <2>8. QED
    BY <2>4, <2>5, <2>6, <2>7
<1>5. QED
  BY <1>3, <1>4 DEF SendChunk

LEMMA FrameStep == ASSUME VideoAssumption, IInv, FrameInv, Next PROVE FrameInv'
<1> USE DEF cameraVars, senderVars, userVars
<1>1. CASE BeginRound
  <2>1. UNCHANGED <<global_camera_buffer, camera, copied, frame, image_buffer, missing>>
        /\ (~overtaken' => camera # "copy")
    BY <1>1, Zenon DEF BeginRound
  <2>2. missing = 0 => Len(image_buffer) = 0
    BY <1>1 DEF BeginRound, IInv, TypeOK, VideoInv, ImageFits, InStep, VideoAssumption
  <2>3. QED
    BY <2>1, <2>2 DEF FrameInv
<1>2. CASE SendEmpty \/ SendFails \/ ServerExits
  <2>1. sender' # "send" /\ UNCHANGED <<global_camera_buffer, camera, copied, frame>>
    BY <1>2 DEF SendEmpty, SendFails, ServerExits
  <2>2. QED
    BY <2>1 DEF FrameInv
<1>3. CASE Click \/ Vote
  BY <1>3 DEF Click, Vote, FrameInv
<1>4. CASE Start
  <2>1. sender' # "send" /\ UNCHANGED <<global_camera_buffer, camera, copied, frame>>
    BY <1>4 DEF Start
  <2>2. QED
    BY <2>1 DEF FrameInv
<1>5. QED
  BY <1>1, <1>2, <1>3, <1>4, CameraFrame, ChunkFrame DEF Next, FrontServer, BackServer, VideoServer, SenderStep

\* An image is only mixed of two frames if the camera thread was copying while it
\* was sent (camera_thread against handle_client).
THEOREM ShownFrameIsOne == ASSUME VideoAssumption PROVE Spec => []ShownIsOneFrame
<1>1. Init => FrameInv
  BY DEF Init, FrameInv
<1>2. TypeOK /\ VideoInv /\ FrameInv /\ [Next]_vars => FrameInv'
  <2> SUFFICES ASSUME IInv, FrameInv, [Next]_vars PROVE FrameInv'
    BY DEF IInv
  <2>1. CASE UNCHANGED vars
    BY <2>1 DEF vars, cameraVars, senderVars, FrameInv
  <2>2. QED
    BY <2>1, FrameStep
<1>3. TypeOK /\ VideoInv /\ FrameInv => ShownIsOneFrame
  BY DEF AboutToShow, ShownIsOneFrame, FrameInv
<1>4. QED
  BY <1>1, <1>2, <1>3, VideoInvHolds, PTL DEF Spec
=============================================================================
