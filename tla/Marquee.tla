------------------------------- MODULE Marquee -------------------------------
(***************************************************************************)
(* The marquee of lab4.  writer.c writes the letters of a name into the    *)
(* driver mydev, which keeps the last one; reader.c reads the picture of   *)
(* the kept letter over and over and sends it to seg.py on another         *)
(* computer, which shows it.  Writer and reader sleep a second between two *)
(* letters, each by its own clock: a letter may be read twice or not at    *)
(* all.  mydev is one of the drivers of Display.                           *)
(***************************************************************************)
EXTENDS Display

CONSTANTS
  Capitals, SmallLetters,  \* the letters of the names
  Others,                  \* other characters in them
  Persons,                 \* what writer is called with: sequences of characters
  MaxNames,                \* bound: names written since the driver was inserted, and 'A'
  MaxQueue                 \* bound: pictures in the connection

Characters == Capitals \cup SmallLetters \cup Others

ASSUME MarqueeAssumption ==
  /\ "A" \in Capitals /\ Capitals \cap SmallLetters = {}
  /\ Persons \subseteq Seq(Characters)
  /\ MaxNames \in Nat /\ MaxQueue \in Nat \ {0}

Pictures == Capitals \cup {"other"}
Blank == [picture |-> "other", of |-> <<0, 0>>]

VARIABLES
  previous_letter,  \* what the driver keeps
  writer,           \* "none" or "write"
  w,                \* its i
  reader,           \* "none", "read", "send"
  conn,             \* the reader's connection: "none", "served", "backlog", "reset"
  buf,              \* the picture read
  socket,           \* the pictures on their way over the served connection
  seg,              \* seg.py: "off", "listening", "serves"
  panel,            \* what its window shows
  names,            \* history: the names written; the first stands for the driver's 'A'
  written           \* history: the name and the letter in it of previous_letter

marqueeVars == <<previous_letter, writer, w, reader, conn, buf, socket, seg, panel, names, written>>
allVars == <<vars, marqueeVars>>

Sent == [picture : Pictures, of : Nat \X Nat]

MarqueeTypeOK ==
  /\ previous_letter \in Capitals \cup SmallLetters
  /\ writer \in {"none", "write"} /\ w \in Nat
  /\ reader \in {"none", "read", "send"}
  /\ conn \in {"none", "served", "backlog", "reset"}
  /\ buf \in Sent
  /\ socket \in Seq(Sent)
  /\ seg \in {"off", "listening", "serves"}
  /\ panel \in Sent
  /\ names \in Seq(Seq(Characters)) /\ names # <<>>
  /\ written \in Nat \X Nat

MarqueeInit ==
  /\ Init
  /\ previous_letter = "A" /\ names = <<<<"A">>>> /\ written = <<1, 1>>
  /\ writer = "none" /\ w = 0
  /\ reader = "none" /\ conn = "none" /\ buf = Blank /\ socket = <<>>
  /\ seg = "off" /\ panel = Blank

HasDriver == mode = "loaded" /\ driver = "mydev"
Idle == writer = "none" /\ reader = "none" /\ seg = "off"

-----------------------------------------------------------------------------
(* The driver: one letter.                                                 *)

my_write(c) == previous_letter' = c /\ written' = <<Len(names), w + 1>>

\* seg_for_c has a row for each capital; a small letter's lies behind its end,
\* whatever is there.
seg_for_c(c) == IF c \in Capitals THEN {c} ELSE Pictures

my_read == \E p \in seg_for_c(previous_letter) : buf' = [picture |-> p, of |-> written]

-----------------------------------------------------------------------------
(* writer.c                                                                *)

IsLetter(c) == c \in Capitals \cup SmallLetters

StartWriter(n) ==
  /\ HasDriver /\ writer = "none" /\ Len(names) < MaxNames
  /\ writer' = "write" /\ w' = 0 /\ names' = Append(names, n)
  /\ UNCHANGED <<previous_letter, written, reader, conn, buf, socket, seg, panel>>

\* Mutant: every character is written.
WriteLetter_Any ==
  /\ writer = "write" /\ w < Len(names[Len(names)])
  /\ previous_letter' = names[Len(names)][w + 1] /\ written' = <<Len(names), w + 1>>
  /\ w' = w + 1
  /\ UNCHANGED <<writer, names, reader, conn, buf, socket, seg, panel>>

WriteLetter ==
  /\ writer = "write" /\ w < Len(names[Len(names)])
  /\ LET c == names[Len(names)][w + 1]
     IN  IF IsLetter(c) THEN my_write(c) ELSE UNCHANGED <<previous_letter, written>>
  /\ w' = w + 1
  /\ UNCHANGED <<writer, names, reader, conn, buf, socket, seg, panel>>

\* It is done, or is interrupted.
EndWriter ==
  /\ writer = "write"
  /\ writer' = "none"
  /\ UNCHANGED <<w, previous_letter, written, names, reader, conn, buf, socket, seg, panel>>

-----------------------------------------------------------------------------
(* reader.c                                                                *)

\* seg.py serves the first connection; those that follow stay in its backlog.
StartReader ==
  /\ HasDriver /\ reader = "none" /\ seg # "off"
  /\ reader' = "read" /\ seg' = "serves"
  /\ conn' = IF seg = "listening" THEN "served" ELSE "backlog"
  /\ UNCHANGED <<writer, w, previous_letter, written, names, buf, socket, panel>>

Read ==
  /\ reader = "read" /\ reader' = "send"
  /\ my_read
  /\ UNCHANGED <<writer, w, previous_letter, written, names, conn, socket, seg, panel>>

\* Mutant: the device is read once, before the loop.
Send_ReadOnce ==
  /\ reader = "send"
  /\ conn = "served" /\ Len(socket) < MaxQueue
  /\ socket' = Append(socket, buf) /\ reader' = "send"
  /\ UNCHANGED <<writer, w, previous_letter, written, names, conn, buf, seg, panel>>

\* The first write to a connection that is gone may still succeed; the next is
\* answered by SIGPIPE.
Send ==
  /\ reader = "send"
  /\ \/ /\ conn = "served" /\ Len(socket) < MaxQueue
        /\ socket' = Append(socket, buf) /\ reader' = "read" /\ UNCHANGED conn
     \/ conn \in {"backlog", "reset"} /\ reader' = "read" /\ UNCHANGED <<socket, conn>>
     \/ conn = "reset" /\ reader' = "none" /\ conn' = "none" /\ UNCHANGED socket
  /\ UNCHANGED <<writer, w, previous_letter, written, names, buf, seg, panel>>

\* The handler closes both descriptors; the loop ends by the error of its next call.
sigint_handler ==
  /\ reader # "none"
  /\ reader' = "none" /\ conn' = "none"
  /\ UNCHANGED <<writer, w, previous_letter, written, names, buf, socket, seg, panel>>

-----------------------------------------------------------------------------
(* seg.py                                                                  *)

StartSeg ==
  /\ HasDriver /\ seg = "off"
  /\ seg' = "listening"
  /\ UNCHANGED <<writer, w, previous_letter, written, names, reader, conn, buf, socket, panel>>

update ==
  /\ seg = "serves" /\ socket # <<>>
  /\ panel' = Head(socket) /\ socket' = Tail(socket)
  /\ UNCHANGED <<writer, w, previous_letter, written, names, reader, conn, buf, seg>>

QuitSeg ==
  /\ seg # "off"
  /\ seg' = "off" /\ panel' = Blank /\ socket' = <<>>
  /\ conn' = IF reader = "none" THEN "none" ELSE "reset"
  /\ UNCHANGED <<writer, w, previous_letter, written, names, reader, buf>>

-----------------------------------------------------------------------------
Reader == Read \/ Send

Parts ==
  \/ \E n \in Persons : StartWriter(n)
  \/ WriteLetter \/ EndWriter \/ StartReader \/ Reader \/ sigint_handler
  \/ StartSeg \/ update \/ QuitSeg

\* The driver is removed when its programs have ended, and with it all data; the
\* window of seg.py is closed by then.
DriverStep ==
  \/ Kernel /\ UNCHANGED <<progVars, marqueeVars>>
  \/ Program /\ UNCHANGED <<probeVars, marqueeVars>>
  \/ /\ prog = "none" /\ Idle /\ Rmmod
     /\ previous_letter' = "A" /\ names' = <<<<"A">>>> /\ written' = <<1, 1>> /\ w' = 0 /\ buf' = Blank
     /\ UNCHANGED <<progVars, writer, reader, conn, socket, seg, panel>>

MarqueeNext == DriverStep \/ (Parts /\ UNCHANGED vars)

MarqueeSpec == MarqueeInit /\ [][MarqueeNext]_allVars

\* reader and seg.py are scheduled; nothing is asked of the users.
FairSpec == MarqueeSpec /\ WF_allVars(Reader /\ UNCHANGED vars) /\ WF_allVars(update /\ UNCHANGED vars)

-----------------------------------------------------------------------------
Letter(s) == names[s[1]][s[2]]
IsLetterOf(p) == Letter(p.of) \in SmallLetters \/ p.picture = Letter(p.of)
NotBefore(s, t) == s[1] < t[1] \/ (s[1] = t[1] /\ s[2] <= t[2])

\* A picture that comes on is that of a letter written not before the one it
\* follows, over any number of names and whenever reader and writer run: letters
\* may be missed and the last of the name before may be shown, but none comes back.
\* (A small letter has no picture of its own.)
LettersInOrder ==
  [][seg' = "serves" /\ panel' # panel => NotBefore(panel.of, panel'.of) /\ IsLetterOf(panel')]_allVars

\* The last letter of a name comes on, whatever was shown or under way when it
\* was written, for a reader that seg.py serves.
LastLetterIsShown ==
  (conn = "served" /\ writer = "none")
    ~> (panel.of = written \/ conn # "served" \/ writer # "none")

\* The inductive invariant behind LettersInOrder: panel, connection, reader and
\* driver hold letters in the order in which they were written.
WasWritten(s) == s[1] \in 1..Len(names) /\ s[2] \in 1..Len(names[s[1]])
OrderInv ==
  /\ WasWritten(written) /\ Letter(written) = previous_letter
  /\ writer = "write" => NotBefore(written, <<Len(names), w>>)
  /\ NotBefore(panel.of, written)
  /\ seg = "off" => panel = Blank /\ socket = <<>> /\ conn # "served"
  /\ reader = "send" =>
       /\ WasWritten(buf.of) /\ IsLetterOf(buf)
       /\ NotBefore(buf.of, written) /\ NotBefore(panel.of, buf.of)
  /\ \A k \in 1..Len(socket) :
       /\ WasWritten(socket[k].of) /\ IsLetterOf(socket[k])
       /\ NotBefore(panel.of, socket[k].of) /\ NotBefore(socket[k].of, written)
       /\ \A j \in 1..k : NotBefore(socket[j].of, socket[k].of)
       /\ reader = "send" => NotBefore(socket[k].of, buf.of)
=============================================================================
