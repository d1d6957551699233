----------------------------- MODULE DriverProofs ----------------------------
(***************************************************************************)
(* ProbeInv is inductive: for any drivers whose tables satisfy             *)
(* LadderAssumption, any pins, and whatever fails, a failed probe and a    *)
(* removal leave nothing behind and a loaded driver has all its pins.      *)
(* PinsInv adds whose pins the lists of the others are: nobody's but the   *)
(* driver's own.                                                           *)
(* OrderInv is inductive: whatever the names, and however often writer,    *)
(* reader and seg.py are started and stopped.                              *)
(* DisplayInv is inductive: whatever is ordered, and whatever a writer's   *)
(* argument is, digits and countdown come out as they should.              *)
(***************************************************************************)
EXTENDS Marquee, FiniteSetTheorems, SequenceTheorems, WellFoundedInduction, TLAPS

LEMMA HeadAndTail ==
  ASSUME NEW S, NEW s \in Seq(S), s # <<>>
  PROVE  /\ Head(s) \in S /\ Tail(s) \in Seq(S)
         /\ \A x \in ToSet(s) : x = Head(s) \/ x \in ToSet(Tail(s))
<1>1. Head(s) = s[1] /\ Head(s) \in S /\ Tail(s) \in Seq(S)
  OBVIOUS
<1>2. ASSUME NEW k \in DOMAIN s PROVE s[k] = Head(s) \/ s[k] \in ToSet(Tail(s))
  <2>1. CASE k = 1 BY <2>1, <1>1
  <2>2. CASE k # 1
    <3>1. k - 1 \in DOMAIN Tail(s) /\ Tail(s)[k - 1] = s[k] BY <2>2
    <3> QED BY <3>1 DEF ToSet
  <2> QED BY <2>1, <2>2
<1> QED BY <1>1, <1>2 DEF ToSet

LEMMA Element ==
  ASSUME NEW S, NEW s \in Seq(S), NEW k \in 1..Len(s)
  PROVE  s[k] \in S
OBVIOUS

\* Every call takes a resource.
LEMMA CallsTakeResources ==
  ASSUME NEW n \in Names, NEW k \in 1..Len(init[n])
  PROVE  /\ init[n][k] \in [of : Resources, undo : Seq(Resources)]
         /\ init[n][k].of \in Resources /\ init[n][k].undo \in Seq(Resources)
<1> DEFINE T == [of : Resources, undo : Seq(Resources)]
<1>1. init[n] \in Seq(T) BY TableAssumption
<1>2. init[n][k] \in T
  <2> HIDE DEF T
  <2> QED BY <1>1, Element
<1>3. \A c \in T : c.of \in Resources /\ c.undo \in Seq(Resources) OBVIOUS
<1> QED BY <1>2, <1>3

\* The call that is next, and what goes with it.
LEMMA NextCall ==
  ASSUME ProbeTypeOK, Calling, at >= 1
  PROVE  /\ Call \in [of : Resources, undo : Seq(Resources)]
         /\ Call.of \in Resources /\ Call.undo \in Seq(Resources)
         /\ \A j \in 1..at-1 : init[driver][j].of \in ToSet(Call.undo)
         /\ Call.of \in Taken(driver)
<1>1. at \in 1..Len(init[driver]) /\ driver \in Names BY DEF ProbeTypeOK, Calling
<1>2. Call = init[driver][at] BY DEF Call
<1>3. /\ Call \in [of : Resources, undo : Seq(Resources)]
      /\ Call.of \in Resources /\ Call.undo \in Seq(Resources)
  BY <1>1, <1>2, CallsTakeResources
<1>4. \A j \in 1..at-1 : init[driver][j].of \in ToSet(Call.undo) BY <1>1, LadderAssumption DEF Call
<1> QED BY <1>1, <1>3, <1>4 DEF Call, Taken

LEMMA InitHolds == ProbeInit => ProbeInv
BY DEF ProbeInit, ProbeInv, ProbeTypeOK, LoadedHasAll, NothingIsLeft

LEMMA StepHolds ==
  ASSUME ProbeInv, ProbeNext
  PROVE  ProbeInv'
<1> USE DEF ProbeInv, ProbeTypeOK, LoadedHasAll, NothingIsLeft
<1>1. ASSUME NEW n \in Names, Insmod(n) PROVE ProbeInv'
  <2>1. Len(init[n]) \in Nat /\ 1 \in 1..Len(init[n]) + 1 BY TableAssumption
  <2> QED BY <1>1, <2>1 DEF Insmod
<1>2. CASE Succeeds
  <2>0. mode = "probing" /\ at \in Nat /\ at <= Len(init[driver]) /\ at >= 1
    BY <1>2 DEF Succeeds, Calling
  <2>1. Call.of \in Resources /\ Call.of = init[driver][at].of /\ Len(init[driver]) \in Nat
    BY <1>2, <2>0, NextCall, TableAssumption DEF Succeeds, Call
  <2>2. /\ mode' = "probing" /\ at' = at + 1 /\ UNCHANGED <<driver, mode, undo>>
        /\ owner' = [owner EXCEPT ![Call.of] = "driver"]
    BY <1>2, <2>0 DEF Succeeds
  <2>3. at' \in 1..Len(init[driver]) + 1 BY <2>0, <2>1, <2>2
  <2>4. ASSUME NEW r \in Resources, owner'[r] = "driver"
        PROVE  \E j \in 1..at'-1 : init[driver][j].of = r
    <3>1. CASE r = Call.of BY <3>1, <2>0, <2>1, <2>2
    <3>2. CASE r # Call.of
      <4>1. PICK j \in 1..at-1 : init[driver][j].of = r BY <3>2, <2>0, <2>2, <2>4
      <4> QED BY <4>1, <2>0, <2>2
    <3> QED BY <3>1, <3>2
  <2>5. ASSUME NEW j \in 1..at'-1
        PROVE  init[driver][j].of \in {"class", "device"} \/ owner'[init[driver][j].of] = "driver"
    <3>1. CASE j = at BY <3>1, <2>1, <2>2
    <3>2. CASE j # at
      <4>1. j \in 1..at-1 BY <3>2, <2>0, <2>2
      <4>2. j \in 1..Len(init[driver]) BY <4>1, <2>0, <2>1
      <4>3. init[driver][j].of \in Resources BY <4>2, CallsTakeResources
      <4> QED BY <4>1, <4>3, <2>0, <2>1, <2>2
    <3> QED BY <3>1, <3>2
  <2>6. ProbeTypeOK' BY <2>0, <2>1, <2>2
  <2> QED BY <2>0, <2>2, <2>3, <2>4, <2>5, <2>6
<1>3. CASE Unnoticed
  <2>0. mode = "probing" /\ at \in Nat /\ at <= Len(init[driver]) /\ at >= 1 /\ Call.of \in {"class", "device"}
    BY <1>3 DEF Unnoticed, Calling
  <2>1. Call.of = init[driver][at].of /\ Len(init[driver]) \in Nat
    BY <2>0, TableAssumption DEF Call
  <2>2. at' = at + 1 /\ UNCHANGED <<driver, mode, undo, owner>>
    BY <1>3 DEF Unnoticed
  <2>3. at' \in 1..Len(init[driver]) + 1 BY <2>0, <2>1, <2>2
  <2>4. ASSUME NEW r \in Resources, owner'[r] = "driver"
        PROVE  \E j \in 1..at'-1 : init[driver][j].of = r
    <3>1. PICK j \in 1..at-1 : init[driver][j].of = r BY <2>0, <2>2, <2>4
    <3> QED BY <3>1, <2>0, <2>2
  <2>5. ASSUME NEW j \in 1..at'-1
        PROVE  init[driver][j].of \in {"class", "device"} \/ owner'[init[driver][j].of] = "driver"
    <3>1. CASE j = at BY <3>1, <2>0, <2>1
    <3>2. CASE j # at
      <4>1. j \in 1..at-1 BY <3>2, <2>0, <2>2
      <4> QED BY <4>1, <2>0, <2>2
    <3> QED BY <3>1, <3>2
  <2>6. ProbeTypeOK' BY <2>0, <2>2
  <2> QED BY <2>0, <2>2, <2>3, <2>4, <2>5, <2>6
<1>4. CASE Fails
  <2>1. /\ mode = "probing" /\ at >= 1 /\ Calling
        /\ mode' = "failing" /\ undo' = Call.undo /\ UNCHANGED <<driver, at, owner>>
    BY <1>4 DEF Fails, Calling
  <2>2. Call.undo \in Seq(Resources) /\ \A j \in 1..at-1 : init[driver][j].of \in ToSet(Call.undo)
    BY <2>1, NextCall
  <2>3. \A r \in Resources : owner[r] = "driver" => r \in ToSet(Call.undo) BY <2>1, <2>2
  <2> QED BY <2>1, <2>2, <2>3
<1>5. CASE Inserted
  <2>1. /\ mode = "probing" /\ at = Len(init[driver]) + 1 /\ mode' = "loaded"
        /\ UNCHANGED <<driver, at, undo, owner>>
    BY <1>5, TableAssumption DEF Inserted
  <2>2. \A k \in 1..Len(init[driver]) : k \in 1..at-1 BY <2>1, TableAssumption
  <2>3. \A k \in 1..at-1 : k \in 1..Len(init[driver]) BY <2>1, TableAssumption
  <2> QED BY <2>1, <2>2, <2>3 DEF Taken
<1>6. CASE Rmmod
  <2>1. /\ mode = "loaded" /\ mode' = "exiting" /\ undo' = exit[driver]
        /\ UNCHANGED <<driver, at, owner>>
    BY <1>6 DEF Rmmod
  <2>2. exit[driver] \in Seq(Resources) /\ Taken(driver) \subseteq ToSet(exit[driver])
    BY TableAssumption, LadderAssumption
  <2> QED BY <2>1, <2>2
<1>7. CASE GiveBack
  <2>0. Head(undo) \in Resources /\ Tail(undo) \in Seq(Resources)
        /\ \A x \in ToSet(undo) : x = Head(undo) \/ x \in ToSet(Tail(undo))
    BY <1>7, HeadAndTail DEF GiveBack
  <2>1. CASE mode' = "oops" /\ UNCHANGED <<undo, owner>> BY <1>7, <2>1 DEF GiveBack
  <2>2. CASE /\ undo' = Tail(undo) /\ UNCHANGED mode
             /\ owner' = [owner EXCEPT ![Head(undo)] =
                            IF Head(undo) \in Pins \/ @ = "driver" THEN "free" ELSE @]
    <3>1. mode \in {"failing", "exiting"} /\ UNCHANGED <<driver, at>> BY <1>7 DEF GiveBack
    <3>2. owner' \in [Resources -> {"free", "driver", "other"}] /\ owner'[Head(undo)] # "driver"
      BY <2>0, <2>2
    <3>3. \A r \in Resources : owner'[r] = "driver" => r \in ToSet(Tail(undo))
      BY <3>1, <3>2, <2>0, <2>2
    <3> QED BY <3>1, <3>2, <3>3, <2>0, <2>2
  <2> QED BY <1>7, <2>1, <2>2 DEF GiveBack
<1>8. CASE Removed
  <2>1. mode \in {"failing", "exiting"} /\ undo = <<>> /\ mode' = "out" /\ UNCHANGED <<driver, at, undo, owner>>
    BY <1>8 DEF Removed
  <2>2. ToSet(undo) = {} BY <2>1 DEF ToSet
  <2> QED BY <2>1, <2>2
<1>9. ASSUME NEW p \in Wanted, OtherRequests(p) \/ OtherFrees(p) PROVE ProbeInv'
  <2>1. /\ p \in Resources /\ owner[p] # "driver"
        /\ owner' \in [Resources -> {"free", "driver", "other"}] /\ owner'[p] # "driver"
        /\ \A r \in Resources : r # p => owner'[r] = owner[r]
        /\ UNCHANGED <<driver, mode, at, undo>>
    BY <1>9, TableAssumption DEF OtherRequests, OtherFrees, Resources
  <2>2. \A r \in Resources : owner'[r] = "driver" <=> owner[r] = "driver" BY <2>1
  <2>3. \A n \in Names : \A k \in 1..Len(init[n]) : init[n][k].of \in Resources BY CallsTakeResources
  <2>4. mode = "probing" => \A j \in 1..at-1 : init[driver][j].of \in Resources
    <3> SUFFICES ASSUME mode = "probing", NEW j \in 1..at-1 PROVE init[driver][j].of \in Resources
      OBVIOUS
    <3>1. j \in 1..Len(init[driver]) /\ driver \in Names BY TableAssumption
    <3> QED BY <3>1, <2>3
  <2>5. \A r \in Taken(driver) : r \in Resources BY <2>3 DEF Taken
  <2> QED BY <2>1, <2>2, <2>4, <2>5
<1> QED BY <1>1, <1>2, <1>3, <1>4, <1>5, <1>6, <1>7, <1>8, <1>9 DEF ProbeNext, Kernel

\* The inductive invariant of Probe.
THEOREM ProbeInvHolds == ProbeSpec => []ProbeInv
<1>1. ProbeInv /\ UNCHANGED probeVars => ProbeInv'
  BY DEF ProbeInv, ProbeTypeOK, LoadedHasAll, NothingIsLeft, probeVars, Taken
<1>2. ProbeInv /\ [ProbeNext]_probeVars => ProbeInv' BY <1>1, StepHolds
<1> QED BY <1>2, InitHolds, PTL DEF ProbeSpec

\* The programs that use a driver do with the kernel what Probe allows.
THEOREM DisplayUsesDrivers == Spec => ProbeSpec
<1>1. Init => ProbeInit BY DEF Init
<1>2. [Next]_vars => [ProbeNext]_probeVars BY DEF Next, vars, ProbeNext
<1> QED BY <1>1, <1>2, PTL DEF Spec, ProbeSpec

\* So do they when the marquee runs, too.
THEOREM MarqueeUsesDrivers == MarqueeSpec => ProbeSpec
<1>1. MarqueeInit => ProbeInit BY DEF MarqueeInit, Init
<1>2. MarqueeNext => [ProbeNext]_probeVars BY DEF MarqueeNext, DriverStep, ProbeNext, vars
<1>3. UNCHANGED allVars => UNCHANGED probeVars BY DEF allVars, vars
<1> QED BY <1>1, <1>2, <1>3, PTL DEF MarqueeSpec, ProbeSpec

\* A driver leaves nothing behind, whichever of its calls fails.
THEOREM FailedProbeLeavesNothing == MarqueeSpec => []NothingIsLeft
<1>1. ProbeInv => NothingIsLeft BY DEF ProbeInv
<1> QED BY <1>1, ProbeInvHolds, MarqueeUsesDrivers, PTL

\* A loaded driver has all its pins, whoever asks for pins meanwhile.
THEOREM LoadedDriverHasAll == MarqueeSpec => []LoadedHasAll
<1>1. ProbeInv => LoadedHasAll BY DEF ProbeInv
<1> QED BY <1>1, ProbeInvHolds, MarqueeUsesDrivers, PTL

-----------------------------------------------------------------------------
(* The marquee.                                                            *)

MInv == MarqueeTypeOK /\ OrderInv

LEMMA Transitive ==
  ASSUME NEW s \in Nat \X Nat, NEW t \in Nat \X Nat, NEW u \in Nat \X Nat, NotBefore(s, t), NotBefore(t, u)
  PROVE  NotBefore(s, u)
  BY DEF NotBefore

LEMMA Reflexive == ASSUME NEW s \in Nat \X Nat PROVE NotBefore(s, s)
  BY DEF NotBefore

\* What seg_for_c makes of the letter kept is a picture of it, or of a small letter.
LEMMA PictureOfLetter ==
  ASSUME NEW c \in Capitals \cup SmallLetters, NEW p \in seg_for_c(c)
  PROVE  p \in Pictures /\ (c \in SmallLetters \/ p = c)
  BY DEF seg_for_c, Pictures

LEMMA MarqueeStarts == MarqueeInit => MInv
<1> SUFFICES ASSUME MarqueeInit PROVE MInv OBVIOUS
<1>1. names = <<<<"A">>>> /\ written = <<1, 1>> /\ previous_letter = "A" BY DEF MarqueeInit
<1>2. "A" \in Capitals BY MarqueeAssumption
<1>3. names \in Seq(Seq(Characters)) /\ Len(names) = 1 /\ names[1] = <<"A">> /\ Len(names[1]) = 1 /\ names # <<>>
  <2> DEFINE n == <<"A">>
  <2>1. n \in Seq(Characters) /\ Len(n) = 1 /\ n = <<"A">>
    <3>1. "A" \in Characters BY <1>2 DEF Characters
    <3> QED BY <3>1
  <2>2. names = <<n>> BY <1>1
  <2> HIDE DEF n
  <2>3. names \in Seq(Seq(Characters)) /\ Len(names) = 1 /\ names[1] = n /\ names # <<>> BY <2>1, <2>2
  <2> QED BY <2>1, <2>3
<1>4. Blank \in Sent BY DEF Blank, Sent, Pictures
<1>5. MarqueeTypeOK BY <1>1, <1>2, <1>3, <1>4 DEF MarqueeInit, MarqueeTypeOK
<1>6. WasWritten(written) /\ Letter(written) = previous_letter BY <1>1, <1>3 DEF WasWritten, Letter
<1>7. NotBefore(panel.of, written) BY <1>1 DEF MarqueeInit, Blank, NotBefore
<1>8. Len(socket) = 0 /\ writer = "none" /\ reader = "none" /\ panel = Blank /\ socket = <<>>
      /\ conn = "none"
  BY DEF MarqueeInit
<1> QED BY <1>5, <1>6, <1>7, <1>8 DEF MInv, OrderInv

\* A new name changes nothing in what was written.
LEMMA WriterStarts == ASSUME MInv, NEW n \in Persons, StartWriter(n) PROVE MInv'
<1>1. n \in Seq(Characters) BY MarqueeAssumption
<1>2. /\ names' = Append(names, n) /\ writer' = "write" /\ w' = 0
      /\ UNCHANGED <<previous_letter, written, reader, conn, buf, socket, seg, panel>>
  BY DEF StartWriter
<1>3. names \in Seq(Seq(Characters)) /\ Len(names) \in Nat BY DEF MInv, MarqueeTypeOK
<1>4. /\ names' \in Seq(Seq(Characters)) /\ names' # <<>> /\ Len(names') = Len(names) + 1
      /\ \A k \in 1..Len(names) : names'[k] = names[k]
  BY <1>1, <1>2, <1>3, AppendProperties
<1>5. MarqueeTypeOK' BY <1>2, <1>4 DEF MInv, MarqueeTypeOK
<1>6. \A s : WasWritten(s) => WasWritten(s)' /\ Letter(s)' = Letter(s)
  <2> SUFFICES ASSUME NEW s, WasWritten(s) PROVE WasWritten(s)' /\ Letter(s)' = Letter(s) OBVIOUS
  <2>1. s[1] \in 1..Len(names) /\ s[1] \in 1..Len(names') /\ names'[s[1]] = names[s[1]]
    BY <1>3, <1>4 DEF WasWritten
  <2> QED BY <2>1 DEF WasWritten, Letter
<1>7. NotBefore(written, <<Len(names'), w'>>)
  BY <1>2, <1>3, <1>4 DEF MInv, MarqueeTypeOK, OrderInv, WasWritten, NotBefore
<1>8. WasWritten(written)' /\ Letter(written)' = previous_letter'
  BY <1>2, <1>6 DEF MInv, OrderInv
<1>9. reader' = "send" => WasWritten(buf.of)' /\ IsLetterOf(buf)'
  BY <1>2, <1>6 DEF MInv, OrderInv, IsLetterOf
<1>10. \A k \in 1..Len(socket) : WasWritten(socket[k].of)' /\ IsLetterOf(socket[k])'
  BY <1>2, <1>6 DEF MInv, OrderInv, IsLetterOf
<1> QED BY <1>2, <1>5, <1>7, <1>8, <1>9, <1>10 DEF MInv, OrderInv

\* What is written next comes after all that is under way.
LEMMA WriterWrites == ASSUME MInv, WriteLetter PROVE MInv'
<1>0. /\ names \in Seq(Seq(Characters)) /\ names # <<>> /\ w \in Nat /\ written \in Nat \X Nat
      /\ buf \in Sent /\ panel \in Sent /\ socket \in Seq(Sent)
  BY DEF MInv, MarqueeTypeOK
<1> DEFINE L == Len(names)
           c == names[L][w + 1]
<1>1. /\ writer = "write" /\ w + 1 \in 1..Len(names[L]) /\ L \in 1..Len(names) /\ w' = w + 1
      /\ UNCHANGED <<writer, names, reader, conn, buf, socket, seg, panel>>
  BY <1>0 DEF WriteLetter
<1>2. NotBefore(written, <<L, w>>) /\ <<L, w + 1>> \in Nat \X Nat BY <1>0, <1>1 DEF MInv, OrderInv
<1>3. NotBefore(written, <<L, w + 1>>) BY <1>0, <1>1, <1>2 DEF NotBefore
<1>4. CASE UNCHANGED <<previous_letter, written>>
  <2>1. MarqueeTypeOK' BY <1>1, <1>4, <1>0 DEF MInv, MarqueeTypeOK
  <2>2. NotBefore(written', <<Len(names'), w'>>) BY <1>1, <1>3, <1>4
  <2>3. OrderInv'
    BY <1>1, <1>4, <2>2 DEF MInv, OrderInv, WasWritten, Letter, IsLetterOf
  <2> QED BY <2>1, <2>3 DEF MInv
<1>5. CASE IsLetter(c) /\ my_write(c)
  <2>1. previous_letter' = c /\ written' = <<L, w + 1>> /\ c \in Capitals \cup SmallLetters
    BY <1>5 DEF my_write, IsLetter
  <2>2. MarqueeTypeOK' BY <1>0, <1>1, <1>2, <2>1 DEF MInv, MarqueeTypeOK
  <2>3. WasWritten(written)' /\ Letter(written)' = previous_letter'
    BY <1>1, <2>1 DEF WasWritten, Letter
  <2>4. NotBefore(written', <<Len(names'), w'>>) BY <1>1, <1>2, <2>1, Reflexive
  <2>5. \A s \in Nat \X Nat : NotBefore(s, written) => NotBefore(s, written')
    BY <1>0, <1>2, <1>3, <2>1, Transitive
  <2>6. /\ panel.of \in Nat \X Nat /\ buf.of \in Nat \X Nat
        /\ \A k \in 1..Len(socket) : socket[k].of \in Nat \X Nat
    <3>1. \A k \in 1..Len(socket) : socket[k] \in Sent BY <1>0
    <3> QED BY <1>0, <3>1 DEF Sent
  <2>7. /\ NotBefore(panel.of, written') /\ (reader = "send" => NotBefore(buf.of, written'))
        /\ \A k \in 1..Len(socket) : NotBefore(socket[k].of, written')
    BY <2>5, <2>6 DEF MInv, OrderInv
  <2>8. \A p : (IsLetterOf(p)' <=> IsLetterOf(p)) /\ (WasWritten(p.of)' <=> WasWritten(p.of))
    BY <1>1 DEF IsLetterOf, Letter, WasWritten
  <2>9. /\ seg' = "off" => panel' = Blank /\ socket' = <<>> /\ conn' # "served"
        /\ reader' = "send" =>
             /\ WasWritten(buf.of)' /\ IsLetterOf(buf)' /\ NotBefore(buf.of, written)' /\ NotBefore(panel.of, buf.of)'
    BY <1>1, <2>7, <2>8 DEF MInv, OrderInv
  <2>10. \A k \in 1..Len(socket') :
           /\ WasWritten(socket[k].of)' /\ IsLetterOf(socket[k])'
           /\ NotBefore(panel.of, socket[k].of)' /\ NotBefore(socket[k].of, written)'
           /\ \A j \in 1..k : NotBefore(socket[j].of, socket[k].of)'
           /\ reader' = "send" => NotBefore(socket[k].of, buf.of)'
    BY <1>1, <2>7, <2>8 DEF MInv, OrderInv
  <2>11. OrderInv' BY <1>1, <2>3, <2>4, <2>7, <2>9, <2>10 DEF OrderInv
  <2> QED BY <2>2, <2>11 DEF MInv
<1> QED BY <1>4, <1>5 DEF WriteLetter

\* What is read is the letter written last.
LEMMA ReaderReads == ASSUME MInv, Read PROVE MInv'
<1>1. PICK p \in seg_for_c(previous_letter) : buf' = [picture |-> p, of |-> written]
  BY DEF Read, my_read
<1>2. /\ reader' = "send"
      /\ UNCHANGED <<writer, w, previous_letter, written, names, conn, socket, seg, panel>>
  BY DEF Read
<1>3. written \in Nat \X Nat /\ previous_letter \in Capitals \cup SmallLetters BY DEF MInv, MarqueeTypeOK
<1>4. p \in Pictures /\ (previous_letter \in SmallLetters \/ p = previous_letter) BY <1>3, PictureOfLetter
<1>5. buf' \in Sent /\ buf'.of = written /\ buf'.picture = p BY <1>1, <1>3, <1>4 DEF Sent
<1>6. MarqueeTypeOK' BY <1>2, <1>5 DEF MInv, MarqueeTypeOK
<1>7. WasWritten(buf.of)' /\ IsLetterOf(buf)'
  BY <1>2, <1>4, <1>5 DEF MInv, OrderInv, WasWritten, IsLetterOf, Letter
<1>8. NotBefore(buf.of, written)' /\ NotBefore(panel.of, buf.of)'
  BY <1>2, <1>3, <1>5, Reflexive DEF MInv, OrderInv
<1>9. \A p2 : (IsLetterOf(p2)' <=> IsLetterOf(p2)) /\ (WasWritten(p2)' <=> WasWritten(p2)) /\ Letter(p2)' = Letter(p2)
  BY <1>2 DEF IsLetterOf, Letter, WasWritten
<1> QED BY <1>2, <1>5, <1>6, <1>7, <1>8, <1>9 DEF MInv, OrderInv

\* What is sent comes after all that is on its way.
LEMMA ReaderSends == ASSUME MInv, Send PROVE MInv'
<1>0. /\ reader = "send" /\ reader' \in {"read", "none"} /\ conn' \in {"none", "served", "backlog", "reset"}
      /\ (conn' = "served" => conn = "served")
      /\ UNCHANGED <<writer, w, previous_letter, written, names, buf, seg, panel>>
      /\ buf \in Sent /\ socket \in Seq(Sent)
  BY DEF Send, MInv, MarqueeTypeOK
<1>1. \A p : (IsLetterOf(p)' <=> IsLetterOf(p)) /\ (WasWritten(p)' <=> WasWritten(p)) /\ Letter(p)' = Letter(p)
  BY <1>0 DEF IsLetterOf, Letter, WasWritten
<1>2. CASE UNCHANGED socket
  BY <1>0, <1>1, <1>2 DEF MInv, MarqueeTypeOK, OrderInv
<1>3. CASE conn = "served" /\ socket' = Append(socket, buf)
  <2>1. /\ socket' \in Seq(Sent) /\ Len(socket') = Len(socket) + 1 /\ Len(socket) \in Nat
        /\ socket'[Len(socket) + 1] = buf
        /\ \A k \in 1..Len(socket) : socket'[k] = socket[k]
    BY <1>0, <1>3, AppendProperties
  <2>2. MarqueeTypeOK' BY <1>0, <2>1 DEF MInv, MarqueeTypeOK
  <2>3. seg # "off" BY <1>3 DEF MInv, OrderInv
  <2>4. \A k \in 1..Len(socket') : k \in 1..Len(socket) \/ (k = Len(socket) + 1 /\ socket'[k] = buf)
    BY <2>1
  <2>5. buf.of \in Nat \X Nat /\ NotBefore(buf.of, buf.of) BY <1>0, Reflexive DEF Sent
  <2>6. /\ WasWritten(buf.of) /\ IsLetterOf(buf) /\ NotBefore(buf.of, written) /\ NotBefore(panel.of, buf.of)
        /\ \A k \in 1..Len(socket) : NotBefore(socket[k].of, buf.of)
    BY <1>0 DEF MInv, OrderInv
  <2>7. \A k \in 1..Len(socket') :
          /\ WasWritten(socket'[k].of) /\ IsLetterOf(socket'[k])
          /\ NotBefore(panel.of, socket'[k].of) /\ NotBefore(socket'[k].of, written)
    BY <2>1, <2>4, <2>6 DEF MInv, OrderInv
  <2>8. \A k \in 1..Len(socket') : \A j \in 1..k : NotBefore(socket'[j].of, socket'[k].of)
    <3> SUFFICES ASSUME NEW k \in 1..Len(socket'), NEW j \in 1..k PROVE NotBefore(socket'[j].of, socket'[k].of)
      OBVIOUS
    <3>1. CASE k \in 1..Len(socket)
      <4>1. j \in 1..Len(socket) /\ socket'[j] = socket[j] /\ socket'[k] = socket[k] BY <2>1, <3>1
      <4> QED BY <3>1, <4>1 DEF MInv, OrderInv
    <3>2. CASE k = Len(socket) + 1
      <4>1. socket'[k] = buf /\ (j \in 1..Len(socket) \/ j = k) BY <2>1, <3>2
      <4> QED BY <2>1, <2>5, <2>6, <4>1
    <3> QED BY <2>4, <3>1, <3>2
  <2>9. OrderInv' BY <1>0, <1>1, <2>3, <2>7, <2>8 DEF MInv, OrderInv
  <2> QED BY <2>2, <2>9 DEF MInv
<1> QED BY <1>2, <1>3 DEF Send

\* What comes on is the first of what is on its way.
LEMMA PanelShows ==
  ASSUME MInv, update
  PROVE  MInv' /\ NotBefore(panel.of, panel'.of) /\ IsLetterOf(panel')
<1>1. /\ seg = "serves" /\ socket # <<>> /\ panel' = Head(socket) /\ socket' = Tail(socket)
      /\ UNCHANGED <<writer, w, previous_letter, written, names, reader, conn, buf, seg>>
      /\ socket \in Seq(Sent)
  BY DEF update, MInv, MarqueeTypeOK
<1>2. /\ Len(socket) \in Nat \ {0} /\ panel' = socket[1] /\ socket' \in Seq(Sent) /\ socket[1] \in Sent
      /\ Len(socket') = Len(socket) - 1
      /\ \A k \in 1..Len(socket') : socket'[k] = socket[k + 1] /\ k + 1 \in 1..Len(socket)
  BY <1>1
<1>3. 1 \in 1..Len(socket) BY <1>2
<1>4. NotBefore(panel.of, panel'.of) /\ IsLetterOf(panel') BY <1>2, <1>3 DEF MInv, OrderInv
<1>5. MarqueeTypeOK' BY <1>1, <1>2 DEF MInv, MarqueeTypeOK
<1>6. \A p : (IsLetterOf(p)' <=> IsLetterOf(p)) /\ (WasWritten(p)' <=> WasWritten(p)) /\ Letter(p)' = Letter(p)
  BY <1>1 DEF IsLetterOf, Letter, WasWritten
<1>7. NotBefore(panel'.of, written) /\ (reader = "send" => NotBefore(panel'.of, buf.of))
  BY <1>2, <1>3 DEF MInv, OrderInv
<1>8. ASSUME NEW k \in 1..Len(socket')
      PROVE  /\ WasWritten(socket'[k].of) /\ IsLetterOf(socket'[k])
             /\ NotBefore(panel'.of, socket'[k].of) /\ NotBefore(socket'[k].of, written)
             /\ reader = "send" => NotBefore(socket'[k].of, buf.of)
  <2>1. socket'[k] = socket[k + 1] /\ k + 1 \in 1..Len(socket) /\ 1 \in 1..(k + 1) BY <1>2
  <2> QED BY <1>2, <2>1 DEF MInv, OrderInv
<1>9. ASSUME NEW k \in 1..Len(socket'), NEW j \in 1..k PROVE NotBefore(socket'[j].of, socket'[k].of)
  <2>1. /\ socket'[k] = socket[k + 1] /\ k + 1 \in 1..Len(socket)
        /\ socket'[j] = socket[j + 1] /\ j + 1 \in 1..(k + 1)
    BY <1>2
  <2> QED BY <2>1 DEF MInv, OrderInv
<1>10. OrderInv' BY <1>1, <1>6, <1>7, <1>8, <1>9 DEF MInv, OrderInv
<1> QED BY <1>4, <1>5, <1>10 DEF MInv

\* The other steps of the marquee start and end its parts.
LEMMA PartsStartAndEnd ==
  ASSUME MInv, EndWriter \/ StartReader \/ sigint_handler \/ StartSeg \/ QuitSeg
  PROVE  MInv'
<1>1. UNCHANGED <<previous_letter, written, names, buf, w>>
  BY DEF EndWriter, StartReader, sigint_handler, StartSeg, QuitSeg
<1>2. \A p : (IsLetterOf(p)' <=> IsLetterOf(p)) /\ (WasWritten(p)' <=> WasWritten(p)) /\ Letter(p)' = Letter(p)
  BY <1>1 DEF IsLetterOf, Letter, WasWritten
<1>3. CASE EndWriter \/ StartReader \/ sigint_handler \/ StartSeg
  <2>1. UNCHANGED <<socket, panel>> /\ (reader' = "send" => reader = "send")
        /\ (writer' = "write" => writer = "write")
    BY <1>3 DEF EndWriter, StartReader, sigint_handler, StartSeg
  <2>2. MarqueeTypeOK' BY <1>1, <1>3, <2>1 DEF MInv, MarqueeTypeOK, EndWriter, StartReader, sigint_handler, StartSeg
  <2>3. seg' = "off" => seg = "off" /\ (conn' = "served" => conn = "served")
    BY <1>3 DEF EndWriter, StartReader, sigint_handler, StartSeg
  <2> QED BY <1>1, <1>2, <2>1, <2>2, <2>3 DEF MInv, OrderInv
<1>4. CASE QuitSeg
  <2>1. /\ seg' = "off" /\ panel' = Blank /\ socket' = <<>> /\ conn' \in {"none", "reset"}
        /\ UNCHANGED <<writer, reader>>
    BY <1>4 DEF QuitSeg
  <2>2. Blank \in Sent /\ Blank.of = <<0, 0>> BY DEF Blank, Sent, Pictures
  <2>3. Len(socket') = 0 /\ socket' \in Seq(Sent) BY <2>1
  <2>4. MarqueeTypeOK' BY <1>1, <2>1, <2>2, <2>3 DEF MInv, MarqueeTypeOK
  <2>5. buf.of \in Nat \X Nat /\ written \in Nat \X Nat BY DEF MInv, MarqueeTypeOK, Sent
  <2>6. NotBefore(panel'.of, written) /\ (reader = "send" => NotBefore(panel'.of, buf.of))
    BY <2>1, <2>2, <2>5 DEF MInv, OrderInv, WasWritten, NotBefore
  <2> QED BY <1>1, <1>2, <2>1, <2>3, <2>4, <2>6 DEF MInv, OrderInv
<1> QED BY <1>3, <1>4

\* A driver that is removed is as fresh as one inserted.
LEMMA DriverSteps == ASSUME MInv, DriverStep PROVE MInv'
<1>1. CASE UNCHANGED marqueeVars
  BY <1>1 DEF MInv, MarqueeTypeOK, OrderInv, WasWritten, Letter, IsLetterOf, marqueeVars
<1>2. CASE /\ Idle
           /\ previous_letter' = "A" /\ names' = <<<<"A">>>> /\ written' = <<1, 1>> /\ w' = 0 /\ buf' = Blank
           /\ UNCHANGED <<progVars, writer, reader, conn, socket, seg, panel>>
  <2>1. "A" \in Capitals /\ "A" \in Characters BY MarqueeAssumption DEF Characters
  <2>2. names' \in Seq(Seq(Characters)) /\ Len(names') = 1 /\ names'[1] = <<"A">> /\ Len(names'[1]) = 1 /\ names' # <<>>
    <3> DEFINE n == <<"A">>
    <3>1. n \in Seq(Characters) /\ Len(n) = 1 /\ n = <<"A">> BY <2>1
    <3>2. names' = <<n>> BY <1>2
    <3> HIDE DEF n
    <3>3. names' \in Seq(Seq(Characters)) /\ Len(names') = 1 /\ names'[1] = n /\ names' # <<>> BY <3>1, <3>2
    <3> QED BY <3>1, <3>3
  <2>3. Blank \in Sent /\ Blank.of = <<0, 0>> BY DEF Blank, Sent, Pictures
  <2>4. MarqueeTypeOK' BY <1>2, <2>1, <2>2, <2>3 DEF MInv, MarqueeTypeOK
  <2>5. WasWritten(written)' /\ Letter(written)' = previous_letter' BY <1>2, <2>2 DEF WasWritten, Letter
  <2>6. writer' = "none" /\ reader' = "none" /\ panel' = Blank /\ socket' = <<>> /\ conn' # "served"
    BY <1>2 DEF Idle, MInv, OrderInv
  <2>7. NotBefore(panel.of, written)' BY <1>2, <2>3, <2>6 DEF NotBefore
  <2>8. Len(socket') = 0 BY <2>6
  <2> QED BY <2>4, <2>5, <2>6, <2>7, <2>8 DEF MInv, OrderInv
<1> QED BY <1>1, <1>2 DEF DriverStep, marqueeVars

LEMMA MarqueeStep == ASSUME MInv, MarqueeNext PROVE MInv'
  BY WriterStarts, WriterWrites, ReaderReads, ReaderSends, PanelShows, PartsStartAndEnd, DriverSteps
  DEF MarqueeNext, Parts, Reader

\* Panel, connection, reader and driver always hold letters in the order in
\* which they were written, for any names and any number of them.
THEOREM OrderInvHolds == MarqueeSpec => [](MarqueeTypeOK /\ OrderInv)
<1>1. MInv /\ UNCHANGED allVars => MInv'
  BY DEF MInv, MarqueeTypeOK, OrderInv, WasWritten, Letter, IsLetterOf, allVars, marqueeVars
<1>2. MInv /\ [MarqueeNext]_allVars => MInv' BY <1>1, MarqueeStep
<1> QED BY <1>2, MarqueeStarts, PTL DEF MarqueeSpec, MInv

\* No letter comes on after one that was written later, and none that was not
\* written.
THEOREM LettersComeInOrder == MarqueeSpec => LettersInOrder
<1>1. ASSUME MInv, MarqueeNext, seg' = "serves", panel' # panel
      PROVE  NotBefore(panel.of, panel'.of) /\ IsLetterOf(panel')
  <2>1. update
    BY <1>1 DEF MarqueeNext, DriverStep, marqueeVars, Parts, StartWriter, WriteLetter, EndWriter,
                StartReader, Reader, Read, Send, sigint_handler, StartSeg, QuitSeg
  <2> QED BY <1>1, <2>1, PanelShows
<1>2. UNCHANGED allVars => panel' = panel BY DEF allVars, marqueeVars
<1> QED BY <1>1, <1>2, OrderInvHolds, PTL DEF MarqueeSpec, LettersInOrder, MInv

-----------------------------------------------------------------------------
(* Numbers and their digits.  Induction is over the set of the numbers that *)
(* have a property: the library's theorem for a property needs an operator  *)
(* as a parameter.                                                          *)

\* A set of numbers that has each number all smaller ones of which it has.
LEMMA SetInduction ==
  ASSUME NEW T \in SUBSET Nat, \A n \in Nat : (\A m \in 0..n-1 : m \in T) => n \in T
  PROVE  T = Nat
<1> DEFINE R == OpToRel(<, Nat)
<1>1. IsWellFoundedOn(R, Nat) BY NatLessThanWellFounded
<1>2. \A x, y \in Nat : x < y => <<x, y>> \in R BY DEF OpToRel
<1> HIDE DEF R
<1> SUFFICES ASSUME Nat \ T # {} PROVE FALSE OBVIOUS
<1>3. PICK x \in Nat \ T : \A y \in Nat \ T : <<y, x>> \notin R BY <1>1, WFMin
<1>4. ASSUME NEW m \in 0..x-1 PROVE m \in T
  <2>1. m \in Nat /\ m < x BY <1>3
  <2> QED BY <1>2, <1>3, <2>1
<1> QED BY <1>3, <1>4

\* A function that is defined by what it is at 0 and how it goes on.
Recursive(S, m, a, g) == \E f \in [0..m -> S] : f[0] = a /\ \A n \in 1..m : f[n] = g[n][f[n-1]]

LEMMA Recursion ==
  ASSUME NEW S, NEW m \in Nat, NEW a \in S, NEW g \in [1..m -> [S -> S]]
  PROVE  Recursive(S, m, a, g)
<1> DEFINE Is(f, k) == f[0] = a /\ \A n \in 1..k : f[n] = g[n][f[n-1]]
           T == {k \in Nat : k <= m => \E f \in [0..k -> S] : Is(f, k)}
<1>1. ASSUME NEW k \in Nat, \A j \in 0..k-1 : j \in T PROVE k \in T
  <2> SUFFICES ASSUME k <= m PROVE \E f \in [0..k -> S] : Is(f, k) OBVIOUS
  <2>1. CASE k = 0
    <3>1. [n \in 0..0 |-> a] \in [0..k -> S] /\ Is([n \in 0..0 |-> a], k) BY <2>1
    <3> QED BY <3>1
  <2>2. CASE k # 0
    <3>1. k - 1 \in 0..k-1 /\ k - 1 <= m /\ k \in 1..m /\ k - 1 \in Nat BY <2>2
    <3>a. k - 1 \in T BY <1>1, <3>1
    <3>2. PICK f \in [0..k-1 -> S] : Is(f, k - 1) BY <3>1, <3>a
    <3> DEFINE h == [n \in 0..k |-> IF n = k THEN g[k][f[k-1]] ELSE f[n]]
    <3>3. f[k-1] \in S /\ g[k][f[k-1]] \in S BY <3>1
    <3>4. h \in [0..k -> S] BY <3>1, <3>3
    <3>5. ASSUME NEW n \in 1..k PROVE h[n] = g[n][h[n-1]]
      <4>1. n - 1 \in 0..k /\ n - 1 # k /\ n \in 0..k OBVIOUS
      <4>2. h[n-1] = f[n-1] BY <4>1
      <4>3. CASE n = k BY <4>1, <4>2, <4>3
      <4>4. CASE n # k
        <5>1. n \in 1..k-1 BY <4>4
        <5>2. h[n] = f[n] BY <4>1, <4>4
        <5> QED BY <3>2, <4>2, <5>1, <5>2
      <4> QED BY <4>3, <4>4
    <3>6. h[0] = a BY <2>2, <3>2
    <3> HIDE DEF h
    <3> QED BY <3>4, <3>5, <3>6
  <2> QED BY <2>1, <2>2
<1>2. T = Nat
  <2> HIDE DEF T
  <2>1. T \in SUBSET Nat BY DEF T
  <2> QED BY <1>1, <2>1, SetInduction
<1>3. m \in T BY <1>2
<1> QED BY <1>3 DEF Recursive

\* What Values and DigitsUpto say.
LEMMA ValuesAre ==
  ASSUME NEW s \in Seq(Int)
  PROVE  /\ Values(s)[0] = 0
         /\ \A k \in 1..Len(s) : Values(s)[k] = 10 * Values(s)[k-1] + s[k]
         /\ \A k \in 0..Len(s) : Values(s)[k] \in Int
<1> DEFINE Is(f) == f = [k \in 0..Len(s) |-> IF k = 0 THEN 0 ELSE 10 * f[k - 1] + s[k]]
           g == [n \in 1..Len(s) |-> [v \in Int |-> 10 * v + s[n]]]
<1>1. Values(s) = CHOOSE f : Is(f) BY DEF Values
<1>2. \E f : Is(f)
  <2>1. g \in [1..Len(s) -> [Int -> Int]] BY Element
  <2>2. PICK f \in [0..Len(s) -> Int] : f[0] = 0 /\ \A n \in 1..Len(s) : f[n] = g[n][f[n-1]]
    <3> HIDE DEF g
    <3>1. Len(s) \in Nat /\ 0 \in Int OBVIOUS
    <3>2. Recursive(Int, Len(s), 0, g) BY <2>1, <3>1, Recursion
    <3> QED BY <3>2 DEF Recursive
  <2>3. ASSUME NEW n \in 1..Len(s) PROVE f[n-1] \in Int /\ g[n][f[n-1]] = 10 * f[n-1] + s[n]
    <3>1. n - 1 \in 0..Len(s) OBVIOUS
    <3> QED BY <3>1
  <2>4. f = [n \in 0..Len(s) |-> IF n = 0 THEN 0 ELSE 10 * f[n-1] + s[n]]
    <3> HIDE DEF g
    <3>1. \A n \in 0..Len(s) : n # 0 => n \in 1..Len(s) OBVIOUS
    <3> QED BY <2>2, <2>3, <3>1
  <2> QED BY <2>4
<1> HIDE DEF Is
<1>3. Is(Values(s)) BY <1>1, <1>2
<1> DEFINE v == Values(s)
<1>4. v = [k \in 0..Len(s) |-> IF k = 0 THEN 0 ELSE 10 * v[k - 1] + s[k]] BY <1>3 DEF Is
<1> HIDE DEF v
<1>5. v[0] = 0 /\ \A k \in 1..Len(s) : v[k] = 10 * v[k-1] + s[k] BY <1>4
<1> DEFINE T == {k \in Nat : k <= Len(s) => v[k] \in Int}
<1>6. ASSUME NEW k \in Nat, \A j \in 0..k-1 : j \in T PROVE k \in T
  <2> SUFFICES ASSUME k <= Len(s) PROVE v[k] \in Int OBVIOUS
  <2>1. CASE k = 0 BY <1>5, <2>1
  <2>2. CASE k # 0
    <3>1. k \in 1..Len(s) /\ k - 1 \in 0..k-1 BY <2>2
    <3>2. v[k-1] \in Int /\ s[k] \in Int BY <1>6, <3>1
    <3> QED BY <1>5, <3>1, <3>2
  <2> QED BY <2>1, <2>2
<1>7. T = Nat
  <2>1. T \in SUBSET Nat OBVIOUS
  <2> HIDE DEF T
  <2> QED BY <1>6, <2>1, SetInduction
<1> QED BY <1>5, <1>7 DEF v

LEMMA DigitsUptoAre ==
  ASSUME NEW s \in Seq(Int)
  PROVE  /\ DigitsUpto(s)[0] = <<>>
         /\ \A k \in 1..Len(s) :
              DigitsUpto(s)[k] =
                IF IsDigit(s[k]) THEN Append(DigitsUpto(s)[k-1], s[k]) ELSE DigitsUpto(s)[k-1]
<1> DEFINE Is(f) == f = [k \in 0..Len(s) |-> IF k = 0 THEN <<>>
                            ELSE IF IsDigit(s[k]) THEN Append(f[k - 1], s[k]) ELSE f[k - 1]]
           S == Seq(Int)
           g == [n \in 1..Len(s) |-> [d \in S |-> IF IsDigit(s[n]) THEN Append(d, s[n]) ELSE d]]
<1>1. DigitsUpto(s) = CHOOSE f : Is(f) BY DEF DigitsUpto
<1>2. \E f : Is(f)
  <2>1. g \in [1..Len(s) -> [S -> S]]
    <3>1. \A n \in 1..Len(s) : \A d \in S : Append(d, s[n]) \in S BY Element
    <3> HIDE DEF S
    <3> QED BY <3>1
  <2>2. PICK f \in [0..Len(s) -> S] : f[0] = <<>> /\ \A n \in 1..Len(s) : f[n] = g[n][f[n-1]]
    <3>1. Len(s) \in Nat /\ <<>> \in S OBVIOUS
    <3> HIDE DEF g, S
    <3>2. Recursive(S, Len(s), <<>>, g) BY <2>1, <3>1, Recursion
    <3> QED BY <3>2 DEF Recursive
  <2> HIDE DEF S
  <2>3. ASSUME NEW n \in 1..Len(s)
        PROVE  g[n][f[n-1]] = IF IsDigit(s[n]) THEN Append(f[n-1], s[n]) ELSE f[n-1]
    <3>1. n - 1 \in 0..Len(s) OBVIOUS
    <3>2. f[n-1] \in S BY <3>1
    <3> QED BY <3>2
  <2>4. Is(f)
    <3> HIDE DEF g
    <3>1. \A n \in 0..Len(s) : n # 0 => n \in 1..Len(s) OBVIOUS
    <3> QED BY <2>2, <2>3, <3>1
  <2> QED BY <2>4
<1> HIDE DEF Is
<1>3. Is(DigitsUpto(s)) BY <1>1, <1>2
<1> DEFINE v == DigitsUpto(s)
<1>4. v = [k \in 0..Len(s) |-> IF k = 0 THEN <<>>
                                 ELSE IF IsDigit(s[k]) THEN Append(v[k - 1], s[k]) ELSE v[k - 1]]
  BY <1>3 DEF Is
<1> HIDE DEF v
<1>6. \A k \in 1..Len(s) : k \in 0..Len(s) /\ k # 0 OBVIOUS
<1>5. /\ v[0] = <<>>
      /\ \A k \in 1..Len(s) : v[k] = IF IsDigit(s[k]) THEN Append(v[k-1], s[k]) ELSE v[k-1]
  <2>1. v[0] = <<>>
    <3>1. 0 \in 0..Len(s) OBVIOUS
    <3> QED BY <1>4, <3>1, Zenon
  <2> QED BY <1>4, <1>6, <2>1, Zenon
<1> QED BY <1>5 DEF v

\* One digit more makes up ten times the number, and the digit.
LEMMA ValueOfLonger ==
  ASSUME NEW s \in Seq(Int), NEW d \in Int
  PROVE  Value(Append(s, d)) = 10 * Value(s) + d
<1> DEFINE t == Append(s, d)
           v == Values(s)
           u == Values(t)
           l == Len(s)
<1>1. t \in Seq(Int) /\ Len(t) = l + 1 /\ t[l + 1] = d /\ (\A k \in 1..l : t[k] = s[k]) /\ l \in Nat
  BY AppendProperties
<1> HIDE DEF t
<1>2. v[0] = 0 /\ (\A k \in 1..l : v[k] = 10 * v[k-1] + s[k]) BY ValuesAre
<1>3. u[0] = 0 /\ (\A k \in 1..l+1 : u[k] = 10 * u[k-1] + t[k]) BY <1>1, ValuesAre
<1> HIDE DEF u, v, l
<1> DEFINE T == {k \in Nat : k <= l => u[k] = v[k]}
<1>4. ASSUME NEW k \in Nat, \A j \in 0..k-1 : j \in T PROVE k \in T
  <2> SUFFICES ASSUME k <= l PROVE u[k] = v[k] OBVIOUS
  <2>1. CASE k = 0 BY <1>2, <1>3, <2>1
  <2>2. CASE k # 0
    <3>1. k \in 1..l /\ k \in 1..l+1 /\ k - 1 \in 0..k-1 /\ k - 1 <= l BY <1>1, <2>2
    <3>2. u[k-1] = v[k-1] BY <1>4, <3>1
    <3> QED BY <1>1, <1>2, <1>3, <3>1, <3>2
  <2> QED BY <2>1, <2>2
<1>5. T = Nat
  <2>1. T \in SUBSET Nat OBVIOUS
  <2> HIDE DEF T
  <2> QED BY <1>4, <2>1, SetInduction
<1>6. u[l] = v[l] BY <1>1, <1>5
<1>7. u[l + 1] = 10 * v[l] + d
  <2>1. l + 1 \in 1..l+1 /\ (l + 1) - 1 = l BY <1>1
  <2> QED BY <1>1, <1>3, <1>6, <2>1
<1> QED BY <1>1, <1>7 DEF Value, u, v, l, t

LEMMA ValueOfDigit == ASSUME NEW d \in Int PROVE Value(<<d>>) = d
<1> DEFINE s == <<d>>
<1>1. s \in Seq(Int) /\ Len(s) = 1 /\ s[1] = d /\ 1 \in 1..1 OBVIOUS
<1> HIDE DEF s
<1>2. Values(s)[0] = 0 /\ Values(s)[1] = 10 * Values(s)[1 - 1] + s[1] BY <1>1, ValuesAre
<1> QED BY <1>1, <1>2 DEF Value, s

LEMMA Tens ==
  ASSUME NEW n \in Nat
  PROVE  /\ n % 10 \in 0..9 /\ n \div 10 \in Nat /\ n = 10 * (n \div 10) + (n % 10)
         /\ n >= 10 => n \div 10 \in 0..n-1
<1>1. n % 10 \in 0..9 OBVIOUS
<1>2. n \div 10 \in Nat OBVIOUS
<1>3. n = 10 * (n \div 10) + (n % 10) OBVIOUS
<1>4. n >= 10 => n \div 10 \in 0..n-1 BY <1>1, <1>2, <1>3
<1> QED BY <1>1, <1>2, <1>3, <1>4

\* The recursion of Decimals ends: dividing by ten makes a number smaller.
Divided(f, m) == \A n \in 0..m : f[n] = IF n < 10 THEN <<n>> ELSE Append(f[n \div 10], n % 10)

LEMMA DecimalsExist ==
  ASSUME NEW m \in Nat
  PROVE  \E f \in [0..m -> Seq(Int)] : Divided(f, m)
<1> DEFINE T == {k \in Nat : \E f \in [0..k -> Seq(Int)] : Divided(f, k)}
<1>1. ASSUME NEW k \in Nat, \A j \in 0..k-1 : j \in T PROVE k \in T
  <2>1. CASE k = 0
    <3> DEFINE f == [n \in 0..0 |-> <<n>>]
    <3>1. f \in [0..k -> Seq(Int)] BY <2>1
    <3>2. Divided(f, k) BY <2>1 DEF Divided
    <3> HIDE DEF f
    <3> QED BY <3>1, <3>2
  <2>2. CASE k # 0
    <3>1. k - 1 \in 0..k-1 /\ k - 1 \in Nat BY <2>2
    <3>2. PICK f \in [0..k-1 -> Seq(Int)] : Divided(f, k - 1) BY <1>1, <3>1
    <3> DEFINE h == [n \in 0..k |-> IF n < k THEN f[n]
                                    ELSE IF n < 10 THEN <<n>> ELSE Append(f[n \div 10], n % 10)]
    <3>3. ASSUME NEW n \in 0..k, n >= 10 PROVE n \div 10 \in 0..k-1 /\ n \div 10 < k /\ n % 10 \in Int
      BY <3>3, Tens
    <3>4. ASSUME NEW n \in 0..k PROVE h[n] \in Seq(Int)
      <4>1. CASE n < k
        <5>1. n \in 0..k-1 BY <4>1
        <5>2. h[n] = f[n] BY <4>1
        <5> QED BY <3>2, <5>1, <5>2
      <4>2. CASE ~(n < k) /\ n < 10
        <5>1. h[n] = <<n>> BY <4>2
        <5> QED BY <5>1
      <4>3. CASE ~(n < k) /\ ~(n < 10)
        <5>1. h[n] = Append(f[n \div 10], n % 10) BY <4>3
        <5>2. f[n \div 10] \in Seq(Int) /\ n % 10 \in Int BY <3>2, <3>3, <4>3
        <5> QED BY <5>1, <5>2, AppendProperties
      <4> QED BY <4>1, <4>2, <4>3
    <3>5. ASSUME NEW n \in 0..k PROVE h[n] = IF n < 10 THEN <<n>> ELSE Append(h[n \div 10], n % 10)
      <4>1. CASE n < k
        <5>1. n \in 0..k-1 BY <4>1
        <5>2. f[n] = IF n < 10 THEN <<n>> ELSE Append(f[n \div 10], n % 10) BY <3>2, <5>1 DEF Divided
        <5>3. n >= 10 => h[n \div 10] = f[n \div 10]
          <6> SUFFICES ASSUME n >= 10 PROVE h[n \div 10] = f[n \div 10] OBVIOUS
          <6> DEFINE q == n \div 10
          <6>1. q \in 0..k /\ q < k BY <3>3
          <6> HIDE DEF q
          <6>2. h[q] = f[q] BY <6>1
          <6> QED BY <6>2 DEF q
        <5>4. h[n] = f[n] BY <4>1
        <5> HIDE DEF h
        <5>5. ~(n < 10) <=> n >= 10 OBVIOUS
        <5> QED BY <5>2, <5>3, <5>4, <5>5
      <4>2. CASE ~(n < k)
        <5>1. h[n] = IF n < 10 THEN <<n>> ELSE Append(f[n \div 10], n % 10) BY <4>2
        <5>2. n >= 10 => h[n \div 10] = f[n \div 10]
          <6> SUFFICES ASSUME n >= 10 PROVE h[n \div 10] = f[n \div 10] OBVIOUS
          <6> DEFINE q == n \div 10
          <6>1. q \in 0..k /\ q < k BY <3>3
          <6> HIDE DEF q
          <6>2. h[q] = f[q] BY <6>1
          <6> QED BY <6>2 DEF q
        <5> HIDE DEF h
        <5>3. ~(n < 10) <=> n >= 10 OBVIOUS
        <5> QED BY <5>1, <5>2, <5>3
      <4> QED BY <4>1, <4>2
    <3>6. h \in [0..k -> Seq(Int)] BY <3>4
    <3> HIDE DEF h
    <3> QED BY <3>5, <3>6 DEF Divided
  <2> QED BY <2>1, <2>2
<1>2. T = Nat
  <2>1. T \in SUBSET Nat OBVIOUS
  <2> HIDE DEF T
  <2> QED BY <1>1, <2>1, SetInduction
<1>3. m \in T BY <1>2
<1> QED BY <1>3

\* What Decimal computes: digits, at least one, that make up the number.
LEMMA DecimalIs ==
  ASSUME NEW m \in Nat
  PROVE  Decimal(m) \in Seq(0..9) /\ Len(Decimal(m)) >= 1 /\ Value(Decimal(m)) = m
<1> DEFINE Is(f) == f = [n \in 0..m |-> IF n < 10 THEN <<n>> ELSE Append(f[n \div 10], n % 10)]
<1>1. Decimals(m) = CHOOSE f : Is(f) BY DEF Decimals
<1>2. \E f : Is(f)
  <2>1. PICK f \in [0..m -> Seq(Int)] : Divided(f, m) BY DecimalsExist
  <2>2. f = [n \in 0..m |-> IF n < 10 THEN <<n>> ELSE Append(f[n \div 10], n % 10)] BY <2>1 DEF Divided
  <2> QED BY <2>2
<1> HIDE DEF Is
<1>3. Is(Decimals(m)) BY <1>1, <1>2
<1> DEFINE d == Decimals(m)
<1>4. d = [n \in 0..m |-> IF n < 10 THEN <<n>> ELSE Append(d[n \div 10], n % 10)] BY <1>3 DEF Is
<1> HIDE DEF d
<1>5. \A n \in 0..m : d[n] = IF n < 10 THEN <<n>> ELSE Append(d[n \div 10], n % 10) BY <1>4, Zenon
<1> DEFINE T == {n \in Nat : n <= m => d[n] \in Seq(0..9) /\ Len(d[n]) >= 1 /\ Value(d[n]) = n}
<1>6. ASSUME NEW n \in Nat, \A j \in 0..n-1 : j \in T PROVE n \in T
  <2> SUFFICES ASSUME n <= m PROVE d[n] \in Seq(0..9) /\ Len(d[n]) >= 1 /\ Value(d[n]) = n OBVIOUS
  <2>1. n \in 0..m OBVIOUS
  <2>2. CASE n < 10
    <3>1. d[n] = <<n>> BY <1>5, <2>1, <2>2
    <3>2. n \in 0..9 BY <2>2
    <3> QED BY <3>1, <3>2, ValueOfDigit
  <2>3. CASE ~(n < 10)
    <3> DEFINE q == n \div 10
               r == n % 10
    <3>1. d[n] = Append(d[q], r) BY <1>5, <2>1, <2>3
    <3>2. q \in 0..n-1 /\ q <= m /\ r \in 0..9 /\ n = 10 * q + r
      <4>1. n >= 10 BY <2>3
      <4> QED BY <4>1, Tens
    <3> HIDE DEF q, r
    <3>3. d[q] \in Seq(0..9) /\ Len(d[q]) >= 1 /\ Value(d[q]) = q BY <1>6, <3>2
    <3>4. d[n] \in Seq(0..9) /\ Len(d[n]) = Len(d[q]) + 1
      BY <3>1, <3>2, <3>3, AppendProperties
    <3>5. d[q] \in Seq(Int) /\ r \in Int BY <3>2, <3>3
    <3>6. Value(d[n]) = 10 * q + r BY <3>1, <3>3, <3>5, ValueOfLonger
    <3>7. Len(d[q]) \in Nat BY <3>3
    <3> QED BY <3>2, <3>3, <3>4, <3>6, <3>7
  <2> QED BY <2>2, <2>3
<1>7. T = Nat
  <2>1. T \in SUBSET Nat OBVIOUS
  <2> HIDE DEF T
  <2> QED BY <1>6, <2>1, SetInduction
<1>8. m \in T BY <1>7
<1> QED BY <1>8 DEF Decimal, d

-----------------------------------------------------------------------------
(* What hw1 and the writers of lab3 show.                                  *)

\* A price has digits, and the writes come in pairs that suffice for the digits
\* and for the kilometres.
LEMMA CountOfDigits ==
  ASSUME NEW m \in Int
  PROVE  get_digitCount(m) \in Nat /\ get_digitCount(m) >= 1
<1>1. \A n \in Nat : Len(Decimal(n)) \in Nat /\ Len(Decimal(n)) >= 1 BY DecimalIs
<1> DEFINE a == IF m < 0 THEN -m ELSE m
<1>2. a \in Nat OBVIOUS
<1> HIDE DEF a
<1>3. Len(Decimal(a)) \in Nat /\ Len(Decimal(a)) >= 1 BY <1>1, <1>2
<1> QED BY <1>3 DEF get_digitCount, a

LEMMA IterIs ==
  ASSUME total_price \in Int, shop_choice \in 1..3
  PROVE  /\ Distance[shop_choice] \in 3..8
         /\ \E half \in Nat : /\ Iter = 2 * half /\ half >= Distance[shop_choice] + 1
                              /\ half >= get_digitCount(total_price)
<1> DEFINE n == get_digitCount(total_price)
           d == Distance[shop_choice]
           half == IF d + 1 > n THEN d + 1 ELSE n
<1>1. d \in 3..8 BY DEF Distance
<1>2. n \in Nat BY CountOfDigits
<1>3. Iter = 2 * half BY DEF Iter
<1> HIDE DEF n, d
<1>4. half \in Nat /\ half >= d + 1 /\ half >= n BY <1>1, <1>2
<1> HIDE DEF half
<1>5. \E h \in Nat : Iter = 2 * h /\ h >= d + 1 /\ h >= n BY <1>3, <1>4
<1> QED BY <1>1, <1>5 DEF n, d

LEMMA DisplayStarts == Init => DisplayInv
<1> SUFFICES ASSUME Init PROVE DisplayInv OBVIOUS
<1>1. shown = <<>> /\ sequence = <<>> /\ prog = "none" BY DEF Init
<1>2. shown \in Seq(0..15) BY <1>1
<1>3. DisplayTypeOK BY <1>1, <1>2, DisplayAssumption DEF Init, DisplayTypeOK
<1> QED BY <1>1, <1>3 DEF Init, DisplayInv, TerminalInv, CountsDown, WriterInv

\* A program begins with nothing shown.
LEMMA ProgramStarts == ASSUME DisplayInv, NEW p \in {"hw1", "lab3_1", "lab3_2"}, Start(p) PROVE DisplayInv'
<1>1. /\ pc = "menu" /\ ordered = 0 /\ i = 0 /\ led_flag = 0 /\ shown = <<>> /\ prog = "none"
  BY DEF DisplayInv, WriterInv, Start
<1>2. /\ prog' = p /\ pc' = (IF p = "hw1" THEN "menu" ELSE "write")
      /\ sequence' \in (IF p = "hw1" THEN {<<>>} ELSE Arguments)
      /\ UNCHANGED <<shop_choice, ordered, total_price, items, i, distance, rec_led, led_flag, shown>>
  BY DEF Start, orderVars, writeVars
<1>3. shown' \in Seq((0..9) \X (0..8)) /\ shown' \in Seq(0..15) BY <1>1, <1>2
<1>4. DisplayTypeOK' BY <1>2, <1>3 DEF DisplayInv, DisplayTypeOK
<1>5. CASE p = "hw1"
  <2>1. TerminalInv' BY <1>1, <1>2, <1>5 DEF DisplayInv, DisplayTypeOK, TerminalInv
  <2>2. CountsDown' /\ WriterInv' BY <1>1, <1>2, <1>5 DEF CountsDown, WriterInv
  <2> QED BY <1>4, <2>1, <2>2 DEF DisplayInv
<1>6. CASE p # "hw1"
  <2>1. TerminalInv' /\ CountsDown' BY <1>2, <1>6 DEF TerminalInv, CountsDown
  <2>2. sequence' \in Seq(Int) BY <1>2, <1>6, DisplayAssumption
  <2>3. i' \in 0..Len(sequence') /\ DigitsUpto(sequence')[0] = <<>> BY <1>1, <1>2, <2>2, DigitsUptoAre
  <2>4. WriterInv' BY <1>1, <1>2, <1>6, <2>3 DEF WriterInv
  <2> QED BY <1>4, <2>1, <2>4 DEF DisplayInv
<1> QED BY <1>5, <1>6

\* Back at the menu, or the program ended, everything is as it was in the beginning.
LEMMA TurnEnds ==
  ASSUME DisplayInv, NextTurn,
         \/ prog' = "hw1" /\ prog = "hw1" /\ sequence' = sequence /\ led_flag' = 0
         \/ prog' = "none" /\ sequence' = <<>> /\ led_flag' = 0
  PROVE  DisplayInv'
<1>1. /\ pc' = "menu" /\ shop_choice' = 1 /\ ordered' = 0 /\ total_price' = 0 /\ items' = 0
      /\ i' = 0 /\ distance' = 0 /\ rec_led' = 0 /\ shown' = <<>> /\ led_flag' = 0
      /\ prog' \in {"hw1", "none"} /\ sequence' \in Arguments \cup {<<>>}
  BY DEF NextTurn, DisplayInv, DisplayTypeOK
<1>2. shown' \in Seq((0..9) \X (0..8)) /\ shown' \in Seq(0..15) BY <1>1
<1>3. DisplayTypeOK' BY <1>1, <1>2, DisplayAssumption DEF DisplayTypeOK
<1> QED BY <1>1, <1>3 DEF DisplayInv, TerminalInv, CountsDown, WriterInv

\* The order is taken: nothing is shown, nothing counted for another shop.
LEMMA OrderIsTaken ==
  ASSUME DisplayInv,
         (\E s \in 1..4 : ChooseShop(s)) \/ (\E k \in 1..2, q \in Quantities : Item(k, q)) \/ Cancel \/ Confirm
  PROVE  DisplayInv'
<1> USE DEF DisplayInv, DisplayTypeOK
<1>1. ASSUME NEW s \in 1..4, ChooseShop(s) PROVE DisplayInv'
  <2>1. /\ prog = "hw1" /\ pc = "menu" /\ shop_choice' = s /\ pc' = "items"
        /\ UNCHANGED <<prog, ordered, total_price, items, i, distance, rec_led, led_flag, sequence, shown>>
    BY <1>1 DEF ChooseShop, writeVars
  <2>2. DisplayTypeOK' BY <2>1
  <2>3. TerminalInv' BY <2>1 DEF TerminalInv
  <2>4. CountsDown' /\ WriterInv' BY <2>1 DEF CountsDown, WriterInv
  <2> QED BY <2>2, <2>3, <2>4
<1>2. ASSUME NEW k \in 1..2, NEW q \in Quantities, Item(k, q) PROVE DisplayInv'
  <2>1. /\ prog = "hw1" /\ pc = "items" /\ items < MaxItems /\ items' = items + 1
        /\ UNCHANGED <<prog, pc, shop_choice, i, distance, rec_led, led_flag, sequence, shown>>
    BY <1>2 DEF Item, writeVars
  <2>2. q \in Int /\ items' \in 0..MaxItems BY <2>1, DisplayAssumption
  <2>3. ordered' \in Int /\ total_price' \in Int /\ (shop_choice \notin 1..3 => ordered' = ordered)
    <3>1. CASE shop_choice \in 1..3
      <4>1. Price[shop_choice][k] \in Int BY <3>1 DEF Price
      <4>2. ordered' = ordered + q /\ total_price' = total_price + q * Price[shop_choice][k] BY <1>2, <3>1 DEF Item
      <4>3. q * Price[shop_choice][k] \in Int BY <2>2, <4>1
      <4> QED BY <2>2, <3>1, <4>2, <4>3
    <3>2. CASE shop_choice \notin 1..3
      BY <1>2, <3>2 DEF Item
    <3> QED BY <3>1, <3>2
  <2>4. DisplayTypeOK' BY <2>1, <2>2, <2>3
  <2>5. TerminalInv' BY <2>1, <2>3 DEF TerminalInv
  <2>6. CountsDown' /\ WriterInv' BY <2>1 DEF CountsDown, WriterInv
  <2> QED BY <2>4, <2>5, <2>6
<1>3. CASE Cancel
  <2>1. NextTurn /\ prog = "hw1" /\ pc = "items" /\ UNCHANGED <<prog, led_flag, sequence>> BY <1>3 DEF Cancel
  <2>2. led_flag' = 0 BY <2>1 DEF TerminalInv
  <2> QED BY <2>1, <2>2, TurnEnds
<1>4. CASE Confirm /\ NextTurn
  <2>1. prog = "hw1" /\ pc = "items" /\ UNCHANGED <<prog, led_flag, sequence>> BY <1>4 DEF Confirm
  <2>2. led_flag' = 0 BY <2>1 DEF TerminalInv
  <2> QED BY <1>4, <2>1, <2>2, TurnEnds
<1>5. CASE Confirm /\ ~NextTurn
  <2>1. /\ prog = "hw1" /\ pc = "items" /\ ordered # 0 /\ pc' = "write"
        /\ distance' \in (IF shop_choice \in 1..3 THEN {Distance[shop_choice]} ELSE -1..8)
        /\ UNCHANGED <<prog, shop_choice, ordered, total_price, items, i, rec_led, led_flag, sequence, shown>>
    BY <1>5 DEF Confirm, orderVars
  <2>2. i = 0 /\ led_flag = 0 /\ shown = <<>> /\ shop_choice \in 1..3 BY <2>1 DEF TerminalInv
  <2>3. distance' = Distance[shop_choice] /\ Distance[shop_choice] \in 3..8 BY <2>1, <2>2, IterIs
  <2>4. Iter' = Iter /\ Iter \in Nat /\ Iter > 0
    <3>1. PICK half \in Nat : Iter = 2 * half /\ half >= Distance[shop_choice] + 1 BY <2>2, IterIs
    <3>2. Iter' = Iter BY <2>1 DEF Iter, get_digitCount
    <3> QED BY <2>3, <3>1, <3>2
  <2>5. DisplayTypeOK' BY <2>1, <2>3
  <2>6. PairInv' /\ NumberInv' /\ Len(shown') = 0 BY <2>1, <2>2, <2>3 DEF PairInv, NumberInv
  <2>7. TerminalInv'
    <3>1. i' <= Iter' /\ \E pairs \in 0..i' : i' = 2 * pairs + led_flag'
      <4>1. i' = 0 /\ led_flag' = 0 /\ 0 \in 0..i' /\ i' = 2 * 0 + led_flag' BY <2>1, <2>2
      <4> QED BY <2>4, <4>1
    <3> QED BY <2>1, <2>2, <2>6, <3>1 DEF TerminalInv
  <2>8. CountsDown' BY <2>1, <2>2, <2>4 DEF CountsDown
  <2>9. WriterInv' BY <2>1 DEF WriterInv
  <2> QED BY <2>5, <2>7, <2>8, <2>9
<1> QED BY <1>1, <1>2, <1>3, <1>4, <1>5

\* No two rows of the table are alike: the segments tell which digit it is.
LEMMA RowsDiffer ==
  ASSUME NEW c \in 0..9, NEW d \in 0..9, SevenSegEncoder[c + 1] = SevenSegEncoder[d + 1]
  PROVE  c = d
BY DEF SevenSegEncoder

LEMMA DigitIsSeen ==
  ASSUME NEW c \in 0..9
  PROVE  DigitSeen(set_7seg_display(c)) = c /\ DigitSeen(set_display(c)) = c
BY RowsDiffer DEF DigitSeen, set_7seg_display, set_display

\* As many LEDs are lit as the driver is told.
LEMMA LedsAreSeen ==
  ASSUME NEW n \in 0..8
  PROVE  LedsSeen(set_led_display(n)) = n
<1>1. {k \in 1..8 : set_led_display(n)[k] = 1} = 1..n BY DEF set_led_display
<1>2. Cardinality(1..n) = n
  <2>1. CASE n = 0 BY <2>1, FS_EmptySet
  <2>2. CASE n > 0 BY <2>2, FS_Interval
  <2> QED BY <2>1, <2>2
<1> QED BY <1>1, <1>2 DEF LedsSeen

\* A write puts its digit on the display and its number on the LEDs.
LEMMA WriteIsSeen ==
  ASSUME NEW c, NEW n \in 0..8, etx_write(c, n)
  PROVE  shown' = IF IsDigit(c) THEN Append(shown, <<c, n>>) ELSE shown
<1>1. CASE IsDigit(c)
  <2>1. DigitSeen(set_7seg_display(c)) = c /\ LedsSeen(set_led_display(n)) = n
    BY <1>1, DigitIsSeen, LedsAreSeen DEF IsDigit
  <2> QED BY <1>1, <2>1, Zenon DEF etx_write
<1>2. CASE ~IsDigit(c) BY <1>2 DEF etx_write
<1> QED BY <1>1, <1>2

\* The next of the digits, or the last once more.
LEMMA NextDigit ==
  ASSUME total_price \in Nat, i \in Nat
  PROVE  /\ Char \in 0..9
         /\ LET n == get_digitCount(total_price)
            IN  Char = Decimal(total_price)[IF i + 1 <= n THEN i + 1 ELSE n]
<1> DEFINE n == get_digitCount(total_price)
           d == Decimal(total_price)
           k == IF i < n THEN i + 1 ELSE n
<1>1. ~(total_price < 0) /\ (IF total_price < 0 THEN -total_price ELSE total_price) = total_price OBVIOUS
<1>2. n = Len(d) BY <1>1 DEF get_digitCount
<1>3. buff_num = d BY <1>1 DEF buff_num
<1>4. d \in Seq(0..9) /\ Len(d) >= 1 BY DecimalIs
<1>5. Char = d[k] BY <1>3 DEF Char
<1> HIDE DEF n, d
<1>6. n \in Nat /\ n >= 1 BY <1>2, <1>4
<1>7. k \in 1..Len(d) BY <1>2, <1>6
<1>8. k = IF i + 1 <= n THEN i + 1 ELSE n BY <1>6
<1> HIDE DEF k
<1>9. d[k] \in 0..9 BY <1>4, <1>7
<1> QED BY <1>5, <1>8, <1>9 DEF n, d

\* What a write does to what the invariant speaks of.
LEMMA WriteIs ==
  ASSUME DisplayInv, Write
  PROVE  /\ prog = "hw1" /\ pc = "write" /\ i < Iter /\ shop_choice \in 1..3
         /\ i' = i + 1 /\ led_flag' = 1 - led_flag /\ led_flag' \in {0, 1}
         /\ led_flag = 1 => rec_led' = rec_led /\ distance' = distance
         /\ led_flag = 0 /\ distance >= 0 => rec_led' = distance /\ distance' = distance - 1
         /\ led_flag = 0 /\ distance < 0 => rec_led' = 0 /\ distance' = distance
         /\ rec_led' \in 0..8 /\ distance' \in -1..8
         /\ etx_write(Char, rec_led')
         /\ UNCHANGED <<prog, pc, shop_choice, ordered, total_price, items, sequence>>
         /\ Iter' = Iter
<1> USE DEF DisplayInv, DisplayTypeOK
<1>1. /\ prog = "hw1" /\ pc = "write" /\ i < Iter /\ i' = i + 1 /\ led_flag' = (led_flag + 1) % 2
      /\ rec_led' = (IF led_flag = 1 THEN rec_led ELSE IF distance >= 0 THEN distance ELSE 0)
      /\ distance' = (IF led_flag = 0 /\ distance >= 0 THEN distance - 1 ELSE distance)
      /\ etx_write(Char, rec_led')
      /\ UNCHANGED <<prog, pc, shop_choice, ordered, total_price, items, sequence>>
  BY DEF Write, orderVars
<1>2. shop_choice \in 1..3 BY <1>1 DEF TerminalInv
<1>3. led_flag' = 1 - led_flag /\ led_flag' \in {0, 1}
  <2>1. (0 + 1) % 2 = 1 /\ (1 + 1) % 2 = 0 OBVIOUS
  <2>2. CASE led_flag = 0 BY <1>1, <2>1, <2>2
  <2>3. CASE led_flag = 1 BY <1>1, <2>1, <2>3
  <2> QED BY <2>2, <2>3
<1>4. Iter' = Iter BY <1>1 DEF Iter, get_digitCount
<1> QED BY <1>1, <1>2, <1>3, <1>4

\* With a price that is not negative every write shows something.
LEMMA WriteShows ==
  ASSUME DisplayInv, Write, total_price >= 0
  PROVE  /\ shown \in Seq((0..9) \X (0..8)) /\ Len(shown) = i /\ Len(shown') = i + 1
         /\ \A k \in 1..i : shown'[k] = shown[k]
         /\ shown'[i + 1][1] = Char /\ shown'[i + 1][2] = rec_led'
<1>1. prog = "hw1" /\ pc = "write" /\ etx_write(Char, rec_led') /\ rec_led' \in 0..8 BY WriteIs
<1>2. shown \in Seq((0..9) \X (0..8)) /\ Len(shown) = i /\ total_price \in Nat /\ i \in Nat
  BY <1>1 DEF DisplayInv, DisplayTypeOK, TerminalInv
<1>3. Char \in 0..9 BY <1>2, NextDigit
<1> DEFINE x == <<Char, rec_led'>>
<1>4. shown' = Append(shown, x) BY <1>1, <1>3, WriteIsSeen DEF IsDigit
<1>5. x \in (0..9) \X (0..8) /\ x[1] = Char /\ x[2] = rec_led' BY <1>1, <1>3
<1> HIDE DEF x
<1> QED BY <1>2, <1>4, <1>5, AppendProperties

LEMMA PairKept ==
  ASSUME DisplayInv, Write, total_price >= 0
  PROVE  PairInv' /\ NumberInv'
<1> DEFINE D == Distance[shop_choice]
<1>1. /\ i' = i + 1 /\ led_flag' = 1 - led_flag /\ i \in Nat /\ led_flag \in {0, 1}
      /\ led_flag = 1 => rec_led' = rec_led /\ distance' = distance
      /\ led_flag = 0 /\ distance >= 0 => rec_led' = distance /\ distance' = distance - 1
      /\ led_flag = 0 /\ distance < 0 => rec_led' = 0 /\ distance' = distance
      /\ rec_led \in 0..8 /\ distance \in -1..8 /\ rec_led' \in 0..8
      /\ UNCHANGED <<shop_choice, total_price>> /\ total_price \in Nat
  BY WriteIs DEF DisplayInv, DisplayTypeOK
<1>2. PairInv /\ NumberInv BY WriteIs DEF DisplayInv, TerminalInv
<1>3. D \in 3..8 BY WriteIs, IterIs DEF DisplayInv, DisplayTypeOK
<1>4. /\ \A k \in 1..i : shown'[k] = shown[k]
      /\ shown'[i + 1][1] = Char /\ shown'[i + 1][2] = rec_led'
  BY WriteShows
<1>5. D' = D BY <1>1
<1> HIDE DEF D
<1>6. PICK pairs \in 0..i : i = 2 * pairs + led_flag BY <1>2 DEF PairInv
<1>7. \E q \in 0..i' : i' = 2 * q + led_flag'
  <2>1. CASE led_flag = 0
    <3>1. pairs \in 0..i' /\ i' = 2 * pairs + led_flag' BY <1>1, <1>6, <2>1
    <3> QED BY <3>1
  <2>2. CASE led_flag = 1
    <3>1. pairs + 1 \in 0..i' /\ i' = 2 * (pairs + 1) + led_flag' BY <1>1, <1>6, <2>2
    <3> QED BY <3>1
  <2> QED BY <1>1, <2>1, <2>2
<1>8. /\ i = 0 => distance = D
      /\ i > 0 => distance = rec_led - 1 /\ shown[i][2] = rec_led
      /\ rec_led > 0 /\ i > 0 => 2 * rec_led + i + led_flag = 2 * D + 2
      /\ i > 1 /\ led_flag = 0 => shown[i-1][2] = rec_led
  BY <1>2 DEF PairInv, D
<1>9. i = 0 => led_flag = 0 BY <1>1, <1>6
<1>10. distance' = rec_led' - 1
  <2>1. CASE led_flag = 1 BY <1>1, <1>8, <1>9, <2>1
  <2>2. CASE led_flag = 0 BY <1>1, <2>2
  <2> QED BY <1>1, <2>1, <2>2
<1>11. rec_led' > 0 => 2 * rec_led' + i' + led_flag' = 2 * D + 2
  <2>1. CASE led_flag = 1 BY <1>1, <1>3, <1>8, <1>9, <2>1
  <2>2. CASE led_flag = 0 /\ i = 0
    <3>1. rec_led' = D /\ i' = 1 /\ led_flag' = 1 BY <1>1, <1>3, <1>8, <2>2
    <3> QED BY <1>3, <3>1
  <2>3. CASE led_flag = 0 /\ i > 0
    <3> SUFFICES ASSUME rec_led' > 0 PROVE 2 * rec_led' + i' + led_flag' = 2 * D + 2 OBVIOUS
    <3>1. rec_led' = rec_led - 1 BY <1>1, <1>8, <2>3
    <3>2. rec_led > 0 BY <1>1, <3>1
    <3>3. 2 * rec_led + i = 2 * D + 2 BY <1>1, <1>8, <2>3, <3>2
    <3>4. i' = i + 1 /\ led_flag' = 1 /\ rec_led \in Int /\ i \in Int BY <1>1, <2>3
    <3> QED BY <1>3, <3>1, <3>3, <3>4
  <2> QED BY <1>1, <2>1, <2>2, <2>3
<1>12. i' > 1 /\ led_flag' = 0 => shown'[i'-1][2] = rec_led'
  <2> SUFFICES ASSUME i' > 1, led_flag' = 0 PROVE shown'[i'-1][2] = rec_led' OBVIOUS
  <2>1. led_flag = 1 /\ i > 0 /\ i' - 1 = i /\ i \in 1..i BY <1>1
  <2> QED BY <1>1, <1>4, <1>8, <2>1
<1>13. i' > 2 /\ led_flag' = 1 => shown'[i'-2][2] = shown'[i'-1][2]
  <2> SUFFICES ASSUME i' > 2, led_flag' = 1 PROVE shown'[i'-2][2] = shown'[i'-1][2] OBVIOUS
  <2>1. led_flag = 0 /\ i > 1 /\ i' - 1 = i /\ i' - 2 = i - 1 /\ i \in 1..i /\ i - 1 \in 1..i BY <1>1
  <2>2. shown[i-1][2] = rec_led /\ shown[i][2] = rec_led BY <1>8, <2>1
  <2> QED BY <1>4, <2>1, <2>2
<1>14. PairInv'
  <2>1. i' > 0 /\ shown'[i'][2] = rec_led' BY <1>1, <1>4
  <2>2. i' # 0 BY <1>1
  <2> QED BY <1>5, <1>7, <1>10, <1>11, <1>12, <1>13, <2>1, <2>2 DEF PairInv, D
<1>15. NumberInv'
  <2> DEFINE n == get_digitCount(total_price)
             d == Decimal(total_price)
  <2>1. get_digitCount(total_price)' = n /\ Decimal(total_price)' = d BY <1>1 DEF get_digitCount, Decimal, Decimals
  <2>2. \A k \in 1..i : shown[k][1] = d[IF k <= n THEN k ELSE n] BY <1>2 DEF NumberInv
  <2>3. Char = d[IF i + 1 <= n THEN i + 1 ELSE n] BY <1>1, NextDigit
  <2> HIDE DEF n, d
  <2>4. ASSUME NEW k \in 1..i+1 PROVE shown'[k][1] = d[IF k <= n THEN k ELSE n]
    <3>1. CASE k = i + 1 BY <1>4, <2>3, <3>1
    <3>2. CASE k # i + 1
      <4>1. k \in 1..i BY <1>1, <3>2
      <4> QED BY <1>4, <2>2, <4>1
    <3> QED BY <3>1, <3>2
  <2> QED BY <1>1, <2>1, <2>4 DEF NumberInv
<1> QED BY <1>14, <1>15

\* The LEDs go out one by one.
LEMMA CountKept ==
  ASSUME DisplayInv, Write
  PROVE  CountsDown'
<1>1. /\ prog' = "hw1" /\ pc = "write" /\ prog = "hw1" /\ shop_choice' \in 1..3 /\ i' = i + 1 /\ i \in Nat
      /\ UNCHANGED <<shop_choice, total_price>> /\ Iter' = Iter /\ total_price \in Int
  BY WriteIs DEF DisplayInv, DisplayTypeOK
<1> SUFFICES ASSUME total_price >= 0
             PROVE  /\ shown'[1][2] = Distance[shop_choice]
                    /\ \A k \in 1..i : shown'[k+1][2] \in {shown'[k][2], shown'[k][2] - 1}
                    /\ \A k \in 1..i-1 : shown'[k][2] > 0 => shown'[k+2][2] = shown'[k][2] - 1
                    /\ i + 1 = Iter => shown'[i + 1][2] = 0
  <2>1. i' > 0 /\ i' - 1 = i /\ i' - 2 = i - 1 BY <1>1
  <2> QED BY <1>1, <2>1 DEF CountsDown
<1> DEFINE D == Distance[shop_choice]
           lit(k) == shown[k][2]
<1>2. /\ i > 0 => lit(1) = D
      /\ \A k \in 1..i-1 : lit(k+1) \in {lit(k), lit(k) - 1}
      /\ \A k \in 1..i-2 : lit(k) > 0 => lit(k+2) = lit(k) - 1
  BY <1>1 DEF DisplayInv, CountsDown
<1>3. /\ \A k \in 1..i : shown'[k][2] = lit(k)
      /\ shown'[i + 1][2] = rec_led'
  BY WriteShows
<1>4. PairInv /\ PairInv' BY <1>1, PairKept DEF DisplayInv, TerminalInv
<1>5. PICK pairs \in 0..i : i = 2 * pairs + led_flag BY <1>4 DEF PairInv
<1>6. /\ i = 0 => distance = D
      /\ i > 0 => distance = rec_led - 1 /\ lit(i) = rec_led
      /\ i > 1 /\ led_flag = 0 => lit(i-1) = rec_led
      /\ i > 2 /\ led_flag = 1 => lit(i-2) = lit(i-1)
      /\ rec_led' > 0 => 2 * rec_led' + (i + 1) + (1 - led_flag) = 2 * D + 2
  <2>1. led_flag' = 1 - led_flag /\ D' = D /\ i' > 0 BY <1>1, WriteIs
  <2> QED BY <1>1, <1>4, <2>1 DEF PairInv
<1>7. /\ led_flag = 1 => rec_led' = rec_led
      /\ led_flag = 0 /\ distance >= 0 => rec_led' = distance
      /\ led_flag = 0 /\ distance < 0 => rec_led' = 0
      /\ led_flag \in {0, 1} /\ rec_led \in 0..8 /\ rec_led' \in 0..8 /\ distance \in -1..8
  BY WriteIs DEF DisplayInv, DisplayTypeOK
<1>8. D \in 3..8 BY <1>1, IterIs
<1>9. PICK half \in Nat : Iter = 2 * half /\ half >= D + 1 BY <1>1, IterIs
<1> HIDE DEF D, lit
<1>10. i = 0 => led_flag = 0 BY <1>1, <1>5, <1>7
<1>11. shown'[1][2] = D
  <2>1. CASE i = 0 BY <1>3, <1>6, <1>7, <1>8, <1>10, <2>1
  <2>2. CASE i > 0
    <3>1. 1 \in 1..i BY <1>1, <2>2
    <3> QED BY <1>2, <1>3, <2>2, <3>1
  <2> QED BY <1>1, <2>1, <2>2
<1>12. i > 0 => rec_led' \in {rec_led, rec_led - 1} BY <1>6, <1>7
<1>13. ASSUME NEW k \in 1..i PROVE shown'[k+1][2] \in {shown'[k][2], shown'[k][2] - 1}
  <2>1. CASE k = i BY <1>1, <1>3, <1>6, <1>12, <2>1
  <2>2. CASE k # i
    <3>1. k \in 1..i-1 /\ k + 1 \in 1..i BY <1>1, <2>2
    <3> QED BY <1>2, <1>3, <3>1
  <2> QED BY <2>1, <2>2
<1>14. ASSUME NEW k \in 1..i-1, shown'[k][2] > 0 PROVE shown'[k+2][2] = shown'[k][2] - 1
  <2>0. k \in 1..i BY <1>1
  <2>1. CASE k = i - 1
    <3>1. k + 2 = i + 1 /\ i > 1 /\ k + 1 = i BY <1>1, <2>1
    <3>2. lit(k) > 0 /\ lit(k) = shown'[k][2] BY <1>3, <1>14, <2>0
    <3>3. CASE led_flag = 0
      <4>1. lit(k) = rec_led /\ distance = rec_led - 1 BY <1>6, <2>1, <3>1, <3>3
      <4> QED BY <1>3, <1>7, <3>1, <3>2, <3>3, <4>1
    <3>4. CASE led_flag = 1
      <4>1. i > 2 BY <1>5, <3>1, <3>4
      <4>2. i - 2 \in 1..i-2 /\ (i - 2) + 2 = i /\ i \in Int BY <1>1, <4>1
      <4>3. lit(i-2) = lit(k) /\ lit(i) = rec_led /\ rec_led' = rec_led BY <1>6, <1>7, <2>1, <3>1, <3>4, <4>1
      <4>4. lit(i-2) > 0 => lit((i-2)+2) = lit(i-2) - 1 BY <1>2, <4>2
      <4> QED BY <1>3, <3>1, <3>2, <4>2, <4>3, <4>4
    <3> QED BY <1>7, <3>3, <3>4
  <2>2. CASE k # i - 1
    <3>1. k \in 1..i-2 /\ k + 2 \in 1..i BY <1>1, <2>2
    <3> QED BY <1>2, <1>3, <1>14, <2>0, <3>1
  <2> QED BY <2>1, <2>2
<1>15. i + 1 = Iter => shown'[i + 1][2] = 0
  <2> SUFFICES ASSUME i + 1 = Iter, rec_led' # 0 PROVE FALSE BY <1>3
  <2>1. rec_led' > 0 BY <1>7
  <2>2. 2 * rec_led' + 2 * half + (1 - led_flag) = 2 * D + 2 BY <1>1, <1>6, <1>9, <2>1
  <2>3. rec_led' \in Int /\ 1 - led_flag >= 0 /\ 1 - led_flag \in Int /\ D \in Int BY <1>7, <1>8
  <2>4. 2 * half >= 2 * D + 2 BY <1>9, <2>3
  <2> QED BY <1>9, <2>1, <2>2, <2>3, <2>4
<1> QED BY <1>11, <1>13, <1>14, <1>15 DEF D

LEMMA WriteKept == ASSUME DisplayInv, Write PROVE DisplayInv'
<1>1. /\ prog = "hw1" /\ pc = "write" /\ i < Iter /\ shop_choice \in 1..3
      /\ i' = i + 1 /\ led_flag' = 1 - led_flag /\ led_flag' \in {0, 1}
      /\ rec_led' \in 0..8 /\ distance' \in -1..8
      /\ etx_write(Char, rec_led')
      /\ UNCHANGED <<prog, pc, shop_choice, ordered, total_price, items, sequence>> /\ Iter' = Iter
  BY WriteIs
<1>2. shown \in Seq((0..9) \X (0..8)) /\ i \in Nat /\ total_price \in Int /\ led_flag \in {0, 1}
  BY <1>1 DEF DisplayInv, DisplayTypeOK
<1>3. shown' \in Seq((0..9) \X (0..8))
  <2>1. CASE IsDigit(Char)
    <3>1. <<Char, rec_led'>> \in (0..9) \X (0..8) BY <1>1, <2>1 DEF IsDigit
    <3>2. shown' = Append(shown, <<Char, rec_led'>>) BY <1>1, <2>1, WriteIsSeen
    <3> QED BY <1>2, <3>1, <3>2, AppendProperties
  <2>2. CASE ~IsDigit(Char) BY <1>1, <1>2, <2>2, WriteIsSeen
  <2> QED BY <2>1, <2>2
<1>4. DisplayTypeOK' BY <1>1, <1>3 DEF DisplayInv, DisplayTypeOK
<1>5. TerminalInv'
  <2>1. i' <= Iter'
    <3>1. PICK half \in Nat : Iter = 2 * half BY <1>1, <1>2, IterIs
    <3> QED BY <1>1, <1>2, <3>1
  <2>2. \E pairs \in 0..i' : i' = 2 * pairs + led_flag'
    <3>1. PICK pairs \in 0..i : i = 2 * pairs + led_flag BY <1>1 DEF DisplayInv, TerminalInv
    <3>2. CASE led_flag = 0
      <4>1. pairs \in 0..i' /\ i' = 2 * pairs + led_flag' BY <1>1, <1>2, <3>1, <3>2
      <4> QED BY <4>1
    <3>3. CASE led_flag = 1
      <4>1. pairs + 1 \in 0..i' /\ i' = 2 * (pairs + 1) + led_flag' BY <1>1, <1>2, <3>1, <3>3
      <4> QED BY <4>1
    <3> QED BY <1>2, <3>2, <3>3
  <2>3. total_price' >= 0 => Len(shown') = i' /\ NumberInv' /\ PairInv' BY <1>1, PairKept, WriteShows
  <2> QED BY <1>1, <2>1, <2>2, <2>3 DEF TerminalInv
<1>6. WriterInv' BY <1>1 DEF WriterInv
<1> QED BY <1>4, <1>5, <1>6, CountKept DEF DisplayInv

\* The four LEDs show the digit in binary.
LEMMA BinaryOfDigit ==
  ASSUME NEW n \in 0..9
  PROVE  8 * decToBinary(n)[1] + 4 * decToBinary(n)[2] + 2 * decToBinary(n)[3] + decToBinary(n)[4] = n
BY DEF decToBinary

LEMMA WriterKept == ASSUME DisplayInv, lab3_1_writer \/ lab3_2_writer \/ Finish PROVE DisplayInv'
<1> USE DEF DisplayInv, DisplayTypeOK
<1>1. CASE lab3_1_writer \/ lab3_2_writer
  <2>1. /\ prog \in {"lab3_1", "lab3_2"} /\ pc = "write" /\ i < Len(sequence) /\ i' = i + 1
        /\ UNCHANGED <<prog, pc, shop_choice, ordered, total_price, items, distance, rec_led, led_flag, sequence>>
    BY <1>1 DEF lab3_1_writer, lab3_2_writer, orderVars
  <2> DEFINE c == sequence[i + 1]
  <2>2. sequence \in Seq(Int) /\ i + 1 \in 1..Len(sequence) /\ i \in Nat /\ (i + 1) - 1 = i
    <3>1. sequence \in Arguments \/ sequence = <<>> OBVIOUS
    <3>2. <<>> \in Seq(Int) OBVIOUS
    <3>3. sequence \in Seq(Int) BY <3>1, <3>2, DisplayAssumption, Zenon
    <3> QED BY <2>1, <3>3
  <2>3. shown' = IF IsDigit(c) THEN Append(shown, c) ELSE shown
    <3>1. CASE lab3_1_writer
      <4>1. IF IsDigit(c) THEN lab3_1_write(decToBinary(c)) ELSE UNCHANGED shown BY <3>1 DEF lab3_1_writer
      <4> HIDE DEF c
      <4>2. CASE IsDigit(c)
        <5>1. 8 * decToBinary(c)[1] + 4 * decToBinary(c)[2] + 2 * decToBinary(c)[3] + decToBinary(c)[4] = c
          BY <4>2, BinaryOfDigit DEF IsDigit
        <5> QED BY <4>1, <4>2, <5>1, Zenon DEF lab3_1_write
      <4> QED BY <4>1, <4>2
    <3>2. CASE lab3_2_writer
      <4>1. IF IsDigit(c) THEN lab3_2_write(c) ELSE UNCHANGED shown BY <3>2 DEF lab3_2_writer
      <4> HIDE DEF c
      <4>2. CASE IsDigit(c)
        <5>1. DigitSeen(set_display(c)) = c BY <4>2, DigitIsSeen DEF IsDigit
        <5> QED BY <4>1, <4>2, <5>1, Zenon DEF lab3_2_write
      <4> QED BY <4>1, <4>2
    <3> QED BY <1>1, <3>1, <3>2
  <2>4. shown = DigitsUpto(sequence)[i] BY <2>1 DEF WriterInv
  <2>5. DigitsUpto(sequence)[i + 1] =
          IF IsDigit(c) THEN Append(DigitsUpto(sequence)[i], c) ELSE DigitsUpto(sequence)[i]
    <3>1. \A k \in 1..Len(sequence) :
            DigitsUpto(sequence)[k] =
              IF IsDigit(sequence[k]) THEN Append(DigitsUpto(sequence)[k-1], sequence[k])
              ELSE DigitsUpto(sequence)[k-1]
      BY <2>2, DigitsUptoAre
    <3> QED BY <2>2, <3>1
  <2>6. shown' = DigitsUpto(sequence)[i + 1] BY <2>3, <2>4, <2>5
  <2>7. shown' \in Seq(0..15)
    <3>1. shown \in Seq(0..15) BY <2>1
    <3> HIDE DEF c
    <3>2. CASE IsDigit(c)
      <4>1. c \in 0..15 BY <3>2 DEF IsDigit
      <4> QED BY <2>3, <3>1, <3>2, <4>1, AppendProperties
    <3> QED BY <2>3, <3>1, <3>2
  <2>8. i' \in 0..Len(sequence) BY <2>1, <2>2
  <2>9. DisplayTypeOK' BY <2>1, <2>2, <2>7
  <2>10. TerminalInv' /\ CountsDown' BY <2>1 DEF TerminalInv, CountsDown
  <2>11. DigitsUpto(sequence')[i'] = DigitsUpto(sequence)[i + 1] BY <2>1
  <2>12. WriterInv' BY <2>1, <2>6, <2>8, <2>11 DEF WriterInv
  <2> QED BY <2>9, <2>10, <2>12
<1>2. CASE Finish
  <2>1. /\ prog \in {"lab3_1", "lab3_2"} /\ i = Len(sequence) /\ pc' = "done"
        /\ UNCHANGED <<prog, shop_choice, ordered, total_price, items, i, distance, rec_led, led_flag, sequence, shown>>
    BY <1>2 DEF Finish, orderVars, writeVars
  <2>2. DisplayTypeOK' BY <2>1
  <2>3. TerminalInv' /\ CountsDown' BY <2>1 DEF TerminalInv, CountsDown
  <2>4. DigitsUpto(sequence')[i'] = DigitsUpto(sequence)[i] BY <2>1
  <2>5. WriterInv' BY <2>1, <2>4 DEF WriterInv
  <2> QED BY <2>2, <2>3, <2>5
<1> QED BY <1>1, <1>2

LEMMA ProgramEnds == ASSUME DisplayInv, PickUp \/ Close PROVE DisplayInv'
<1>1. CASE PickUp
  <2>1. prog = "hw1" /\ pc = "write" /\ i = Iter /\ NextTurn /\ UNCHANGED <<prog, led_flag, sequence>>
    BY <1>1 DEF PickUp
  <2>2. i \in Nat /\ led_flag \in {0, 1} /\ total_price \in Int /\ shop_choice \in 1..3
    BY <2>1 DEF DisplayInv, DisplayTypeOK, TerminalInv
  <2>3. PICK pairs \in 0..i : i = 2 * pairs + led_flag BY <2>1 DEF DisplayInv, TerminalInv
  <2>4. PICK half \in Nat : Iter = 2 * half BY <2>2, IterIs
  <2>5. led_flag = 0
    <3> SUFFICES ASSUME led_flag = 1 PROVE FALSE BY <2>2
    <3>1. i = 2 * half BY <2>1, <2>4
    <3>2. i = 2 * pairs + 1 BY <2>3
    <3>3. pairs \in Nat /\ half \in Nat BY <2>2, <2>3, <2>4
    <3> QED BY <3>1, <3>2, <3>3
  <2> QED BY <2>1, <2>5, TurnEnds
<1>2. CASE Close BY <1>2, TurnEnds DEF Close
<1> QED BY <1>1, <1>2

LEMMA DisplaySame == ASSUME DisplayInv, UNCHANGED progVars PROVE DisplayInv'
<1>1. UNCHANGED <<prog, pc, shop_choice, ordered, total_price, items, i, distance, rec_led, led_flag, sequence, shown>>
  BY DEF progVars, orderVars, writeVars
<1>2. DisplayTypeOK' BY <1>1 DEF DisplayInv, DisplayTypeOK
<1>3. Iter' = Iter /\ get_digitCount(total_price)' = get_digitCount(total_price)
      /\ Decimal(total_price)' = Decimal(total_price)
  BY <1>1 DEF Iter, get_digitCount, Decimal, Decimals
<1>4. PairInv' = PairInv BY <1>1 DEF PairInv
<1>5. NumberInv' = NumberInv BY <1>1, <1>3 DEF NumberInv
<1>6. TerminalInv' BY <1>1, <1>3, <1>4, <1>5 DEF DisplayInv, TerminalInv
<1>7. CountsDown' BY <1>1, <1>3 DEF DisplayInv, CountsDown
<1>8. DigitsUpto(sequence')[i'] = DigitsUpto(sequence)[i] BY <1>1
<1>9. WriterInv' BY <1>1, <1>8 DEF DisplayInv, WriterInv
<1> QED BY <1>2, <1>6, <1>7, <1>9 DEF DisplayInv

\* A display that shows what DisplayInv says shows the price, or the argument.
LEMMA NumberIsShown == ASSUME DisplayInv PROVE DigitsAreShown
<1>1. ASSUME pc = "write", prog = "hw1", i = Iter, total_price >= 0
      PROVE  LET n == get_digitCount(total_price)
             IN  /\ total_price = Value([k \in 1..n |-> shown[k][1]])
                 /\ \A k \in n..Iter : shown[k][1] = shown[n][1]
  <2> DEFINE n == get_digitCount(total_price)
             d == Decimal(total_price)
  <2>1. total_price \in Nat /\ shop_choice \in 1..3 /\ NumberInv
    BY <1>1 DEF DisplayInv, DisplayTypeOK, TerminalInv
  <2>2. (IF total_price < 0 THEN -total_price ELSE total_price) = total_price BY <2>1
  <2>3. n = Len(d) /\ d \in Seq(0..9) /\ n \in Nat /\ n >= 1 /\ Value(d) = total_price
    <3>1. n = Len(d) BY <2>2 DEF get_digitCount
    <3>2. d \in Seq(0..9) /\ Len(d) >= 1 /\ Value(d) = total_price BY <2>1, DecimalIs
    <3> QED BY <3>1, <3>2
  <2>4. n <= i /\ i \in Nat
    <3>1. PICK half \in Nat : Iter = 2 * half /\ half >= n BY <2>1, IterIs
    <3> HIDE DEF n
    <3> QED BY <1>1, <2>3, <3>1
  <2>5. \A k \in 1..i : shown[k][1] = d[IF k <= n THEN k ELSE n] BY <2>1 DEF NumberInv
  <2> HIDE DEF n, d
  <2>6. [k \in 1..n |-> shown[k][1]] = d
    <3>1. \A k \in 1..n : shown[k][1] = d[k] BY <2>3, <2>4, <2>5
    <3>2. d = [k \in 1..n |-> d[k]] BY <2>3
    <3> QED BY <3>1, <3>2
  <2>7. ASSUME NEW k \in n..Iter PROVE shown[k][1] = shown[n][1]
    <3>1. k \in 1..i /\ n \in 1..i /\ (k <= n => k = n) BY <1>1, <2>3, <2>4
    <3> QED BY <2>5, <3>1
  <2> QED BY <2>3, <2>6, <2>7 DEF n
<1>2. pc = "done" => shown = DigitsUpto(sequence)[Len(sequence)]
  <2> SUFFICES ASSUME pc = "done" PROVE shown = DigitsUpto(sequence)[Len(sequence)] OBVIOUS
  <2>1. prog \in {"lab3_1", "lab3_2"} BY DEF DisplayInv, DisplayTypeOK, TerminalInv, WriterInv
  <2> QED BY <2>1 DEF DisplayInv, WriterInv
<1> QED BY <1>1, <1>2 DEF DigitsAreShown

\* DisplayInv is inductive, whatever the menu choices, quantities and arguments.
THEOREM DisplayInvHolds == Spec => []DisplayInv
<1>1. ASSUME DisplayInv, Next PROVE DisplayInv'
  <2>1. CASE Program
    <3>1. ASSUME NEW p \in {"hw1", "lab3_1", "lab3_2"}, Start(p) PROVE DisplayInv' BY <1>1, <3>1, ProgramStarts
    <3>2. CASE hw1 BY <1>1, <3>2, OrderIsTaken, WriteKept, ProgramEnds DEF hw1
    <3> QED BY <1>1, <2>1, <3>1, <3>2, WriterKept, ProgramEnds DEF Program
  <2> QED BY <1>1, <2>1, DisplaySame DEF Next
<1>2. UNCHANGED vars => UNCHANGED progVars BY DEF vars
<1>3. DisplayInv /\ [Next]_vars => DisplayInv' BY <1>1, <1>2, DisplaySame
<1> QED BY <1>3, DisplayStarts, PTL DEF Spec

\* The marquee leaves the other programs alone.
THEOREM MarqueeIsDisplay == MarqueeSpec => Spec
<1>1. MarqueeInit => Init BY DEF MarqueeInit
<1>2. MarqueeNext => [Next]_vars BY DEF MarqueeNext, DriverStep, Next, vars
<1>3. UNCHANGED allVars => UNCHANGED vars BY DEF allVars
<1> QED BY <1>1, <1>2, <1>3, PTL DEF MarqueeSpec, Spec

\* The LEDs count an order's distance down to the dark, one kilometre for each
\* pair of writes of write_to_dev, and other shops have no orders.
THEOREM DistanceIsCountedDown == MarqueeSpec => []CountsDown
<1>1. DisplayInv => CountsDown BY DEF DisplayInv
<1> QED BY <1>1, DisplayInvHolds, MarqueeIsDisplay, PTL

\* The digits that were shown make up the price, and a writer shows all digits
\* of its argument in their order.
THEOREM DigitsComeOut == MarqueeSpec => []DigitsAreShown
<1> QED BY NumberIsShown, DisplayInvHolds, MarqueeIsDisplay, PTL

-----------------------------------------------------------------------------
(* Whose pins are freed.                                                   *)

Distinct(p) == \A k \in 1..Len(p) : \A j \in 1..k-1 : p[j] # p[k]

\* A driver that requests its pins after the device gives them back first.
LEMMA PinsComeFirst ==
  ASSUME NEW p \in Seq(Pins), Distinct(p), NEW label
  PROVE  LET calls == TakeDevice \o Request(p, label)
         IN  EachOnce(p \o <<"device", "class", "cdev", "region">>, {calls[k].of : k \in 1..Len(calls)})
<1> DEFINE calls == TakeDevice \o Request(p, label)
           back == <<"device", "class", "cdev", "region">>
           list == p \o back
           r == Request(p, label)
           calling == {TakeDevice[k] : k \in 1..4} \cup [of : Pins, undo : {label}]
<1>1. /\ Len(r) = Len(p) /\ Len(p) \in Nat /\ \A k \in 1..Len(p) : r[k].of = p[k]
      /\ r \in Seq(calling)
  <2>1. r = [k \in 1..Len(p) |-> [of |-> p[k], undo |-> label]] BY DEF Request, Take
  <2>2. \A k \in 1..Len(p) : p[k] \in Pins BY Element
  <2>3. r \in [1..Len(p) -> calling] BY <2>1, <2>2
  <2>4. Len(p) \in Nat OBVIOUS
  <2> HIDE DEF r, calling
  <2>5. Len(r) = Len(p) /\ r \in Seq(calling) BY <2>3, <2>4
  <2> QED BY <2>1, <2>4, <2>5
<1>2. TakeDevice \in Seq(calling) /\ Len(TakeDevice) = 4
  <2>1. Len(TakeDevice) = 4 /\ TakeDevice = [k \in 1..4 |-> TakeDevice[k]] BY DEF TakeDevice
  <2>2. TakeDevice \in [1..4 -> calling] BY <2>1
  <2> HIDE DEF calling
  <2> QED BY <2>1, <2>2
<1>3. Len(calls) = 4 + Len(p) /\ \A k \in 1..Len(p) : calls[4 + k].of = p[k]
  <2> HIDE DEF r, calling
  <2>1. /\ Len(TakeDevice \o r) = 4 + Len(p)
        /\ \A k \in 1..4 + Len(p) : (TakeDevice \o r)[k] = IF k <= 4 THEN TakeDevice[k] ELSE r[k - 4]
    <3>1. r \in Seq(calling) /\ TakeDevice \in Seq(calling) BY <1>1, <1>2
    <3>2. /\ Len(TakeDevice \o r) = Len(TakeDevice) + Len(r)
          /\ \A k \in 1..Len(TakeDevice) + Len(r) :
               (TakeDevice \o r)[k] = IF k <= Len(TakeDevice) THEN TakeDevice[k] ELSE r[k - Len(TakeDevice)]
      BY <3>1, ConcatProperties
    <3>3. Len(TakeDevice) = 4 /\ Len(r) = Len(p) BY <1>1, <1>2
    <3> QED BY <3>2, <3>3, Zenon
  <2>2. \A k \in 1..Len(p) : 4 + k \in 1..4 + Len(p) /\ ~(4 + k <= 4) /\ (4 + k) - 4 = k BY <1>1
  <2>3. \A k \in 1..Len(p) : (TakeDevice \o r)[4 + k] = r[k] BY <2>1, <2>2
  <2> QED BY <1>1, <2>1, <2>3 DEF r
<1>4. /\ Len(list) = Len(p) + 4
      /\ \A k \in 1..Len(p) : list[k] = p[k]
      /\ \A k \in 1..Len(list) : k \notin 1..Len(p) => list[k] \in {"region", "cdev", "class", "device"}
  <2> DEFINE A == Pins \cup {"region", "cdev", "class", "device"}
  <2>1. p \in Seq(A) /\ back \in Seq(A) OBVIOUS
  <2>2. Len(back) = 4 /\ \A k \in 1..4 : back[k] \in {"region", "cdev", "class", "device"}
    <3>1. \A k \in 1..4 : k = 1 \/ k = 2 \/ k = 3 \/ k = 4 OBVIOUS
    <3> QED BY <3>1
  <2> HIDE DEF back, A
  <2>a. /\ Len(list) = Len(p) + 4
        /\ \A k \in 1..Len(p) + 4 : list[k] = IF k <= Len(p) THEN p[k] ELSE back[k - Len(p)]
    <3>1. /\ Len(list) = Len(p) + Len(back)
          /\ \A k \in 1..Len(p) + Len(back) :
               list[k] = IF k <= Len(p) THEN p[k] ELSE back[k - Len(p)]
      BY <2>1, ConcatProperties
    <3> HIDE DEF list
    <3> QED BY <2>2, <3>1
  <2>3. Len(list) = Len(p) + 4 /\ \A k \in 1..Len(p) : list[k] = p[k] BY <1>1, <2>a
  <2>4. ASSUME NEW k \in 1..Len(list), k \notin 1..Len(p) PROVE list[k] \in {"region", "cdev", "class", "device"}
    <3>1. k - Len(p) \in 1..4 /\ k > Len(p) BY <1>1, <2>3, <2>4
    <3>2. list[k] = back[k - Len(p)] BY <1>1, <2>a, <2>4, <3>1
    <3> QED BY <2>2, <3>1, <3>2
  <2> QED BY <2>3, <2>4
<1> DEFINE taken == {calls[k].of : k \in 1..Len(calls)}
<1>5. ASSUME NEW k \in 1..Len(list), list[k] \in Pins
      PROVE  list[k] \in taken /\ \A j \in 1..k-1 : list[j] # list[k]
  <2> HIDE DEF list, calls
  <2>1. k \in 1..Len(p) BY <1>4, <1>5, TableAssumption
  <2>2. 4 + k \in 1..Len(calls) BY <1>1, <1>3, <2>1
  <2>3. list[k] = calls[4 + k].of BY <1>3, <1>4, <2>1
  <2>4. \A j \in 1..k-1 : j \in 1..Len(p) BY <1>1, <2>1
  <2> QED BY <1>4, <2>1, <2>2, <2>3, <2>4 DEF Distinct
<1> QED BY <1>5 DEF EachOnce

\* The pins of lab3 and hw1.
LEMMA PinsAreDistinct ==
  ASSUME NEW p \in {lab3_1_pins, lab3_2_pins, seg7_pins \o led_pins}, Pins = GPIOs
  PROVE  p \in Seq(Pins) /\ Distinct(p)
<1>1. CASE p = lab3_1_pins BY <1>1 DEF lab3_1_pins, GPIOs, Distinct
<1>2. CASE p = lab3_2_pins BY <1>2 DEF lab3_2_pins, GPIOs, Distinct
<1>3. CASE p = seg7_pins \o led_pins
  <2>1. seg7_pins \in Seq(Pins) /\ led_pins \in Seq(Pins) BY DEF seg7_pins, led_pins, GPIOs
  <2>2. p \in Seq(Pins) BY <1>3, <2>1
  <2>3. /\ Len(p) = 15 /\ p[1] = "21" /\ p[2] = "20" /\ p[3] = "16" /\ p[4] = "12" /\ p[5] = "1"
        /\ p[6] = "26" /\ p[7] = "19" /\ p[8] = "9" /\ p[9] = "10" /\ p[10] = "22" /\ p[11] = "27"
        /\ p[12] = "17" /\ p[13] = "4" /\ p[14] = "3" /\ p[15] = "2"
    BY <1>3 DEF seg7_pins, led_pins
  <2> QED BY <2>2, <2>3 DEF Distinct
<1> QED BY <1>1, <1>2, <1>3

\* The lists of these drivers give back what was taken, each pin once.
LEMMA ListsOfDrivers ==
  ASSUME Names = DriverNames, init = driver_init, exit = driver_exit, Pins = GPIOs
  PROVE  ListsAreExact
<1>1. ASSUME NEW p \in {lab3_1_pins, lab3_2_pins, seg7_pins \o led_pins}, NEW n,
             init[n] = TakeDevice \o Request(p, r_gpio(p)), exit[n] = p \o <<"device", "class", "cdev", "region">>
      PROVE  EachOnce(exit[n], Taken(n))
  <2>1. p \in Seq(Pins) /\ Distinct(p) BY PinsAreDistinct
  <2> DEFINE calls == TakeDevice \o Request(p, r_gpio(p))
             back == p \o <<"device", "class", "cdev", "region">>
  <2>2. EachOnce(back, {calls[k].of : k \in 1..Len(calls)}) BY <2>1, PinsComeFirst
  <2>3. Taken(n) = {calls[k].of : k \in 1..Len(calls)} BY <1>1 DEF Taken
  <2> HIDE DEF calls, back
  <2>4. exit[n] = back BY <1>1 DEF back
  <2> QED BY <2>2, <2>3, <2>4
<1>2. EachOnce(exit["lab3_1"], Taken("lab3_1")) BY <1>1 DEF driver_init, driver_exit, lab3_1_init, lab3_1_exit
<1>3. EachOnce(exit["lab3_2"], Taken("lab3_2")) BY <1>1 DEF driver_init, driver_exit, lab3_2_init, lab3_2_exit
<1>4. EachOnce(exit["hw1"], Taken("hw1")) BY <1>1 DEF driver_init, driver_exit, hw1_init, hw1_exit
<1>5. /\ EachOnce(exit["led"], Taken("led"))
      /\ \A k \in 1..Len(init["led"]) :
           EachOnce(init["led"][k].undo, {init["led"][j].of : j \in 1..k-1})
  <2> USE DEF GPIOs
  <2> DEFINE l == init["led"]
  <2>1. /\ Len(l) = 6 /\ l[1].undo = <<>> /\ l[2].undo = led_r_del /\ l[3].undo = led_r_class
        /\ l[4].undo = led_r_device /\ l[5].undo = led_r_gpio7 /\ l[6].undo = led_r_gpio8
        /\ l[5].of = "7" /\ l[6].of = "8"
    BY DEF driver_init, led_init, Take
  <2> HIDE DEF l
  <2>2. EachOnce(exit["led"], Taken("led"))
    <3>1. exit["led"] = <<"7", "8", "device", "class", "cdev", "region">> BY DEF driver_exit, led_exit
    <3>2. "7" \in Taken("led") /\ "8" \in Taken("led")
      <4>1. 5 \in 1..Len(l) /\ 6 \in 1..Len(l) BY <2>1
      <4> QED BY <2>1, <4>1 DEF Taken, l
    <3> QED BY <3>1, <3>2 DEF EachOnce
  <2> DEFINE others == {"region", "cdev", "class", "device"}
  <2>3. \A k \in 1..Len(led_r_gpio7) : led_r_gpio7[k] \in others
    BY DEF led_r_gpio7, led_r_device, led_r_class, led_r_del
  <2>4. ASSUME NEW x \in {led_r_del, led_r_class, led_r_device}, NEW k \in 1..Len(x) PROVE x[k] \in others
    BY DEF led_r_device, led_r_class, led_r_del
  <2>5. led_r_gpio8[1] = "7" /\ \A k \in 1..Len(led_r_gpio8) : k # 1 => led_r_gpio8[k] \in others
    BY DEF led_r_gpio8, led_r_gpio7, led_r_device, led_r_class, led_r_del
  <2>6. \A x : (\A k \in 1..Len(x) : x[k] \in others) => \A t : EachOnce(x, t) BY TableAssumption DEF EachOnce
  <2>7. EachOnce(<<>>, {l[j].of : j \in 1..1-1}) BY DEF EachOnce
  <2>8. EachOnce(led_r_gpio8, {l[j].of : j \in 1..6-1})
    <3>1. "7" \in {l[j].of : j \in 1..6-1}
      <4>1. 5 \in 1..6-1 OBVIOUS
      <4> QED BY <2>1, <4>1
    <3>2. \A k \in 1..Len(led_r_gpio8) : led_r_gpio8[k] \in Pins => k = 1 BY <2>5, TableAssumption
    <3> QED BY <2>5, <3>1, <3>2 DEF EachOnce
  <2>9. ASSUME NEW k \in 1..6 PROVE EachOnce(l[k].undo, {l[j].of : j \in 1..k-1})
    <3> HIDE DEF others
    <3>1. CASE k = 1 BY <2>1, <2>7, <3>1
    <3>2. CASE k \in {2, 3, 4, 5} BY <2>1, <2>3, <2>4, <2>6, <3>2
    <3>3. CASE k = 6 BY <2>1, <2>8, <3>3
    <3> QED BY <3>1, <3>2, <3>3
  <2> QED BY <2>1, <2>2, <2>9 DEF l
<1>6. /\ EachOnce(exit["mydev"], Taken("mydev"))
      /\ \A k \in 1..Len(init["mydev"]) :
           EachOnce(init["mydev"][k].undo, {init["mydev"][j].of : j \in 1..k-1})
  <2>1. exit["mydev"] = <<"cdev", "region">> BY DEF driver_exit, my_exit
  <2>2. init["mydev"] = <<[of |-> "region", undo |-> <<>>], [of |-> "cdev", undo |-> <<"region">>]>>
    BY DEF driver_init, my_init, Take
  <2> QED BY <2>1, <2>2, TableAssumption DEF EachOnce
<1>7. \A n \in Names : n \in FreesAll \/ n = "led" \/ n = "mydev" BY DEF DriverNames, FreesAll
<1>8. \A n \in FreesAll : n = "lab3_1" \/ n = "lab3_2" \/ n = "hw1" BY DEF FreesAll
<1> HIDE DEF FreesAll
<1>9. \A n \in Names : EachOnce(exit[n], Taken(n)) BY <1>2, <1>3, <1>4, <1>5, <1>6, <1>7, <1>8
<1> DEFINE Labels(n) == \A k \in 1..Len(init[n]) : EachOnce(init[n][k].undo, {init[n][j].of : j \in 1..k-1})
<1>10. Labels("led") /\ Labels("mydev") BY <1>5, <1>6
<1> HIDE DEF Labels
<1>11. \A n \in Names : n \notin FreesAll => Labels(n) BY <1>7, <1>10
<1> QED BY <1>9, <1>11 DEF ListsAreExact, Labels

LEMMA PinsInvStarts == ProbeInit => PinsInv
<1> SUFFICES ASSUME ProbeInit PROVE PinsInv OBVIOUS
<1> QED BY DEF ProbeInit, PinsInv

\* A failing call of led or mydev and rmmod find every pin on the list taken; what
\* is given back is not on it any more.
LEMMA PinsStep ==
  ASSUME ListsAreExact, ProbeInv, PinsInv, ProbeNext
  PROVE  PinsInv'
<1> USE DEF PinsInv
<1> DEFINE Guarded == mode = "exiting" \/ (mode = "failing" /\ driver \notin FreesAll)
<1>1. ASSUME NEW n \in Names, Insmod(n) PROVE PinsInv' BY <1>1 DEF Insmod
<1>2. CASE Succeeds \/ Unnoticed
  BY <1>2 DEF Succeeds, Unnoticed, Calling
<1>3. CASE Inserted BY <1>3 DEF Inserted
<1>4. CASE Removed BY <1>4 DEF Removed
<1>5. CASE Fails
  <2> SUFFICES ASSUME driver \notin FreesAll PROVE PinsInv' BY <1>5 DEF Fails
  <2>1. /\ mode = "probing" /\ at <= Len(init[driver]) /\ undo' = init[driver][at].undo
        /\ UNCHANGED <<driver, owner>> /\ Calling
    BY <1>5 DEF Fails, Calling, Call
  <2>2. driver \in Names /\ at \in 1..Len(init[driver]) + 1 BY <2>1 DEF ProbeInv, ProbeTypeOK
  <2>3. Len(init[driver]) \in Nat BY <2>2, TableAssumption
  <2>4. at \in 1..Len(init[driver]) BY <2>1, <2>2, <2>3
  <2>5. EachOnce(undo', {init[driver][j].of : j \in 1..at-1}) BY <2>1, <2>2, <2>4 DEF ListsAreExact
  <2>6. \A j \in 1..at-1 : init[driver][j].of \in {"class", "device"} \/ owner[init[driver][j].of] = "driver"
    BY <2>1 DEF ProbeInv
  <2>7. \A r \in {init[driver][j].of : j \in 1..at-1} : r \in Pins => owner[r] = "driver"
    BY <2>6, TableAssumption
  <2> QED BY <2>1, <2>5, <2>7 DEF EachOnce
<1>6. CASE Rmmod
  <2>1. mode = "loaded" /\ undo' = exit[driver] /\ UNCHANGED <<driver, owner>> BY <1>6 DEF Rmmod
  <2>2. driver \in Names BY DEF ProbeInv, ProbeTypeOK
  <2>3. EachOnce(undo', Taken(driver)) BY <2>1, <2>2 DEF ListsAreExact
  <2>4. \A r \in Taken(driver) : r \in Pins => owner[r] = "driver"
    BY <2>1, TableAssumption DEF ProbeInv, LoadedHasAll
  <2> QED BY <2>1, <2>3, <2>4 DEF EachOnce
<1>7. CASE GiveBack
  <2>1. CASE mode' = "oops" BY <2>1
  <2>2. CASE mode' # "oops"
    <3>1. /\ undo # <<>> /\ undo' = Tail(undo) /\ UNCHANGED <<mode, driver>>
          /\ owner' = [owner EXCEPT ![Head(undo)] =
                         IF Head(undo) \in Pins \/ @ = "driver" THEN "free" ELSE @]
      BY <1>7, <2>2 DEF GiveBack
    <3>2. undo \in Seq(Resources) /\ owner \in [Resources -> {"free", "driver", "other"}]
      BY DEF ProbeInv, ProbeTypeOK
    <3>3. /\ Head(undo) = undo[1] /\ Len(undo) \in Nat /\ Len(undo') = Len(undo) - 1
          /\ \A k \in 1..Len(undo) - 1 : undo'[k] = undo[k + 1]
      BY <3>1, <3>2
    <3> SUFFICES ASSUME Guarded, NEW k \in 1..Len(undo'), undo'[k] \in Pins
                 PROVE  owner'[undo'[k]] = "driver" /\ \A j \in 1..k-1 : undo'[j] # undo'[k]
      BY <3>1
    <3>4. k + 1 \in 1..Len(undo) /\ undo'[k] = undo[k + 1] /\ 1 \in 1..(k + 1) - 1 BY <3>3
    <3>5. owner[undo[k + 1]] = "driver" /\ undo[1] # undo[k + 1] BY <3>4
    <3>6. owner'[undo'[k]] = "driver"
      <4>1. undo[k + 1] \in Resources BY <3>2, <3>4
      <4> QED BY <3>1, <3>2, <3>3, <3>4, <3>5, <4>1
    <3>7. ASSUME NEW j \in 1..k-1 PROVE undo'[j] # undo'[k]
      <4>1. j + 1 \in 1..(k + 1) - 1 /\ j \in 1..Len(undo) - 1 BY <3>3
      <4> QED BY <3>3, <3>4, <4>1
    <3> QED BY <3>6, <3>7
  <2> QED BY <2>1, <2>2
<1>8. ASSUME NEW p \in Wanted, OtherRequests(p) \/ OtherFrees(p) PROVE PinsInv'
  <2>1. /\ owner[p] # "driver" /\ UNCHANGED <<driver, mode, at, undo>>
        /\ \A r \in Resources : r # p => owner'[r] = owner[r]
    BY <1>8 DEF OtherRequests, OtherFrees, ProbeInv, ProbeTypeOK
  <2>2. undo \in Seq(Resources) BY DEF ProbeInv, ProbeTypeOK
  <2>3. \A k \in 1..Len(undo) : undo[k] \in Resources BY <2>2
  <2> QED BY <2>1, <2>3
<1> QED BY <1>1, <1>2, <1>3, <1>4, <1>5, <1>6, <1>7, <1>8 DEF ProbeNext, Kernel

\* No clean-up but those of lab3 and hw1 takes a pin from somebody else: the pins
\* that are still to be given back are all the driver's.
LEMMA PinsAreTheDrivers ==
  ASSUME ListsAreExact
  PROVE  ProbeSpec => PinsAreKept
<1>1. PinsInv /\ UNCHANGED probeVars => PinsInv' BY DEF PinsInv, probeVars
<1>2. ProbeInv /\ PinsInv /\ [ProbeNext]_probeVars => PinsInv' BY <1>1, PinsStep
<1>3. ASSUME ProbeInv, PinsInv, [ProbeNext]_probeVars, NEW p \in Pins,
             owner[p] = "other", mode \in {"failing", "exiting"}, owner'[p] = "free", undo' # undo
      PROVE  mode = "failing" /\ driver \in FreesAll
  <2>1. GiveBack
    <3>1. ~UNCHANGED probeVars BY <1>3 DEF probeVars
    <3> QED BY <1>3, <3>1 DEF ProbeNext, Kernel, Insmod, Succeeds, Unnoticed, Calling, Fails, Inserted, Rmmod, Removed,
                              OtherRequests, OtherFrees
  <2>2. /\ undo # <<>>
        /\ owner' = [owner EXCEPT ![Head(undo)] =
                       IF Head(undo) \in Pins \/ @ = "driver" THEN "free" ELSE @]
    BY <1>3, <2>1 DEF GiveBack
  <2>3. undo \in Seq(Resources) /\ owner \in [Resources -> {"free", "driver", "other"}]
    BY <1>3 DEF ProbeInv, ProbeTypeOK
  <2>4. Head(undo) = p BY <1>3, <2>2, <2>3
  <2>5. 1 \in 1..Len(undo) /\ undo[1] = p BY <2>2, <2>3, <2>4
  <2> QED BY <1>3, <2>5 DEF PinsInv
<1>4. ProbeInv /\ PinsInv /\ [ProbeNext]_probeVars =>
        [\A p \in Pins :
           owner[p] = "other" /\ mode \in {"failing", "exiting"} /\ owner'[p] = "free" /\ undo' # undo =>
             mode = "failing" /\ driver \in FreesAll]_probeVars
  BY <1>3
<1> QED BY <1>2, <1>4, PinsInvStarts, ProbeInvHolds, PTL DEF ProbeSpec, PinsAreKept

\* The drivers of the repository, whoever asks for their pins in the meantime.
THEOREM PinsOfOthersAreKept ==
  ASSUME Names = DriverNames, init = driver_init, exit = driver_exit, Pins = GPIOs
  PROVE  MarqueeSpec => PinsAreKept
<1> QED BY ListsOfDrivers, PinsAreTheDrivers, MarqueeUsesDrivers, PTL
=============================================================================
