-------------------------------- MODULE Probe --------------------------------
(***************************************************************************)
(* insmod and rmmod of a driver: its init function takes one resource      *)
(* after another, gives those it has back when a call fails (the labels of *)
(* its gotos, one falling through to the next), and its exit function gives*)
(* all of them back.  An init function is the sequence of its calls; with  *)
(* each call goes what is given back when it fails, in order.  Meanwhile   *)
(* the pins are there for everybody else in the kernel.                    *)
(***************************************************************************)
EXTENDS Integers, Sequences, SequencesExt

CONSTANTS
  Names,      \* the drivers
  Pins,       \* the GPIOs
  Wanted,     \* the GPIOs that others in the kernel may ask for, one at a time
  init,       \* of each driver: a sequence of [of |-> resource, undo |-> resources]
  exit        \* of each driver: the resources its exit function gives back

Resources == {"region", "cdev", "class", "device"} \cup Pins
Taken(n) == {init[n][k].of : k \in 1..Len(init[n])}

\* Names are drivers, and the class goes after the device in every clean-up.
ASSUME TableAssumption ==
  /\ Wanted \subseteq Pins
  /\ {"region", "cdev", "class", "device"} \cap Pins = {}
  /\ init \in [Names -> Seq([of : Resources, undo : Seq(Resources)])]
  /\ exit \in [Names -> Seq(Resources)]

\* What the gotos must get right: a call that fails gives back all that the
\* calls before it have taken, and the exit function gives back everything.
ASSUME LadderAssumption ==
  \A n \in Names :
    /\ \A k \in 1..Len(init[n]) : \A j \in 1..k-1 : init[n][j].of \in ToSet(init[n][k].undo)
    /\ Taken(n) \subseteq ToSet(exit[n])

VARIABLES
  driver,   \* the one that is, or was last, inserted
  mode,     \* "out", "probing", "failing", "loaded", "exiting" or "oops"
  at,       \* the next call of its init function
  undo,     \* what is still to be given back
  owner     \* of each resource: "free", "driver" or "other"

probeVars == <<driver, mode, at, undo, owner>>

ProbeTypeOK ==
  /\ driver \in Names
  /\ mode \in {"out", "probing", "failing", "loaded", "exiting", "oops"}
  /\ at \in Nat
  /\ undo \in Seq(Resources)
  /\ owner \in [Resources -> {"free", "driver", "other"}]

ProbeInit ==
  /\ driver \in Names
  /\ mode = "out" /\ at = 1 /\ undo = <<>>
  /\ owner = [r \in Resources |-> "free"]

Insmod(n) ==
  /\ mode = "out"
  /\ driver' = n /\ mode' = "probing" /\ at' = 1
  /\ UNCHANGED <<undo, owner>>

Call == init[driver][at]
Calling == mode = "probing" /\ at <= Len(init[driver])

Succeeds ==
  /\ Calling /\ owner[Call.of] = "free"
  /\ Call.of = "device" => owner["class"] = "driver"
  /\ owner' = [owner EXCEPT ![Call.of] = "driver"] /\ at' = at + 1
  /\ UNCHANGED <<driver, mode, undo>>

\* class_create and device_create return an error as a pointer that is not
\* NULL: it is not noticed.
Unnoticed ==
  /\ Calling /\ Call.of \in {"class", "device"}
  /\ at' = at + 1
  /\ UNCHANGED <<driver, mode, undo, owner>>

\* Mutant: the function returns where it should go to a label.
Fails_Returns ==
  /\ Calling /\ Call.of \notin {"class", "device"}
  /\ mode' = "failing" /\ undo' = <<>>
  /\ UNCHANGED <<driver, at, owner>>

Fails ==
  /\ Calling /\ Call.of \notin {"class", "device"}
  /\ mode' = "failing" /\ undo' = Call.undo
  /\ UNCHANGED <<driver, at, owner>>

Inserted ==
  /\ mode = "probing" /\ at > Len(init[driver])
  /\ mode' = "loaded"
  /\ UNCHANGED <<driver, at, undo, owner>>

Rmmod ==
  /\ mode = "loaded"
  /\ mode' = "exiting" /\ undo' = exit[driver]
  /\ UNCHANGED <<driver, at, owner>>

\* gpio_free frees a pin whoever has it; the other calls find nothing to free
\* if nothing was taken, except that device_destroy follows the class, and an
\* error pointer leads nowhere.
GiveBack ==
  /\ mode \in {"failing", "exiting"} /\ undo # <<>>
  /\ \/ /\ Head(undo) = "device" /\ owner["class"] # "driver"
        /\ mode' = "oops" /\ UNCHANGED <<undo, owner>>
     \/ /\ Head(undo) = "device" => owner["class"] = "driver"
        /\ undo' = Tail(undo) /\ UNCHANGED mode
        /\ owner' = [owner EXCEPT ![Head(undo)] =
                       IF Head(undo) \in Pins \/ @ = "driver" THEN "free" ELSE @]
  /\ UNCHANGED <<driver, at>>

Removed ==
  /\ mode \in {"failing", "exiting"} /\ undo = <<>>
  /\ mode' = "out"
  /\ UNCHANGED <<driver, at, undo, owner>>

OtherRequests(p) ==
  /\ owner[p] = "free" /\ \A q \in Pins : owner[q] # "other"
  /\ owner' = [owner EXCEPT ![p] = "other"]
  /\ UNCHANGED <<driver, mode, at, undo>>

OtherFrees(p) ==
  /\ owner[p] = "other"
  /\ owner' = [owner EXCEPT ![p] = "free"]
  /\ UNCHANGED <<driver, mode, at, undo>>

Kernel ==
  \/ \E n \in Names : Insmod(n)
  \/ Succeeds \/ Unnoticed \/ Fails \/ Inserted \/ GiveBack \/ Removed
  \/ \E p \in Wanted : OtherRequests(p) \/ OtherFrees(p)

ProbeNext == Kernel \/ Rmmod

ProbeSpec == ProbeInit /\ [][ProbeNext]_probeVars

-----------------------------------------------------------------------------
\* A driver that is not in the kernel, be it that its probe failed or that it
\* was removed, has left nothing behind.
NothingIsLeft == mode = "out" => \A r \in Resources : owner[r] # "driver"

\* A loaded driver has its region, its cdev and every pin it drives, whoever
\* else has asked for pins while it was probing.
LoadedHasAll ==
  mode = "loaded" => \A r \in Taken(driver) \ {"class", "device"} : owner[r] = "driver"

\* The inductive invariant: what the driver has is what its calls so far have
\* taken, and while it gives back, what it still has is still to come.
ProbeInv ==
  /\ ProbeTypeOK
  /\ mode = "probing" =>
       /\ at \in 1..Len(init[driver]) + 1
       /\ \A r \in Resources : owner[r] = "driver" => \E j \in 1..at-1 : init[driver][j].of = r
       /\ \A j \in 1..at-1 : init[driver][j].of \in {"class", "device"} \/ owner[init[driver][j].of] = "driver"
  /\ mode = "loaded" => \A r \in Resources : owner[r] = "driver" => r \in Taken(driver)
  /\ mode \in {"failing", "exiting"} => \A r \in Resources : owner[r] = "driver" => r \in ToSet(undo)
  /\ LoadedHasAll /\ NothingIsLeft
=============================================================================
