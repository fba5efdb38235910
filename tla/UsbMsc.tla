-------------------------------- MODULE UsbMsc --------------------------------
(***************************************************************************)
(* USB sticks (usb_msc.cpp): the driver's task notes that a stick came or  *)
(* went, in two volatile variables without a lock; loop() acts on them and *)
(* mounts or unmounts, as mount() and unmount() do when the user asks.     *)
(*                                                                         *)
(* Sticks are numbered as they are plugged in; the number stands for the   *)
(* USB address, the device handle and the mounted volume.                  *)
(***************************************************************************)
EXTENDS Integers, Sequences

CONSTANT MaxSticks  \* bound: sticks that are plugged in

ASSUME MscAssumption == MaxSticks \in Nat

VARIABLES
  stick,       \* the stick that is plugged in, or 0
  sticks,      \* history: how many have been so far
  news,        \* what the driver's task has still to report, in order
  address,     \* connected_address_
  removed,     \* disconnected_
  stickDevice, \* device_
  volume,      \* vfs_
  pass,        \* where loop() is, and the address it has read
  ejected      \* history: the stick the user has unmounted and not mounted since

mscLoop == <<stickDevice, volume, pass, ejected>>
mscVars == <<stick, sticks, news, address, removed, mscLoop>>

Stick == 1 .. MaxSticks

MscInit ==
  /\ stick = 0 /\ sticks = 0 /\ news = <<>>
  /\ address = 0 /\ removed = FALSE
  /\ stickDevice = 0 /\ volume = 0 /\ ejected = 0
  /\ pass = [step |-> "removed", address |-> 0]
-----------------------------------------------------------------------------
(***************************************************************************)
(* The stick and the driver's task                                         *)
(***************************************************************************)
PlugStick ==
  /\ stick = 0 /\ sticks < MaxSticks
  /\ stick' = sticks + 1 /\ sticks' = sticks + 1
  /\ news' = Append(news, [came |-> TRUE, stick |-> stick'])
  /\ UNCHANGED <<address, removed, mscLoop>>

\* The driver reports that a stick went when it has it installed; of another one
\* it may.
PullStick ==
  /\ stick # 0 /\ stick' = 0
  /\ LET told == Append(news, [came |-> FALSE, stick |-> stick])
     IN IF stickDevice = stick THEN news' = told ELSE news' \in {news, told}
  /\ UNCHANGED <<sticks, address, removed, mscLoop>>

\* event_callback_
StickEvent ==
  /\ news # <<>> /\ news' = Tail(news)
  /\ IF Head(news).came THEN address' = Head(news).stick /\ UNCHANGED removed
                        ELSE removed' = TRUE /\ UNCHANGED address
  /\ UNCHANGED <<stick, sticks, mscLoop>>
-----------------------------------------------------------------------------
(***************************************************************************)
(* loop(), the variables of the driver's task one access at a time         *)
(***************************************************************************)
PassGoes(step) == pass' = [pass EXCEPT !.step = step]

\* disconnected_ is read and taken back, ...
PassRemoved ==
  /\ pass.step = "removed"
  /\ removed' = FALSE
  /\ PassGoes(IF removed THEN "unmount" ELSE "address")
  /\ UNCHANGED <<stick, sticks, news, address, stickDevice, volume, ejected>>

\* ... what is mounted and installed is given up, ...
PassUnmounts ==
  /\ pass.step = "unmount"
  /\ volume' = 0 /\ stickDevice' = 0
  /\ PassGoes("address")
  /\ UNCHANGED <<stick, sticks, news, address, removed, ejected>>

\* ... connected_address_ is read ...
PassReads ==
  /\ pass.step = "address"
  /\ pass' = IF address = 0 THEN [pass EXCEPT !.step = "removed"]
                            ELSE [step |-> "clear", address |-> address]
  /\ UNCHANGED <<stick, sticks, news, address, removed, stickDevice, volume, ejected>>

\* ... and taken back: an address that was stored in between is lost.
PassClears ==
  /\ pass.step = "clear"
  /\ address' = 0
  /\ PassGoes("install")
  /\ UNCHANGED <<stick, sticks, news, removed, stickDevice, volume, ejected>>

\* Faulty variant: whatever is installed is mounted.
PassMountsAnyway ==
  /\ pass.step = "install"
  /\ PassGoes("removed")
  /\ stickDevice' \in {stickDevice} \cup
       (IF stickDevice = 0 /\ stick = pass.address THEN {stick} ELSE {})
  /\ volume' \in {volume, stickDevice'}
  /\ UNCHANGED <<stick, sticks, news, address, removed, ejected>>

\* The stick of that address is installed, when none is yet, and mounted; either
\* may fail.
PassInstalls ==
  /\ pass.step = "install"
  /\ PassGoes("removed")
  /\ \/ UNCHANGED <<stickDevice, volume>>
     \/ /\ stickDevice = 0 /\ stick = pass.address
        /\ stickDevice' = stick
        /\ volume' \in {volume, stick}
  /\ UNCHANGED <<stick, sticks, news, address, removed, ejected>>
-----------------------------------------------------------------------------
(***************************************************************************)
(* The user, between two passes                                            *)
(***************************************************************************)

\* mount(), which may fail.
UserMounts ==
  /\ pass.step = "removed" /\ stickDevice # 0 /\ volume = 0
  /\ volume' = stickDevice /\ ejected' = 0
  /\ UNCHANGED <<stick, sticks, news, address, removed, stickDevice, pass>>

\* unmount()
UserUnmounts ==
  /\ pass.step = "removed" /\ volume # 0
  /\ ejected' = volume /\ volume' = 0
  /\ UNCHANGED <<stick, sticks, news, address, removed, stickDevice, pass>>
-----------------------------------------------------------------------------
MscPass == PassRemoved \/ PassUnmounts \/ PassReads \/ PassClears \/ PassInstalls

MscNext ==
  \/ PlugStick \/ PullStick \/ StickEvent
  \/ MscPass \/ UserMounts \/ UserUnmounts

MscSpec == MscInit /\ [][MscNext]_mscVars

\* loop() goes on, and the driver's task reports.
MscFairness == WF_mscVars(MscPass) /\ WF_mscVars(StickEvent)
-----------------------------------------------------------------------------
MscTypeOK ==
  /\ {stick, sticks, address, stickDevice, volume, ejected} \subseteq Stick \cup {0}
  /\ news \in Seq([came : BOOLEAN, stick : Stick]) /\ removed \in BOOLEAN
  /\ pass \in [step : {"removed", "unmount", "address", "clear", "install"},
               address : Stick \cup {0}]

\* "Unmounted when it is pulled": also when the driver's report comes while the
\* stick is still being mounted, or the user mounts what is already gone.  A stick
\* that is pulled gets a new number when it is plugged in again.
PulledIsUnmounted == (volume # 0 /\ stick # volume) ~> (volume = 0 \/ stick = volume)

\* "It stays unmounted until mount() or it is plugged in again": no report that
\* comes late, of this stick or another, mounts what the user has unmounted.
EjectedStaysUnmounted ==
  [][volume = 0 /\ volume' # 0 /\ volume' = ejected => ejected' = 0]_mscVars
=============================================================================
