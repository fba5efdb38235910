-------------------------------- MODULE UsbMidi --------------------------------
(***************************************************************************)
(* The transfers of a USB MIDI device (usb_midi.cpp): one client task      *)
(* opens and closes it and runs the transfer callbacks; writers queue      *)
(* packets and submit them under tx_lock_.  MidiRing has what is received. *)
(*                                                                         *)
(* A transfer is unallocated ("none"), "idle", with the "host" stack, or   *)
(* "back" with its callback still to run.  Unplugging halts the endpoints: *)
(* what is with the host comes back and a submit fails from then on.  The  *)
(* host stack reports that, and the returned transfers, in any order; it   *)
(* takes a new device when the one before has been closed.                 *)
(***************************************************************************)
EXTENDS Integers

CONSTANTS
  TxMax,      \* packets that fit TX_BUFFER_SIZE
  OutMax,     \* packets in one OUT transfer
  Writers,    \* tasks that call write()
  Nobody,     \* tx_lock_ is free
  MaxWrites   \* bound: calls of write()

ASSUME MidiAssumption ==
  /\ TxMax \in Nat \ {0} /\ OutMax \in Nat \ {0} /\ MaxWrites \in Nat
  /\ Nobody \notin Writers

VARIABLES
  bus,        \* is the device plugged in, and which events are still to be seen
  device,     \* device_ is set
  gone,       \* gone_
  connected,  \* connected_
  client,     \* where the client task is
  inbound,    \* in_transfer_
  inBusy,     \* in_busy_
  outbound,   \* out_transfer_
  outBusy,    \* out_busy_
  txLock,     \* who holds tx_lock_
  tx,         \* packets queued in tx_
  writer,     \* where each writer is in write()
  writes,     \* history: calls of write() so far
  refused,    \* history: the last OUT submit failed although the device is there
  overlooked, \* history: out_busy_ was read while a writer had submitted an OUT
              \* transfer and not stored it yet
  lostOut     \* history: an OUT transfer was freed before it came back

midiOut   == <<outbound, outBusy, txLock, tx, writer, writes, refused, overlooked, lostOut>>
midiState == <<bus, device, gone, connected, client, inbound, inBusy>>
midiVars  == <<midiState, midiOut>>

NotWriting == [step |-> "idle", sent |-> FALSE]

MidiInit ==
  /\ bus = [plugged |-> FALSE, arrival |-> FALSE, removal |-> FALSE]
  /\ device = FALSE /\ gone = FALSE /\ connected = FALSE /\ client = "idle"
  /\ inbound = "none" /\ inBusy = FALSE /\ outbound = "none" /\ outBusy = FALSE
  /\ txLock = Nobody /\ tx = 0 /\ writes = 0
  /\ writer = [w \in Writers |-> NotWriting]
  /\ refused = FALSE /\ overlooked = FALSE /\ lostOut = FALSE
-----------------------------------------------------------------------------
(***************************************************************************)
(* The host stack and the device                                           *)
(***************************************************************************)
Plug ==
  /\ ~bus.plugged /\ ~device
  /\ bus' = [bus EXCEPT !.plugged = TRUE, !.arrival = TRUE]
  /\ UNCHANGED <<device, gone, connected, client, inbound, inBusy, midiOut>>

Returned(transfer) == IF transfer = "host" THEN "back" ELSE transfer

Unplug ==
  /\ bus.plugged
  /\ bus' = [plugged |-> FALSE, arrival |-> FALSE, removal |-> device]
  /\ inbound' = Returned(inbound) /\ outbound' = Returned(outbound)
  /\ UNCHANGED <<device, gone, connected, client, inBusy, outBusy, txLock, tx, writer,
                 writes, refused, overlooked, lostOut>>

\* The device has sent packets, or taken what was sent to it.
InCompletes ==
  /\ inbound = "host" /\ inbound' = "back"
  /\ UNCHANGED <<bus, device, gone, connected, client, inBusy, midiOut>>

OutCompletes ==
  /\ outbound = "host" /\ outbound' = "back"
  /\ UNCHANGED <<outBusy, txLock, tx, writer, writes, refused, overlooked, lostOut,
                 midiState>>
-----------------------------------------------------------------------------
(***************************************************************************)
(* The client task                                                         *)
(***************************************************************************)

\* NEW_DEV and open_device_ as far as tx_lock_: the device is not opened when one
\* is there, when it is no MIDI device, is in use, or memory is short; it may
\* have no OUT endpoint.
OpenDevice ==
  /\ client = "idle" /\ bus.arrival
  /\ bus' = [bus EXCEPT !.arrival = FALSE]
  /\ \/ UNCHANGED <<device, gone, client, inbound, outbound>>
     \/ /\ ~device /\ bus.plugged
        /\ device' = TRUE /\ gone' = FALSE
        /\ inbound' = "idle" /\ outbound' \in {"none", "idle"}
        /\ client' = "queue"
  /\ UNCHANGED <<connected, inBusy, outBusy, txLock, tx, writer, writes, refused,
                 overlooked, lostOut>>

\* Under tx_lock_ the queue is emptied.
OpenQueue ==
  /\ client = "queue" /\ txLock = Nobody
  /\ tx' = 0 /\ outBusy' = FALSE /\ client' = "start"
  /\ UNCHANGED <<bus, device, gone, connected, inbound, inBusy, outbound, txLock, writer,
                 writes, refused, overlooked, lostOut>>

\* The IN transfer starts, and the device counts as connected whether or not the
\* submit went well.
OpenStarts ==
  /\ client = "start"
  /\ \E ok \in {FALSE} \cup {bus.plugged} :
       /\ inbound' = IF ok THEN "host" ELSE inbound
       /\ inBusy' = ok
  /\ connected' = TRUE /\ client' = "idle"
  /\ UNCHANGED <<bus, device, gone, midiOut>>

\* DEV_GONE.
DeviceGone ==
  /\ client = "idle" /\ bus.removal
  /\ bus' = [bus EXCEPT !.removal = FALSE]
  /\ gone' = TRUE /\ connected' = FALSE /\ client' = "check"
  /\ UNCHANGED <<device, inbound, inBusy, midiOut>>

\* in_transfer_cb_: what came is pushed into the ring ...
InCallback ==
  /\ client = "idle" /\ inbound = "back"
  /\ inbound' = "idle" /\ inBusy' = FALSE /\ client' = "resubmit"
  /\ UNCHANGED <<bus, device, gone, connected, midiOut>>

\* ... and the transfer goes out again, unless the device is gone, the transfer
\* came back because of that, or the submit fails.
Resubmit ==
  /\ client = "resubmit"
  /\ \E ok \in {FALSE} \cup {bus.plugged} :
       /\ gone => ~ok
       /\ inbound' = IF ok THEN "host" ELSE inbound
       /\ inBusy' = ok
  /\ client' = "check"
  /\ UNCHANGED <<bus, device, gone, connected, midiOut>>

\* What is left of n queued packets when a transfer has been filled.
Rest(n) == IF n > OutMax THEN n - OutMax ELSE 0

\* Faulty variant: what was queued meanwhile is left for the next write.
OutCallbackStops ==
  /\ client = "idle" /\ outbound = "back" /\ txLock = Nobody
  /\ outBusy' = FALSE /\ outbound' = "idle" /\ client' = "check"
  /\ UNCHANGED <<bus, device, gone, connected, inbound, inBusy, tx, txLock, writer, writes,
                 refused, overlooked, lostOut>>

\* usb_host_transfer_submit of the OUT transfer, which may fail with the device there.
SubmitOut(ok) ==
  /\ ok => bus.plugged
  /\ outbound' = IF ok THEN "host" ELSE "idle"
  /\ refused' = (bus.plugged /\ ~ok)

\* out_transfer_cb_, under tx_lock_, with submit_out_locked_.
OutCallback ==
  /\ client = "idle" /\ outbound = "back" /\ txLock = Nobody
  /\ IF ~gone /\ tx > 0 /\ connected
     THEN \E ok \in BOOLEAN : SubmitOut(ok) /\ tx' = Rest(tx) /\ outBusy' = ok
     ELSE outBusy' = FALSE /\ outbound' = "idle" /\ UNCHANGED <<tx, refused>>
  /\ client' = "check"
  /\ UNCHANGED <<bus, device, gone, connected, inbound, inBusy, txLock, writer, writes,
                 overlooked, lostOut>>

\* A writer has submitted the OUT transfer and not stored that in out_busy_ yet.
Unstored(w) == writer[w].step = "submitted" /\ writer[w].sent

\* Faulty variant: an OUT transfer that is out is not waited for.
CheckIdleHalf ==
  /\ client = "check"
  /\ client' = IF gone /\ ~inBusy /\ device THEN "close" ELSE "idle"
  /\ UNCHANGED <<bus, device, gone, connected, inbound, inBusy, midiOut>>

\* close_if_idle_, after every callback and DEV_GONE: the test, which reads
\* out_busy_ without tx_lock_, ...
CheckIdle ==
  /\ client = "check"
  /\ LET idle == gone /\ ~inBusy /\ ~outBusy /\ device
     IN /\ client' = IF idle THEN "close" ELSE "idle"
        /\ overlooked' = (overlooked \/ (idle /\ \E w \in Writers : Unstored(w)))
  /\ UNCHANGED <<bus, device, gone, connected, inbound, inBusy, outbound, outBusy, txLock,
                 tx, writer, writes, refused, lostOut>>

\* ... and, once that is there, everything is freed.
CloseDevice ==
  /\ client = "close" /\ txLock = Nobody
  /\ lostOut' = (lostOut \/ outbound \in {"host", "back"})
  /\ outbound' = "none" /\ tx' = 0 /\ inbound' = "none"
  /\ device' = FALSE /\ gone' = FALSE /\ client' = "idle"
  /\ UNCHANGED <<bus, connected, inBusy, outBusy, txLock, writer, writes, refused,
                 overlooked>>
-----------------------------------------------------------------------------
(***************************************************************************)
(* write()                                                                 *)
(***************************************************************************)
WriterGoes(w, step) == writer' = [writer EXCEPT ![w].step = step]

\* connected_ is read before the lock is taken.
WriteBegins(w) ==
  /\ writer[w].step = "idle" /\ connected
  /\ writes < MaxWrites /\ writes' = writes + 1
  /\ WriterGoes(w, "lock")
  /\ UNCHANGED <<outbound, outBusy, txLock, tx, refused, overlooked, lostOut, midiState>>

\* Under the lock: refused when there is no OUT transfer or no room, else queued;
\* and submitted when nothing is out.
WriteQueues(w) ==
  /\ writer[w].step = "lock" /\ txLock = Nobody
  /\ IF outbound = "none" \/ tx = TxMax
     THEN WriterGoes(w, "idle") /\ UNCHANGED <<outbound, txLock, tx, refused>>
     ELSE IF outBusy \/ ~connected
     THEN WriterGoes(w, "idle") /\ tx' = tx + 1 /\ UNCHANGED <<outbound, txLock, refused>>
     ELSE \E ok \in BOOLEAN :
            /\ SubmitOut(ok)
            /\ txLock' = w /\ tx' = Rest(tx + 1)
            /\ writer' = [writer EXCEPT ![w] = [step |-> "submitted", sent |-> ok]]
  /\ UNCHANGED <<outBusy, writes, overlooked, lostOut, midiState>>

\* out_busy_ is stored once the submit has returned, and the lock given back.
WriteEnds(w) ==
  /\ writer[w].step = "submitted"
  /\ outBusy' = writer[w].sent
  /\ txLock' = Nobody
  /\ writer' = [writer EXCEPT ![w] = NotWriting]
  /\ UNCHANGED <<outbound, tx, writes, refused, overlooked, lostOut, midiState>>
-----------------------------------------------------------------------------
Client ==
  \/ OpenDevice \/ OpenQueue \/ OpenStarts \/ DeviceGone
  \/ InCallback \/ Resubmit \/ OutCallback \/ CheckIdle \/ CloseDevice

Write(w) == WriteBegins(w) \/ WriteQueues(w) \/ WriteEnds(w)
Host == Plug \/ Unplug \/ InCompletes \/ OutCompletes

MidiNext == Client \/ (\E w \in Writers : Write(w)) \/ Host

MidiSpec == MidiInit /\ [][MidiNext]_midiVars

\* The client task goes on and handles its events in the order they come, so that
\* each has its turn; begun writes go on; the device takes what is sent to it.
MidiFairness ==
  /\ WF_midiVars(Client) /\ SF_midiVars(DeviceGone) /\ SF_midiVars(OutCallback)
  /\ WF_midiVars(OutCompletes)
  /\ \A w \in Writers : WF_midiVars(WriteQueues(w)) /\ WF_midiVars(WriteEnds(w))
-----------------------------------------------------------------------------
MidiTypeOK ==
  /\ bus \in [plugged : BOOLEAN, arrival : BOOLEAN, removal : BOOLEAN]
  /\ {device, gone, connected, inBusy, outBusy} \subseteq BOOLEAN
  /\ {refused, overlooked, lostOut} \subseteq BOOLEAN
  /\ client \in {"idle", "queue", "start", "resubmit", "check", "close"}
  /\ {inbound, outbound} \subseteq {"none", "idle", "host", "back"}
  /\ txLock \in Writers \cup {Nobody} /\ tx \in 0 .. TxMax
  /\ writer \in [Writers -> [step : {"idle", "lock", "submitted"}, sent : BOOLEAN]]
  /\ writes \in 0 .. MaxWrites

\* "Frees everything once the device is gone and no transfer is still with the
\* host stack" (usb_midi.cpp:190): a transfer that is freed has always come back, unless
\* out_busy_ was read in the moment between a writer's submit and its store.
FreedIsBack ==
  /\ ~device => ~inBusy
  /\ lostOut => overlooked

\* A device that was pulled is closed, so that the next one can be opened.
PulledIsClosed == (device /\ ~bus.plugged) ~> ~device

\* What is queued while a transfer is out is sent when that comes back, without
\* another write, unless the device is pulled or a submit fails: after that it waits
\* for the next write.
QueuedIsSent ==
  (tx > 0 /\ connected /\ outbound \in {"host", "back"})
    ~> (tx = 0 \/ ~bus.plugged \/ refused)

MidiGoesOn == PulledIsClosed /\ QueuedIsSent
=============================================================================
