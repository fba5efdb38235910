------------------------------- MODULE MidiRing -------------------------------
(***************************************************************************)
(* The ring of received MIDI bytes (usb_midi.cpp): filled by the client    *)
(* task, emptied by read() on another task, both without a lock.           *)
(*                                                                         *)
(* The client task writes the bytes of a message and then stores rx_head_; *)
(* opening a device stores 0 in rx_head_ and then in rx_tail_.  read()     *)
(* loads rx_tail_ and rx_head_, copies and stores rx_tail_.                *)
(***************************************************************************)
EXTENDS Integers, Sequences

CONSTANTS
  RxSize,       \* RX_BUFFER_SIZE
  MaxMessages   \* bound: messages the devices send

ASSUME RingAssumption == RxSize \in Nat \ {0, 1} /\ MaxMessages \in Nat

VARIABLES
  rx,      \* rx_, rx_head_ and rx_tail_
  pusher,  \* where the client task is: "none" has no device yet
  reader,  \* where read() is, what it has loaded and copied
  sent,    \* history: messages the devices have sent
  last,    \* history: the last byte read
  raced    \* history: the ring was reset under a read

ringVars == <<rx, pusher, reader, sent, last, raced>>

\* A byte of the stream: byte i of the n bytes of message m.
Byte   == [m : 1 .. MaxMessages, i : 1 .. 3, n : 1 .. 3]
NoByte == [m |-> 0, i |-> 1, n |-> 1]
Places == 0 .. RxSize - 1
NotReading == [step |-> "idle", tail |-> 0, head |-> 0, got |-> <<>>]

RingInit ==
  /\ rx = [cell |-> [k \in Places |-> NoByte], head |-> 0, tail |-> 0]
  /\ pusher = [step |-> "none", head |-> 0]
  /\ reader = NotReading
  /\ sent = 0 /\ last = NoByte /\ raced = FALSE
-----------------------------------------------------------------------------
(***************************************************************************)
(* The client task                                                         *)
(***************************************************************************)

\* open_device_ stores rx_head_ ...
ResetHead ==
  /\ pusher.step \in {"none", "idle"}
  /\ rx' = [rx EXCEPT !.head = 0]
  /\ pusher' = [pusher EXCEPT !.step = "reset"]
  /\ raced' = (raced \/ reader.step # "idle")
  /\ UNCHANGED <<reader, sent, last>>

\* ... and rx_tail_.  What was not read of the device before is forgotten.
ResetTail ==
  /\ pusher.step = "reset"
  /\ rx' = [rx EXCEPT !.tail = 0]
  /\ pusher' = [pusher EXCEPT !.step = "idle"]
  /\ raced' = (reader.step # "idle")
  /\ last' = [last EXCEPT !.i = 1, !.n = 1]
  /\ UNCHANGED <<reader, sent>>

\* The places from one to another, those that are free, and the ring with n bytes
\* of message m put from rx_head_ on.
Ahead(from, to) == (to - from + RxSize) % RxSize
Room == RxSize - 1 - Ahead(rx.tail, rx.head)

Filled(m, n) ==
  [k \in Places |->
     LET i == Ahead(rx.head, k) + 1
     IN IF i <= n THEN [m |-> m, i |-> i, n |-> n] ELSE rx.cell[k]]

\* Faulty variant: one place too many is counted as free.
PushOverfills(n) ==
  /\ pusher.step = "idle"
  /\ sent < MaxMessages /\ sent' = sent + 1
  /\ IF n > Room + 1
     THEN UNCHANGED <<rx, pusher>>
     ELSE /\ pusher' = [step |-> "push", head |-> (rx.head + n) % RxSize]
          /\ rx' = [rx EXCEPT !.cell = Filled(sent', n)]
  /\ UNCHANGED <<reader, last, raced>>

\* push_packet_ up to the bytes; a message that does not fit is dropped.
Push(n) ==
  /\ pusher.step = "idle"
  /\ sent < MaxMessages /\ sent' = sent + 1
  /\ IF n > Room
     THEN UNCHANGED <<rx, pusher>>
     ELSE /\ pusher' = [step |-> "push", head |-> (rx.head + n) % RxSize]
          /\ rx' = [rx EXCEPT !.cell = Filled(sent', n)]
  /\ UNCHANGED <<reader, last, raced>>

\* rx_head_ is stored after the bytes.
Pushed ==
  /\ pusher.step = "push"
  /\ rx' = [rx EXCEPT !.head = pusher.head]
  /\ pusher' = [pusher EXCEPT !.step = "idle"]
  /\ UNCHANGED <<reader, sent, last, raced>>
-----------------------------------------------------------------------------
(***************************************************************************)
(* read()                                                                  *)
(***************************************************************************)

\* rx_tail_ is loaded, ...
ReadTail ==
  /\ reader.step = "idle"
  /\ reader' = [reader EXCEPT !.step = "tail", !.tail = rx.tail]
  /\ raced' = (raced \/ pusher.step = "reset")
  /\ UNCHANGED <<rx, pusher, sent, last>>

\* ... then rx_head_, ...
ReadHead ==
  /\ reader.step = "tail"
  /\ reader' = [reader EXCEPT !.step = "head", !.head = rx.head]
  /\ UNCHANGED <<rx, pusher, sent, last, raced>>

\* ... what lies between them is copied, or as much as the caller has room for, ...
Between(tail, head) ==
  [k \in 1 .. Ahead(tail, head) |-> rx.cell[(tail + k - 1) % RxSize]]

ReadCopies ==
  /\ reader.step = "head"
  /\ LET all == Between(reader.tail, reader.head)
     IN \E len \in 0 .. Len(all) :
          reader' = [reader EXCEPT !.step = "copied", !.got = SubSeq(all, 1, len)]
  /\ UNCHANGED <<rx, pusher, sent, last, raced>>

\* ... and rx_tail_ is stored.
NextTail == (reader.tail + Len(reader.got)) % RxSize

ReadEnds ==
  /\ reader.step = "copied"
  /\ rx' = [rx EXCEPT !.tail = NextTail]
  /\ last' = IF raced \/ reader.got = <<>> THEN last ELSE reader.got[Len(reader.got)]
  /\ reader' = NotReading
  /\ UNCHANGED <<pusher, sent, raced>>
-----------------------------------------------------------------------------
RingNext ==
  \/ ResetHead \/ ResetTail \/ (\E n \in 1 .. 3 : Push(n)) \/ Pushed
  \/ ReadTail \/ ReadHead \/ ReadCopies \/ ReadEnds

RingSpec == RingInit /\ [][RingNext]_ringVars
-----------------------------------------------------------------------------
RingTypeOK ==
  /\ rx \in [cell : [Places -> Byte \cup {NoByte}], head : Places, tail : Places]
  /\ pusher \in [step : {"none", "reset", "idle", "push"}, head : Places]
  /\ reader \in [step : {"idle", "tail", "head", "copied"}, tail : Places, head : Places,
                 got : Seq(Byte \cup {NoByte})]
  /\ sent \in 0 .. MaxMessages /\ raced \in BOOLEAN

Follows(b, c) ==
  IF b.i < b.n THEN c = [b EXCEPT !.i = b.i + 1] ELSE c.i = 1 /\ c.m > b.m

\* "A full ring drops the message rather than splitting it", and a reader gets
\* the bytes that came, in order and once: what was read, what read() has copied
\* and what is in the ring are whole messages one after the other.  A device that
\* is opened while a read is on resets the ring under it; from then until the
\* next reset outside a read nothing is promised.
StreamWhole ==
  LET tail == IF reader.step = "copied" THEN NextTail ELSE rx.tail
      all  == <<last>> \o reader.got \o Between(tail, rx.head)
  IN ~raced /\ pusher.step # "reset" =>
       /\ \A k \in 1 .. Len(all) - 1 : Follows(all[k], all[k + 1])
       /\ all[Len(all)].i = all[Len(all)].n
=============================================================================
