------------------------------ MODULE UsbProofs ------------------------------
(***************************************************************************)
(* Proofs about the USB components: the MIDI transfers and the ring of     *)
(* what is received, the sticks, and the queue of keyboard events.         *)
(***************************************************************************)
EXTENDS UsbMidi, MidiRing, UsbMsc, Keys, TLAPS

(***************************************************************************)
(* The transfers of a MIDI device                                          *)
(***************************************************************************)

\* A device that is gone is not connected, so that no write submits between the
\* test of close_if_idle_ and the freeing.
Closing ==
  /\ gone => ~connected
  /\ ~device => ~connected /\ outbound = "none"
  /\ client \in {"queue", "start"} =>
       device /\ ~gone /\ ~connected /\ outbound \notin {"host", "back"}
  /\ client = "resubmit" => device
  /\ client = "close" => gone /\ device /\ ~inBusy
  /\ client = "close" /\ outbound \in {"host", "back"} => overlooked
  /\ inbound # "none" => device

\* out_busy_ says that a transfer is out, or a writer that holds the lock is about to
\* store it.
OutIsKnown ==
  /\ outbound \in {"host", "back"} => outBusy \/ \E w \in Writers : Unstored(w)
  /\ \A w \in Writers : writer[w].step = "submitted" =>
       txLock = w /\ (writer[w].sent <=> outbound \in {"host", "back"})

MidiIInv == MidiTypeOK /\ Closing /\ OutIsKnown /\ FreedIsBack
-----------------------------------------------------------------------------
\* The range of every variable, the queue never longer than TX_BUFFER_SIZE allows.
LEMMA MidiTypes == ASSUME MidiTypeOK, [MidiNext]_midiVars PROVE MidiTypeOK'
<1>. USE MidiAssumption DEF MidiTypeOK
<1>1. CASE Plug
  BY <1>1 DEF Plug, midiOut
<1>2. CASE Unplug
  BY <1>2 DEF Unplug, Returned
<1>3. CASE InCompletes
  BY <1>3 DEF InCompletes, midiOut
<1>4. CASE OutCompletes
  BY <1>4 DEF OutCompletes, midiState
<1>5. CASE OpenDevice
  BY <1>5 DEF OpenDevice
<1>6. CASE OpenQueue
  <2>1. tx' = 0 /\ outBusy' = FALSE /\ client' = "start" /\ 0 \in 0 .. TxMax
    BY <1>6 DEF OpenQueue
  <2>. QED BY <1>6, <2>1 DEF OpenQueue
<1>7. CASE OpenStarts
  BY <1>7 DEF OpenStarts, midiOut
<1>8. CASE DeviceGone
  BY <1>8 DEF DeviceGone, midiOut
<1>9. CASE InCallback
  BY <1>9 DEF InCallback, midiOut
<1>10. CASE Resubmit
  BY <1>10 DEF Resubmit, midiOut
<1>11. CASE OutCallback
  <2>1. tx' \in 0 .. TxMax
    BY <1>11 DEF OutCallback, Rest
  <2>2. outBusy' \in BOOLEAN /\ refused' \in BOOLEAN
    BY <1>11, Zenon DEF OutCallback, SubmitOut
  <2>3. outbound' \in {"host", "idle"} /\ client' = "check"
    BY <1>11 DEF OutCallback, SubmitOut
  <2>4. UNCHANGED <<bus, device, gone, connected, inbound, inBusy, txLock, writer, writes,
                    overlooked, lostOut>>
    BY <1>11 DEF OutCallback
  <2>. QED BY <2>1, <2>2, <2>3, <2>4
<1>12. CASE CheckIdle
  BY <1>12 DEF CheckIdle
<1>13. CASE CloseDevice
  <2>1. /\ tx' \in 0 .. TxMax /\ lostOut' \in BOOLEAN /\ outbound' = "none" /\ inbound' = "none"
        /\ device' = FALSE /\ gone' = FALSE /\ client' = "idle"
    BY <1>13 DEF CloseDevice
  <2>. QED BY <1>13, <2>1 DEF CloseDevice
<1>14. ASSUME NEW w \in Writers, WriteBegins(w) PROVE MidiTypeOK'
  BY <1>14 DEF WriteBegins, WriterGoes, midiState
<1>15. ASSUME NEW w \in Writers, WriteQueues(w) PROVE MidiTypeOK'
  <2>1. tx' \in 0 .. TxMax /\ txLock' \in Writers \cup {Nobody}
    BY <1>15 DEF WriteQueues, Rest
  <2>2. refused' \in BOOLEAN
    BY <1>15, Zenon DEF WriteQueues, SubmitOut
  <2>3. outbound' \in {"none", "idle", "host", "back"}
    BY <1>15 DEF WriteQueues, SubmitOut
  <2>4. writer' \in [Writers -> [step : {"idle", "lock", "submitted"}, sent : BOOLEAN]]
    BY <1>15 DEF WriteQueues, WriterGoes
  <2>5. UNCHANGED <<bus, device, gone, connected, client, inbound, inBusy, outBusy, writes,
                    overlooked, lostOut>>
    BY <1>15 DEF WriteQueues, midiState
  <2>. QED BY <2>1, <2>2, <2>3, <2>4, <2>5
<1>16. ASSUME NEW w \in Writers, WriteEnds(w) PROVE MidiTypeOK'
  BY <1>16 DEF WriteEnds, NotWriting, midiState
<1>17. CASE UNCHANGED midiVars
  BY <1>17 DEF midiVars, midiState, midiOut
<1>. QED
  BY <1>1, <1>2, <1>3, <1>4, <1>5, <1>6, <1>7, <1>8, <1>9, <1>10, <1>11, <1>12, <1>13, <1>14, <1>15, <1>16, <1>17
     DEF MidiNext, Client, Write, Host

LEMMA InitMidi == MidiInit => MidiIInv
<1>. SUFFICES ASSUME MidiInit PROVE MidiIInv
  OBVIOUS
<1>1. MidiTypeOK
  <2>1. tx \in 0 .. TxMax /\ writes \in 0 .. MaxWrites
    BY MidiAssumption DEF MidiInit
  <2>2. writer \in [Writers -> [step : {"idle", "lock", "submitted"}, sent : BOOLEAN]]
    BY DEF MidiInit, NotWriting
  <2>. QED BY <2>1, <2>2 DEF MidiInit, MidiTypeOK
<1>. QED BY <1>1 DEF MidiInit, MidiIInv, Closing, OutIsKnown, FreedIsBack, NotWriting

\* A step that leaves the OUT transfer, its flag and the writers alone.
LEMMA OutKept ==
  ASSUME OutIsKnown, UNCHANGED <<outBusy, txLock, writer>>,
         outbound' \in {"host", "back"} <=> outbound \in {"host", "back"}
  PROVE  OutIsKnown'
BY DEF OutIsKnown, Unstored

LEMMA NextMidi == ASSUME MidiIInv, [MidiNext]_midiVars PROVE MidiIInv'
<1>. MidiTypeOK'
  BY MidiTypes DEF MidiIInv
<1> USE DEF MidiIInv
<1>1. CASE Plug
  BY <1>1, OutKept DEF Plug, midiOut, Closing, FreedIsBack
<1>2. CASE Unplug
  <2>1. outbound' \in {"host", "back"} <=> outbound \in {"host", "back"}
    BY <1>2 DEF Unplug, Returned
  <2>. QED BY <1>2, <2>1, OutKept DEF Unplug, Returned, Closing, FreedIsBack
<1>3. CASE InCompletes
  BY <1>3, OutKept DEF InCompletes, midiOut, Closing, FreedIsBack
<1>4. CASE OutCompletes
  BY <1>4, OutKept DEF OutCompletes, midiState, Closing, FreedIsBack
<1>5. CASE OpenDevice
  <2>1. outbound' \in {"host", "back"} <=> outbound \in {"host", "back"}
    BY <1>5 DEF OpenDevice, Closing
  <2>. QED BY <1>5, <2>1, OutKept DEF OpenDevice, Closing, FreedIsBack
<1>6. CASE OpenQueue
  <2>1. OutIsKnown'
    BY <1>6 DEF OpenQueue, OutIsKnown, Closing
  <2>. QED BY <1>6, <2>1 DEF OpenQueue, Closing, FreedIsBack
<1>7. CASE OpenStarts
  BY <1>7, OutKept DEF OpenStarts, midiOut, Closing, FreedIsBack
<1>8. CASE DeviceGone
  BY <1>8, OutKept DEF DeviceGone, midiOut, Closing, FreedIsBack
<1>9. CASE InCallback
  BY <1>9, OutKept DEF InCallback, midiOut, Closing, FreedIsBack
<1>10. CASE Resubmit
  BY <1>10, OutKept DEF Resubmit, midiOut, Closing, FreedIsBack
<1>11. CASE OutCallback
  <2>1. \A w \in Writers : writer[w].step # "submitted"
    BY <1>11, MidiAssumption DEF OutCallback, OutIsKnown
  <2>2. outbound' \in {"host", "back"} => outBusy'
    BY <1>11 DEF OutCallback, SubmitOut
  <2>3. OutIsKnown'
    BY <1>11, <2>1, <2>2 DEF OutCallback, OutIsKnown
  <2>4. outbound' \in {"host", "idle"} /\ device
    BY <1>11 DEF OutCallback, SubmitOut, Closing
  <2>. QED BY <1>11, <2>3, <2>4 DEF OutCallback, Closing, FreedIsBack
<1>12. CASE CheckIdle
  <2>1. OutIsKnown'
    BY <1>12, OutKept DEF CheckIdle
  <2>2. client' = "close" /\ outbound \in {"host", "back"} => overlooked'
    BY <1>12 DEF CheckIdle, OutIsKnown
  <2>. QED BY <1>12, <2>1, <2>2 DEF CheckIdle, Closing, FreedIsBack
<1>13. CASE CloseDevice
  <2>1. \A w \in Writers : writer[w].step # "submitted"
    BY <1>13, MidiAssumption DEF CloseDevice, OutIsKnown
  <2>2. OutIsKnown'
    BY <1>13, <2>1 DEF CloseDevice, OutIsKnown
  <2>. QED BY <1>13, <2>2 DEF CloseDevice, Closing, FreedIsBack
<1>14. ASSUME NEW w \in Writers, WriteBegins(w) PROVE MidiIInv'
  <2>1. \A v \in Writers : writer'[v].step = "submitted" => writer'[v] = writer[v]
    BY <1>14 DEF WriteBegins, WriterGoes, MidiTypeOK
  <2>2. \A v \in Writers : writer[v].step = "submitted" => writer'[v] = writer[v]
    BY <1>14 DEF WriteBegins, WriterGoes, MidiTypeOK
  <2>3. OutIsKnown'
    BY <1>14, <2>1, <2>2 DEF WriteBegins, OutIsKnown, Unstored
  <2>. QED BY <1>14, <2>3 DEF WriteBegins, midiState, Closing, FreedIsBack
<1>15. ASSUME NEW w \in Writers, WriteQueues(w) PROVE MidiIInv'
  <2>1. \A v \in Writers : writer[v].step # "submitted"
    BY <1>15, MidiAssumption DEF WriteQueues, OutIsKnown
  <2>2. CASE UNCHANGED <<outbound, txLock>> /\ writer' = [writer EXCEPT ![w].step = "idle"]
    <3>1. \A v \in Writers : writer'[v].step # "submitted"
      BY <2>1, <2>2 DEF MidiTypeOK
    <3>2. OutIsKnown'
      BY <1>15, <2>1, <2>2, <3>1 DEF WriteQueues, OutIsKnown, Unstored
    <3>. QED BY <1>15, <2>2, <3>2 DEF WriteQueues, midiState, Closing, FreedIsBack
  <2>3. ASSUME NEW ok \in BOOLEAN, SubmitOut(ok), connected, outbound # "none", txLock' = w,
               writer' = [writer EXCEPT ![w] = [step |-> "submitted", sent |-> ok]]
        PROVE  MidiIInv'
    <3>1. /\ writer'[w].step = "submitted" /\ (writer'[w].sent <=> ok)
          /\ \A v \in Writers \ {w} : writer'[v].step # "submitted"
      BY <2>1, <2>3 DEF MidiTypeOK
    <3>2. (outbound' \in {"host", "back"} <=> ok) /\ outbound' # "none"
      BY <2>3 DEF SubmitOut
    <3>3. OutIsKnown'
      BY <2>3, <3>1, <3>2 DEF OutIsKnown, Unstored
    <3>4. UNCHANGED <<device, gone, connected, client, inbound, inBusy, overlooked, lostOut>>
      BY <1>15 DEF WriteQueues, midiState
    <3>. QED BY <2>3, <3>2, <3>3, <3>4 DEF Closing, FreedIsBack
  <2>. QED BY <1>15, <2>2, <2>3 DEF WriteQueues, WriterGoes
<1>16. ASSUME NEW w \in Writers, WriteEnds(w) PROVE MidiIInv'
  <2>1. /\ txLock = w /\ (writer[w].sent <=> outbound \in {"host", "back"})
        /\ \A v \in Writers \ {w} : writer[v].step # "submitted"
    BY <1>16 DEF WriteEnds, OutIsKnown
  <2>2. \A v \in Writers : writer'[v].step # "submitted"
    BY <1>16, <2>1 DEF WriteEnds, NotWriting, MidiTypeOK
  <2>3. OutIsKnown'
    BY <1>16, <2>1, <2>2 DEF WriteEnds, OutIsKnown, Unstored
  <2>. QED BY <1>16, <2>3 DEF WriteEnds, midiState, Closing, FreedIsBack
<1>17. CASE UNCHANGED midiVars
  BY <1>17, OutKept DEF midiVars, midiState, midiOut, Closing, FreedIsBack
<1>. QED
  BY <1>1, <1>2, <1>3, <1>4, <1>5, <1>6, <1>7, <1>8, <1>9, <1>10, <1>11, <1>12, <1>13, <1>14, <1>15, <1>16, <1>17
     DEF MidiNext, Client, Write, Host
-----------------------------------------------------------------------------
\* A USB transfer that is freed has come back from the host stack, with the one
\* exception of a submit that the test of close_if_idle_ runs into.
THEOREM FreedTransfersAreBack == MidiSpec => []FreedIsBack
<1>1. MidiIInv /\ [MidiNext]_midiVars => MidiIInv'
  BY NextMidi
<1>2. MidiIInv => FreedIsBack
  BY DEF MidiIInv
<1>. QED BY InitMidi, <1>1, <1>2, PTL DEF MidiSpec
-----------------------------------------------------------------------------
(***************************************************************************)
(* A circle of N places: how far it is from one place to another, and the  *)
(* place of the k-th element from a place on.                              *)
(***************************************************************************)
Dist(N, from, to) == (to - from + N) % N
Nth(N, from, k) == (from + k - 1) % N

LEMMA DistIs ==
  ASSUME NEW N \in Nat \ {0}, NEW t \in 0 .. N - 1, NEW h \in 0 .. N - 1
  PROVE  /\ Dist(N, t, h) = IF h >= t THEN h - t ELSE h - t + N
         /\ Dist(N, t, h) \in 0 .. N - 1
  BY DEF Dist

LEMMA NthIs ==
  ASSUME NEW N \in Nat \ {0}, NEW t \in 0 .. N - 1, NEW k \in 1 .. N
  PROVE  /\ Nth(N, t, k) = IF t + k - 1 < N THEN t + k - 1 ELSE t + k - 1 - N
         /\ Nth(N, t, k) \in 0 .. N - 1
  BY DEF Nth

LEMMA PlusIs ==
  ASSUME NEW N \in Nat \ {0}, NEW t \in 0 .. N - 1, NEW n \in 0 .. N
  PROVE  /\ (t + n) % N = IF t + n < N THEN t + n ELSE t + n - N
         /\ (t + n) % N \in 0 .. N - 1
  OBVIOUS

\* The first n elements are passed: the others are as they were.
LEMMA Passed ==
  ASSUME NEW N \in Nat \ {0}, NEW t \in 0 .. N - 1, NEW h \in 0 .. N - 1,
         NEW n \in 0 .. Dist(N, t, h)
  PROVE  /\ (t + n) % N \in 0 .. N - 1
         /\ Dist(N, (t + n) % N, h) = Dist(N, t, h) - n
         /\ \A k \in 1 .. N - n : Nth(N, (t + n) % N, k) = Nth(N, t, n + k)
<1>. DEFINE d == Dist(N, t, h)
            u == (t + n) % N
<1>1. d \in 0 .. N - 1 /\ d = IF h >= t THEN h - t ELSE h - t + N
  BY DistIs
<1>. n \in 0 .. d
  OBVIOUS
<1>. HIDE DEF d
<1>. n \in 0 .. N
  BY <1>1
<1>2. u \in 0 .. N - 1 /\ u = IF t + n < N THEN t + n ELSE t + n - N
  BY PlusIs
<1>. HIDE DEF u
<1>3. Dist(N, u, h) = IF h >= u THEN h - u ELSE h - u + N
  BY <1>2, DistIs
<1>4. ASSUME NEW k \in 1 .. N - n PROVE Nth(N, u, k) = Nth(N, t, n + k)
  <2>1. Nth(N, u, k) = IF u + k - 1 < N THEN u + k - 1 ELSE u + k - 1 - N
    BY <1>1, <1>2, NthIs
  <2>. DEFINE l == n + k
  <2>2. l \in 1 .. N
    BY <1>1
  <2>. HIDE DEF l
  <2>3. Nth(N, t, l) = IF t + l - 1 < N THEN t + l - 1 ELSE t + l - 1 - N
    BY <2>2, NthIs
  <2>. QED BY <1>1, <1>2, <2>1, <2>3 DEF l
<1>5. Dist(N, u, h) = d - n
  BY <1>1, <1>2, <1>3
<1>. QED BY <1>2, <1>4, <1>5 DEF d, u

\* There is room for n more: what is there lies out of their way.
LEMMA RoomForMore ==
  ASSUME NEW N \in Nat \ {0}, NEW t \in 0 .. N - 1, NEW h \in 0 .. N - 1, NEW n \in Nat,
         Dist(N, t, h) + n <= N - 1
  PROVE  /\ (h + n) % N \in 0 .. N - 1
         /\ Dist(N, t, (h + n) % N) = Dist(N, t, h) + n
         /\ \A k \in 1 .. Dist(N, t, h) : Dist(N, h, Nth(N, t, k)) >= n
         /\ \A k \in 1 .. n : Dist(N, h, Nth(N, t, Dist(N, t, h) + k)) = k - 1
<1>. DEFINE d == Dist(N, t, h)
            u == (h + n) % N
<1>1. d \in 0 .. N - 1 /\ d = IF h >= t THEN h - t ELSE h - t + N
  BY DistIs
<1>. d + n <= N - 1
  OBVIOUS
<1>. HIDE DEF d
<1>. n \in 0 .. N
  BY <1>1
<1>2. u \in 0 .. N - 1 /\ u = IF h + n < N THEN h + n ELSE h + n - N
  BY PlusIs
<1>. HIDE DEF u
<1>3. Dist(N, t, u) = IF u >= t THEN u - t ELSE u - t + N
  BY <1>2, DistIs
<1>4. ASSUME NEW l \in 1 .. d + n
      PROVE  /\ l <= d => Dist(N, h, Nth(N, t, l)) >= n
             /\ l > d => Dist(N, h, Nth(N, t, l)) = l - d - 1
  <2>. DEFINE p == Nth(N, t, l)
  <2>1. l \in 1 .. N
    BY <1>1
  <2>2. p \in 0 .. N - 1 /\ p = IF t + l - 1 < N THEN t + l - 1 ELSE t + l - 1 - N
    BY <2>1, NthIs
  <2>. HIDE DEF p
  <2>3. Dist(N, h, p) = IF p >= h THEN p - h ELSE p - h + N
    BY <2>2, DistIs
  <2>4. Dist(N, h, p) >= n \/ l > d
    BY <1>1, <2>1, <2>2, <2>3
  <2>5. Dist(N, h, p) = l - d - 1 \/ l <= d
    BY <1>1, <2>1, <2>2, <2>3
  <2>. QED BY <1>1, <2>4, <2>5 DEF p
<1>5. \A k \in 1 .. d : Dist(N, h, Nth(N, t, k)) >= n
  BY <1>1, <1>4
<1>6. \A k \in 1 .. n : Dist(N, h, Nth(N, t, d + k)) = k - 1
  BY <1>1, <1>4
<1>. QED BY <1>1, <1>2, <1>3, <1>5, <1>6 DEF d, u
-----------------------------------------------------------------------------
(***************************************************************************)
(* Keyboard events                                                         *)
(***************************************************************************)

\* The ring holds what is pending, place by place, and after a launch only events
\* that were tested under it, or one that came late.
QueueHolds(q, events) ==
  /\ Len(events) = Dist(QueueSize, q.tail, q.head)
  /\ \A k \in 1 .. Len(events) : events[k] = q.cell[Nth(QueueSize, q.tail, k)]

AllOf(events, r) == \A k \in 1 .. Len(events) : events[k].run = r

KeysIInv ==
  /\ KeysTypeOK
  /\ QueueHolds(queue, pending)
  /\ typist.step = "put" => typist.event \in KeyEvent
  /\ typist.step = "test" => typist.event.tap \in 1 .. MaxTaps
  /\ keysFor = "starting" => run < MaxRuns
  /\ keysFor \in {"loading", "running"} /\ ~late => AllOf(pending, run)

Tested == [tap : 0 .. MaxTaps, down : BOOLEAN, run : 0 .. MaxRuns, running : BOOLEAN]
Ring == [cell : [QueuePlaces -> KeyEvent \cup {NoKey}], head : QueuePlaces, tail : QueuePlaces]

\* The oldest event is taken from a ring that is not empty.
LEMMA HoldsTail ==
  ASSUME NEW q \in Ring, NEW events \in Seq(KeyEvent), QueueHolds(q, events), q.head # q.tail
  PROVE  /\ Len(events) > 0 /\ Tail(events) \in Seq(KeyEvent)
         /\ NextPlace(q.tail) \in QueuePlaces
         /\ QueueHolds([q EXCEPT !.tail = NextPlace(q.tail)], Tail(events))
         /\ Dist(QueueSize, NextPlace(q.tail), q.head) = Dist(QueueSize, q.tail, q.head) - 1
         /\ \A r \in 0 .. MaxRuns : AllOf(events, r) => AllOf(Tail(events), r)
<1>. DEFINE N == QueueSize
            t == q.tail
            h == q.head
            u == NextPlace(t)
            rest == Tail(events)
<1>1. N \in Nat \ {0} /\ t \in 0 .. N - 1 /\ h \in 0 .. N - 1
  BY KeysAssumption DEF Ring, QueuePlaces
<1>2. Dist(N, t, h) >= 1 /\ Dist(N, t, h) \in 0 .. N - 1
  <2>1. t # h
    OBVIOUS
  <2>. HIDE DEF N, t, h
  <2>2. /\ Dist(N, t, h) = IF h >= t THEN h - t ELSE h - t + N
        /\ Dist(N, t, h) \in 0 .. N - 1
    BY <1>1, DistIs
  <2>. QED BY <1>1, <2>1, <2>2
<1>3. 1 \in 0 .. Dist(N, t, h)
  BY <1>2
<1>4. /\ u \in 0 .. N - 1 /\ Dist(N, u, h) = Dist(N, t, h) - 1
      /\ \A k \in 1 .. N - 1 : Nth(N, u, k) = Nth(N, t, 1 + k)
  <2>. HIDE DEF N, t, h
  <2>. QED BY <1>1, <1>3, Passed DEF NextPlace, N
<1>5. Len(events) = Dist(N, t, h) /\ \A k \in 1 .. Len(events) : events[k] = q.cell[Nth(N, t, k)]
  BY DEF QueueHolds
<1>6. /\ rest \in Seq(KeyEvent) /\ Len(rest) = Len(events) - 1
      /\ \A k \in 1 .. Len(rest) : rest[k] = events[k + 1]
  BY <1>2, <1>5
<1>7. Len(rest) = Dist(N, u, h)
  BY <1>4, <1>5, <1>6
<1>8. ASSUME NEW k \in 1 .. Len(rest) PROVE rest[k] = q.cell[Nth(N, u, k)]
  <2>1. k \in 1 .. N - 1 /\ 1 + k \in 1 .. Len(events) /\ 1 + k = k + 1
    <3>. HIDE DEF N, rest, t, h
    <3>. QED BY <1>1, <1>2, <1>5, <1>6
  <2>. QED BY <2>1, <1>4, <1>5, <1>6
<1>9. QueueHolds([q EXCEPT !.tail = u], rest)
  <2>1. /\ [q EXCEPT !.tail = u].tail = u /\ [q EXCEPT !.tail = u].head = h
        /\ [q EXCEPT !.tail = u].cell = q.cell
    BY DEF Ring
  <2>. HIDE DEF u, rest, h
  <2>. QED BY <2>1, <1>7, <1>8 DEF QueueHolds
<1>10. ASSUME NEW r \in 0 .. MaxRuns, AllOf(events, r) PROVE AllOf(rest, r)
  <2>1. \A k \in 1 .. Len(rest) : k + 1 \in 1 .. Len(events)
    BY <1>2, <1>5, <1>6
  <2>. QED BY <1>10, <2>1, <1>6 DEF AllOf
<1>. QED BY <1>1, <1>2, <1>4, <1>5, <1>6, <1>9, <1>10 DEF QueuePlaces

\* An event is put into a ring that is not full.
LEMMA HoldsAppend ==
  ASSUME NEW q \in Ring, NEW events \in Seq(KeyEvent), NEW e \in KeyEvent, QueueHolds(q, events),
         Dist(QueueSize, q.tail, q.head) + 1 <= QueueSize - 1
  PROVE  /\ Append(events, e) \in Seq(KeyEvent) /\ NextPlace(q.head) \in QueuePlaces
         /\ QueueHolds([cell |-> [q.cell EXCEPT ![q.head] = e], head |-> NextPlace(q.head),
                   tail |-> q.tail], Append(events, e))
         /\ \A r \in 0 .. MaxRuns :
              AllOf(events, r) /\ e.run = r => AllOf(Append(events, e), r)
<1>. DEFINE N == QueueSize
            t == q.tail
            h == q.head
            u == NextPlace(h)
            more == Append(events, e)
            cell == [q.cell EXCEPT ![h] = e]
            d == Dist(N, t, h)
<1>1. N \in Nat \ {0} /\ t \in 0 .. N - 1 /\ h \in 0 .. N - 1
  BY KeysAssumption DEF Ring, QueuePlaces
<1>2. d \in 0 .. N - 1
  BY <1>1, DistIs
<1>3. /\ u \in 0 .. N - 1 /\ Dist(N, t, u) = d + 1
      /\ \A k \in 1 .. d : Dist(N, h, Nth(N, t, k)) >= 1
      /\ \A k \in 1 .. 1 : Dist(N, h, Nth(N, t, d + k)) = k - 1
  <2>. HIDE DEF N, t, h
  <2>. QED BY <1>1, RoomForMore DEF NextPlace, N, t, h
<1>4. Len(events) = d /\ \A k \in 1 .. Len(events) : events[k] = q.cell[Nth(N, t, k)]
  BY DEF QueueHolds
<1>5. \A k \in 1 .. d + 1 : Nth(N, t, k) \in 0 .. N - 1
  <2>. HIDE DEF N, t, h, d
  <2>1. \A k \in 1 .. d + 1 : k \in 1 .. N
    BY <1>1, <1>2
  <2>. QED BY <1>1, <2>1, NthIs
<1>6. \A p \in 0 .. N - 1 : Dist(N, h, p) = 0 => p = h
  <2>. HIDE DEF N, h
  <2>. TAKE p \in 0 .. N - 1
  <2>1. Dist(N, h, p) = IF p >= h THEN p - h ELSE p - h + N
    BY <1>1, DistIs
  <2>. QED BY <1>1, <2>1
<1>7. Nth(N, t, d + 1) = h /\ \A k \in 1 .. d : Nth(N, t, k) # h
  <2>1. Dist(N, h, h) = 0
    <3>. HIDE DEF N, h
    <3>. QED BY <1>1, DistIs
  <2>. HIDE DEF N, t, h, d
  <2>2. Dist(N, h, Nth(N, t, d + 1)) = 0 /\ d + 1 \in 1 .. d + 1
    BY <1>2, <1>3
  <2>3. ASSUME NEW k \in 1 .. d PROVE Nth(N, t, k) # h
    BY <1>2, <1>3, <2>1
  <2>. QED BY <2>2, <2>3, <1>5, <1>6
<1>8. /\ more \in Seq(KeyEvent) /\ Len(more) = d + 1 /\ more[d + 1] = e
      /\ \A k \in 1 .. d : more[k] = events[k]
  BY <1>4
<1>9. q.cell \in [0 .. N - 1 -> KeyEvent \cup {NoKey}]
  BY DEF Ring, QueuePlaces
<1>10. ASSUME NEW k \in 1 .. Len(more) PROVE more[k] = cell[Nth(N, t, k)]
  <2>1. CASE k = d + 1
    BY <2>1, <1>1, <1>7, <1>8, <1>9
  <2>2. CASE k # d + 1
    <3>1. k \in 1 .. d
      BY <2>2, <1>2, <1>8
    <3>. QED BY <3>1, <1>2, <1>4, <1>5, <1>7, <1>8, <1>9
  <2>. QED BY <2>1, <2>2
<1>11. QueueHolds([cell |-> cell, head |-> u, tail |-> t], more)
  <2>. HIDE DEF cell, u, t, more
  <2>. QED BY <1>3, <1>8, <1>10 DEF QueueHolds
<1>12. ASSUME NEW r \in 0 .. MaxRuns, AllOf(events, r), e.run = r PROVE AllOf(more, r)
  <2>1. \A k \in 1 .. Len(more) : k = d + 1 \/ k \in 1 .. Len(events)
    BY <1>2, <1>4, <1>8
  <2>. QED BY <1>12, <2>1, <1>4, <1>8 DEF AllOf
<1>. QED BY <1>1, <1>3, <1>8, <1>11, <1>12 DEF QueuePlaces

LEMMA InitKeys == KeysInit => KeysIInv
<1>. SUFFICES ASSUME KeysInit PROVE KeysIInv
  OBVIOUS
<1>. USE KeysAssumption DEF KeysInit
<1>1. KeysTypeOK
  <2>1. NoKey \in Tested
    BY DEF NoKey, Tested
  <2>2. 0 \in QueuePlaces
    BY DEF QueuePlaces
  <2>3. queue \in Ring
    BY <2>2 DEF Ring
  <2>4. typist \in [step : {"idle", "test", "put"}, event : Tested]
    BY <2>1
  <2>5. run \in 0 .. MaxRuns /\ taps \in 0 .. MaxTaps /\ pending \in Seq(KeyEvent)
    OBVIOUS
  <2>. QED BY <2>3, <2>4, <2>5 DEF KeysTypeOK, Ring, Tested
<1>2. Dist(QueueSize, 0, 0) = 0
  BY DistIs
<1>3. QueueHolds(queue, pending) /\ AllOf(pending, run)
  BY <1>2 DEF QueueHolds, AllOf
<1>. QED BY <1>1, <1>3 DEF KeysIInv

\* After an event comes the other one of the tap, or none.
LEMMA EventDoneTyped ==
  ASSUME KeysIInv, EventDone, typist.step # "idle"
  PROVE  /\ typist' \in [step : {"idle", "test", "put"},
                         event : [tap : 0 .. MaxTaps, down : BOOLEAN, run : 0 .. MaxRuns,
                                  running : BOOLEAN]]
         /\ typist'.step # "put" /\ (typist'.step = "test" => typist'.event.tap \in 1 .. MaxTaps)
<1>. USE KeysAssumption
<1>1. typist.event.tap \in 1 .. MaxTaps
  BY DEF KeysIInv, KeysTypeOK, KeyEvent
<1>2. NoKey \in Tested
  BY DEF NoKey, Tested
<1>3. typist.event \in Tested
  BY DEF KeysIInv, KeysTypeOK, Tested
<1>4. CASE typist.event.down
  <2>1. typist' = [step |-> "test", event |-> [typist.event EXCEPT !.down = FALSE]]
    BY <1>4 DEF EventDone
  <2>2. [typist.event EXCEPT !.down = FALSE] \in Tested
        /\ [typist.event EXCEPT !.down = FALSE].tap = typist.event.tap
    BY <1>3 DEF Tested
  <2>. QED BY <1>1, <2>1, <2>2 DEF Tested
<1>5. CASE ~typist.event.down
  <2>1. typist' = [step |-> "idle", event |-> NoKey]
    BY <1>5 DEF EventDone
  <2>. QED BY <1>2, <2>1 DEF Tested
<1>. QED BY <1>4, <1>5

LEMMA NextKeys == ASSUME KeysIInv, [KeysNext]_keysVars PROVE KeysIInv'
<1>. USE KeysAssumption
<1>1. CASE Tap
  <2>1. KeysTypeOK' /\ typist'.step = "test" /\ typist'.event.tap \in 1 .. MaxTaps
    <3>1. taps + 1 \in 1 .. MaxTaps /\ taps' = taps + 1
      BY <1>1 DEF Tap, KeysIInv, KeysTypeOK
    <3>2. typist'.step = "test" /\ typist'.event = [NoKey EXCEPT !.tap = taps + 1, !.down = TRUE]
      BY <1>1 DEF Tap
    <3>3. typist'.event \in Tested /\ typist'.event.tap = taps + 1
      <4>1. NoKey \in Tested
        BY DEF NoKey, Tested
      <4>2. taps + 1 \in 0 .. MaxTaps
        BY <3>1
      <4>. QED BY <3>2, <4>1, <4>2 DEF Tested
    <3>4. typist' \in [step : {"idle", "test", "put"}, event : Tested]
      BY <1>1, <3>2, <3>3 DEF Tap
    <3>. QED BY <1>1, <3>1, <3>2, <3>3, <3>4 DEF Tap, KeysIInv, KeysTypeOK, Tested
  <2>. QED BY <1>1, <2>1 DEF Tap, KeysIInv
<1>2. CASE TestLaunched
  <2>1. CASE keysFor = "none"
    <3>. EventDone
      BY <1>2, <2>1 DEF TestLaunched
    <3>1. KeysTypeOK' /\ typist'.step # "put"
          /\ (typist'.step = "test" => typist'.event.tap \in 1 .. MaxTaps)
      BY <1>2, EventDoneTyped DEF TestLaunched, KeysIInv, KeysTypeOK
    <3>. QED BY <1>2, <3>1 DEF TestLaunched, KeysIInv
  <2>2. CASE keysFor # "none"
    <3>1. KeysTypeOK' /\ typist'.step = "put" /\ typist'.event \in KeyEvent
      <4>. DEFINE e == [typist.event EXCEPT !.run = run, !.running = (keysFor = "running")]
      <4>1. typist.event \in Tested /\ typist.event.tap \in 1 .. MaxTaps /\ run \in 0 .. MaxRuns
        BY <1>2 DEF TestLaunched, KeysIInv, KeysTypeOK, Tested
      <4>2. (keysFor = "running") \in BOOLEAN
        OBVIOUS
      <4>3. e \in Tested /\ e \in KeyEvent
        BY <4>1, <4>2 DEF Tested, KeyEvent
      <4>4. typist' = [step |-> "put", event |-> e]
        BY <1>2, <2>2 DEF TestLaunched
      <4>5. typist' \in [step : {"idle", "test", "put"}, event : Tested]
        BY <4>3, <4>4
      <4>. QED BY <1>2, <4>3, <4>4, <4>5 DEF TestLaunched, KeysIInv, KeysTypeOK, Tested
    <3>. QED BY <1>2, <3>1 DEF TestLaunched, KeysIInv
  <2>. QED BY <2>1, <2>2
<1>3. CASE PutTimesOut
  <2>. EventDone
    BY <1>3 DEF PutTimesOut
  <2>1. KeysTypeOK' /\ typist'.step # "put"
        /\ (typist'.step = "test" => typist'.event.tap \in 1 .. MaxTaps)
    BY <1>3, EventDoneTyped DEF PutTimesOut, KeysIInv, KeysTypeOK
  <2>. QED BY <1>3, <2>1 DEF PutTimesOut, KeysIInv
<1>4. CASE Put
  <2>. DEFINE e == typist.event
              q == IF Full THEN [queue EXCEPT !.tail = NextPlace(queue.tail)] ELSE queue
              kept == Keep(pending)
              added == [cell |-> [q.cell EXCEPT ![q.head] = e], head |-> NextPlace(q.head),
                        tail |-> q.tail]
  <2>1. e \in KeyEvent /\ queue \in Ring /\ pending \in Seq(KeyEvent) /\ QueueHolds(queue, pending)
    BY <1>4 DEF Put, KeysIInv, KeysTypeOK, Ring
  <2>2. /\ q \in Ring /\ kept \in Seq(KeyEvent) /\ QueueHolds(q, kept)
        /\ Dist(QueueSize, q.tail, q.head) + 1 <= QueueSize - 1
        /\ \A r \in 0 .. MaxRuns : AllOf(pending, r) => AllOf(kept, r)
    <3>. DEFINE N == QueueSize
                t == queue.tail
                h == queue.head
                d == Dist(N, t, h)
    <3>1. /\ N \in Nat \ {0, 1} /\ t \in 0 .. N - 1 /\ h \in 0 .. N - 1
          /\ QueuePlaces = 0 .. N - 1
      BY <2>1 DEF Ring, QueuePlaces
    <3>. HIDE DEF N, t, h
    <3>2. d \in 0 .. N - 1 /\ d = IF h >= t THEN h - t ELSE h - t + N
      BY <3>1, DistIs
    <3>3. NextPlace(h) = IF h + 1 < N THEN h + 1 ELSE h + 1 - N
      <4>1. N \in Nat \ {0} /\ 1 \in 0 .. N
        BY <3>1
      <4>. QED BY <3>1, <4>1, PlusIs DEF NextPlace, N
    <3>4. CASE Full
      <4>1. h # t /\ d = N - 1
        BY <3>1, <3>2, <3>3, <3>4 DEF Full, h, t
      <4>2. q = [queue EXCEPT !.tail = NextPlace(t)] /\ kept = Tail(pending)
        BY <3>4 DEF Keep, t
      <4>3. /\ kept \in Seq(KeyEvent) /\ NextPlace(t) \in 0 .. N - 1 /\ QueueHolds(q, kept)
            /\ Dist(N, NextPlace(t), h) = d - 1
            /\ \A r \in 0 .. MaxRuns : AllOf(pending, r) => AllOf(kept, r)
        BY <2>1, <3>1, <4>1, <4>2, HoldsTail DEF N, h, t
      <4>4. q \in Ring /\ q.tail = NextPlace(t) /\ q.head = h
        BY <2>1, <3>1, <4>2, <4>3 DEF Ring, h
      <4>. HIDE DEF q, kept, d
      <4>. QED BY <3>1, <3>2, <4>1, <4>3, <4>4 DEF N
    <3>5. CASE ~Full
      <4>1. d + 1 <= N - 1
        BY <3>1, <3>2, <3>3, <3>5 DEF Full, h, t
      <4>. QED BY <2>1, <3>5, <4>1 DEF Keep, N, h, t
    <3>. QED BY <3>4, <3>5
  <2>3. q.head = queue.head /\ q.cell = queue.cell
        /\ q.tail = IF Full THEN NextPlace(queue.tail) ELSE queue.tail
    BY <2>1 DEF Ring
  <2>4. queue' = added /\ pending' = Append(kept, e) /\ late' = (late \/ e.run # run)
    <3>. HIDE DEF q
    <3>. QED BY <1>4, <2>3 DEF Put
  <2>. HIDE DEF q, kept
  <2>5. /\ pending' \in Seq(KeyEvent) /\ NextPlace(q.head) \in QueuePlaces
        /\ QueueHolds(added, Append(kept, e))
        /\ \A r \in 0 .. MaxRuns : AllOf(kept, r) /\ e.run = r => AllOf(Append(kept, e), r)
    <3>. HIDE DEF e
    <3>. QED BY <2>1, <2>2, <2>4, HoldsAppend
  <2>6. queue' \in Ring
    BY <2>1, <2>2, <2>4, <2>5 DEF Ring
  <2>7. KeysTypeOK' /\ typist'.step # "put"
        /\ (typist'.step = "test" => typist'.event.tap \in 1 .. MaxTaps)
    <3>. EventDone
      BY <1>4 DEF Put
    <3>1. late' \in BOOLEAN
      BY <2>4
    <3>. QED BY <1>4, <2>5, <2>6, <3>1, EventDoneTyped DEF Put, KeysIInv, KeysTypeOK, Ring
  <2>8. QueueHolds(queue', pending')
    BY <2>4, <2>5
  <2>9. ASSUME keysFor' \in {"loading", "running"}, ~late' PROVE AllOf(pending', run')
    <3>1. run' = run /\ keysFor' = keysFor /\ run \in 0 .. MaxRuns
      BY <1>4 DEF Put, KeysIInv, KeysTypeOK
    <3>2. ~late /\ e.run = run
      BY <2>4, <2>9
    <3>3. AllOf(pending, run)
      BY <2>9, <3>1, <3>2 DEF KeysIInv
    <3>. QED BY <2>2, <2>4, <2>5, <3>1, <3>2, <3>3
  <2>10. keysFor' = keysFor /\ run' = run
    BY <1>4 DEF Put
  <2>11. QueueHolds(queue, pending)'
    BY <2>8
  <2>12. (keysFor \in {"loading", "running"} /\ ~late => AllOf(pending, run))'
    BY <2>9
  <2>. QED BY <2>7, <2>10, <2>11, <2>12 DEF KeysIInv
<1>5. CASE KeysLaunch
  <2>1. KeysTypeOK'
    BY <1>5 DEF KeysLaunch, KeysIInv, KeysTypeOK
  <2>. QED BY <1>5, <2>1 DEF KeysLaunch, KeysIInv
<1>6. CASE KeysCleared
  <2>1. Dist(QueueSize, 0, 0) = 0
    BY DistIs
  <2>2. KeysTypeOK'
    <3>. 0 \in QueuePlaces
      BY DEF QueuePlaces
    <3>1. run' \in 0 .. MaxRuns
      BY <1>6 DEF KeysCleared, KeysIInv, KeysTypeOK
    <3>2. queue' \in Ring
      BY <1>6 DEF KeysCleared, KeysIInv, KeysTypeOK, Ring
    <3>3. pending' \in Seq(KeyEvent) /\ keysFor' = "loading" /\ typist' = typist
          /\ taps' = taps /\ late' = late
      BY <1>6 DEF KeysCleared
    <3>. QED BY <3>1, <3>2, <3>3 DEF KeysIInv, KeysTypeOK, Ring
  <2>3. queue'.head = 0 /\ queue'.tail = 0 /\ pending' = <<>>
    BY <1>6 DEF KeysCleared, KeysIInv, KeysTypeOK
  <2>4. QueueHolds(queue', pending') /\ AllOf(pending', run')
    BY <2>1, <2>3 DEF QueueHolds, AllOf
  <2>. QED BY <1>6, <2>2, <2>4 DEF KeysCleared, KeysIInv
<1>7. CASE KeysLoaded
  BY <1>7 DEF KeysLoaded, KeysIInv, KeysTypeOK
<1>8. CASE KeysAppEnds
  BY <1>8 DEF KeysAppEnds, KeysIInv, KeysTypeOK
<1>9. CASE ReadKey
  <2>1. queue \in Ring /\ pending \in Seq(KeyEvent) /\ QueueHolds(queue, pending)
    BY DEF KeysIInv, KeysTypeOK, Ring
  <2>2. /\ queue' = [queue EXCEPT !.tail = NextPlace(queue.tail)] /\ pending' = Tail(pending)
        /\ queue.head # queue.tail
    BY <1>9 DEF ReadKey
  <2>3. /\ pending' \in Seq(KeyEvent) /\ NextPlace(queue.tail) \in QueuePlaces
        /\ QueueHolds(queue', pending')
        /\ \A r \in 0 .. MaxRuns : AllOf(pending, r) => AllOf(pending', r)
    BY <2>1, <2>2, HoldsTail
  <2>4. queue' \in Ring
    BY <2>1, <2>2, <2>3 DEF Ring
  <2>. QED BY <1>9, <2>3, <2>4 DEF ReadKey, KeysIInv, KeysTypeOK, Ring
<1>10. CASE UNCHANGED keysVars
  BY <1>10 DEF keysVars, KeysIInv, KeysTypeOK
<1>. QED BY <1>1, <1>2, <1>3, <1>4, <1>5, <1>6, <1>7, <1>8, <1>9, <1>10 DEF KeysNext
-----------------------------------------------------------------------------
\* An app gets the keys typed since it was launched, each event once and in order:
\* the ring holds exactly the events that are pending, and none that was tested
\* under an earlier launch, but for one that came to the queue after the clearing.
THEOREM KeysReachTheirApp == KeysSpec => []KeysOfThisRun
<1>1. KeysIInv => KeysOfThisRun
  <2>. SUFFICES ASSUME KeysIInv PROVE KeysOfThisRun
    OBVIOUS
  <2>1. Queued = [k \in 1 .. Len(pending) |-> pending[k]]
    BY DEF KeysIInv, QueueHolds, Queued, Dist, Nth
  <2>2. Queued = pending
    BY <2>1 DEF KeysIInv, KeysTypeOK
  <2>3. DOMAIN Queued = 1 .. Len(pending)
    BY <2>1
  <2>. QED BY <2>2, <2>3 DEF KeysIInv, KeysOfThisRun, AllOf
<1>2. KeysIInv /\ [KeysNext]_keysVars => KeysIInv'
  BY NextKeys
<1>. QED BY InitKeys, <1>1, <1>2, PTL DEF KeysSpec
-----------------------------------------------------------------------------
(***************************************************************************)
(* Keys and the menu.  A key that waits for the queue while its app is     *)
(* being loaded is the only way in for one that was not typed while the    *)
(* app ran: the queue is empty when the loading begins, and what is tested *)
(* after it is tested with the app running.                                *)
(***************************************************************************)
WaitsWhileLoading == keysFor = "loading" /\ typist.step = "put"

AllTypedAtApp(events) == \A k \in 1 .. Len(events) : events[k].running

AtAppInv ==
  /\ keysFor = "loading" => pending = <<>>
  /\ keysFor = "running" => /\ AllTypedAtApp(pending)
                            /\ typist.step = "put" => typist.event.running

LEMMA TypedTail ==
  ASSUME NEW events \in Seq(KeyEvent), Len(events) > 0, AllTypedAtApp(events)
  PROVE  AllTypedAtApp(Tail(events))
<1>1. /\ Len(Tail(events)) = Len(events) - 1
      /\ \A k \in 1 .. Len(Tail(events)) : Tail(events)[k] = events[k + 1] /\ k + 1 \in 1 .. Len(events)
  OBVIOUS
<1>. QED BY <1>1 DEF AllTypedAtApp

LEMMA TypedAppend ==
  ASSUME NEW events \in Seq(KeyEvent), NEW e \in KeyEvent, AllTypedAtApp(events), e.running
  PROVE  AllTypedAtApp(Append(events, e))
<1>1. /\ Len(Append(events, e)) = Len(events) + 1 /\ Append(events, e)[Len(events) + 1] = e
      /\ \A k \in 1 .. Len(events) : Append(events, e)[k] = events[k]
  OBVIOUS
<1>2. \A k \in 1 .. Len(events) + 1 : k = Len(events) + 1 \/ k \in 1 .. Len(events)
  OBVIOUS
<1>. QED BY <1>1, <1>2 DEF AllTypedAtApp

\* A full queue is not empty, so that its oldest event is one of those pending.
LEMMA TypedKept ==
  ASSUME KeysIInv, AllTypedAtApp(pending)
  PROVE  Keep(pending) \in Seq(KeyEvent) /\ AllTypedAtApp(Keep(pending))
<1>. USE KeysAssumption
<1>1. queue \in Ring /\ pending \in Seq(KeyEvent) /\ QueueHolds(queue, pending)
  BY DEF KeysIInv, KeysTypeOK, Ring
<1>2. CASE Full
  <2>. DEFINE N == QueueSize
              h == queue.head
  <2>1. N \in Nat \ {0, 1} /\ h \in 0 .. N - 1
    BY <1>1 DEF Ring, QueuePlaces
  <2>2. NextPlace(h) = IF h + 1 < N THEN h + 1 ELSE h + 1 - N
    <3>. HIDE DEF N, h
    <3>1. N \in Nat \ {0} /\ 1 \in 0 .. N
      BY <2>1
    <3>. QED BY <2>1, <3>1, PlusIs DEF NextPlace, N
  <2>3. NextPlace(h) # h
    <3>. HIDE DEF N, h
    <3>. QED BY <2>1, <2>2
  <2>4. Len(pending) > 0 /\ Tail(pending) \in Seq(KeyEvent)
    BY <1>1, <1>2, <2>3, HoldsTail DEF Full
  <2>. QED BY <1>1, <1>2, <2>4, TypedTail DEF Keep
<1>3. CASE ~Full
  BY <1>1, <1>3 DEF Keep
<1>. QED BY <1>2, <1>3

LEMMA AtAppStep ==
  ASSUME KeysIInv, AtAppInv, ~WaitsWhileLoading, ~WaitsWhileLoading', [KeysNext]_keysVars
  PROVE  AtAppInv'
<1>. USE DEF AtAppInv, WaitsWhileLoading
<1>1. pending \in Seq(KeyEvent) /\ typist.event \in Tested
  BY DEF KeysIInv, KeysTypeOK, Tested
<1>2. CASE Tap
  BY <1>2 DEF Tap
<1>3. CASE TestLaunched
  <2>1. CASE keysFor = "running"
    <3>1. typist'.event = [typist.event EXCEPT !.run = run, !.running = (keysFor = "running")]
      BY <1>3, <2>1 DEF TestLaunched
    <3>2. typist'.event.running
      BY <1>1, <2>1, <3>1 DEF Tested
    <3>3. UNCHANGED <<keysFor, pending>>
      BY <1>3 DEF TestLaunched
    <3>. QED BY <2>1, <3>2, <3>3 DEF AllTypedAtApp
  <2>. QED BY <1>3, <2>1 DEF TestLaunched
<1>4. CASE PutTimesOut
  BY <1>4 DEF PutTimesOut, EventDone
<1>5. CASE Put
  <2>1. keysFor' = keysFor /\ typist'.step # "put" /\ pending' = Append(Keep(pending), typist.event)
    BY <1>5 DEF Put, EventDone
  <2>2. CASE keysFor = "running"
    <3>1. typist.event \in KeyEvent /\ typist.event.running /\ AllTypedAtApp(pending)
      BY <1>5, <2>2 DEF Put, KeysIInv
    <3>2. AllTypedAtApp(pending')
      BY <2>1, <3>1, TypedKept, TypedAppend
    <3>. QED BY <2>1, <2>2, <3>2
  <2>3. CASE keysFor # "running"
    BY <1>5, <2>1, <2>3 DEF Put
  <2>. QED BY <2>2, <2>3
<1>6. CASE KeysLaunch
  BY <1>6 DEF KeysLaunch
<1>7. CASE KeysCleared
  BY <1>7 DEF KeysCleared
<1>8. CASE KeysLoaded
  BY <1>8 DEF KeysLoaded, AllTypedAtApp
<1>9. CASE KeysAppEnds
  BY <1>9 DEF KeysAppEnds
<1>10. CASE ReadKey
  <2>1. Len(pending) > 0
    BY <1>10, HoldsTail DEF ReadKey, KeysIInv, KeysTypeOK, Ring
  <2>2. AllTypedAtApp(pending')
    BY <1>1, <1>10, <2>1, TypedTail DEF ReadKey
  <2>. QED BY <1>10, <2>2 DEF ReadKey
<1>11. CASE UNCHANGED keysVars
  BY <1>11 DEF keysVars, AllTypedAtApp
<1>. QED BY <1>2, <1>3, <1>4, <1>5, <1>6, <1>7, <1>8, <1>9, <1>10, <1>11 DEF KeysNext

\* An app gets no keys of the menu, as papp_loader.h:269 says, unless one of them
\* waits for the queue while the app is being loaded (papp_loader.cpp:1265).
THEOREM NoMenuKeysUnlessLoading ==
  KeysSpec /\ []~WaitsWhileLoading => []NoMenuKeys
<1>1. KeysInit => AtAppInv
  BY DEF KeysInit, AtAppInv
<1>2. KeysIInv /\ AtAppInv => NoMenuKeys
  <2>. SUFFICES ASSUME KeysIInv, AtAppInv PROVE NoMenuKeys
    OBVIOUS
  <2>1. Queued = [k \in 1 .. Len(pending) |-> pending[k]]
    BY DEF KeysIInv, QueueHolds, Queued, Dist, Nth
  <2>. QED BY <2>1 DEF AtAppInv, AllTypedAtApp, NoMenuKeys
<1>3. KeysIInv /\ [KeysNext]_keysVars => KeysIInv'
  BY NextKeys
<1>4. /\ KeysIInv /\ AtAppInv /\ ~WaitsWhileLoading /\ ~WaitsWhileLoading'
      /\ [KeysNext]_keysVars
      => AtAppInv'
  BY AtAppStep
<1>. QED BY InitKeys, <1>1, <1>2, <1>3, <1>4, PTL DEF KeysSpec
-----------------------------------------------------------------------------
(***************************************************************************)
(* USB sticks: a stick is reported as come once, and later ones after it.  *)
(* What loop() has in hand, an address or an installed stick, is older     *)
(* than all that is still to come, so that nothing brings an earlier stick *)
(* back.                                                                   *)
(***************************************************************************)
Report == [came : BOOLEAN, stick : Stick]

InOrder(reports) ==
  \A k, l \in 1 .. Len(reports) :
    k < l /\ reports[k].came /\ reports[l].came => reports[k].stick < reports[l].stick

Before(s, reports) == \A k \in 1 .. Len(reports) : reports[k].came => s < reports[k].stick
UpTo(s, reports) == \A k \in 1 .. Len(reports) : reports[k].came => reports[k].stick <= s

\* The sticks that the component has had.
Had == {stickDevice, volume, ejected}

MscIInv ==
  /\ MscTypeOK
  /\ InOrder(news) /\ UpTo(sticks, news)
  /\ stick <= sticks /\ address <= sticks /\ pass.address <= sticks
  /\ \A s \in Had : s <= sticks
  /\ Before(address, news) /\ Before(pass.address, news)
  /\ \A s \in Had : Before(s, news)
  /\ address # 0 => \A s \in Had : s < address
  /\ pass.step \in {"clear", "install"} => \A s \in Had : s < pass.address
  /\ pass.step = "clear" => address >= pass.address
  /\ pass.step = "install" /\ address # 0 => address > pass.address

LEMMA ReportAdded ==
  ASSUME NEW reports \in Seq(Report), NEW r \in Report
  PROVE  /\ Append(reports, r) \in Seq(Report)
         /\ ~r.came /\ InOrder(reports) => InOrder(Append(reports, r))
         /\ \A s \in Nat :
              /\ ~r.came /\ Before(s, reports) => Before(s, Append(reports, r))
              /\ ~r.came /\ UpTo(s, reports) => UpTo(s, Append(reports, r))
              /\ r.came /\ r.stick = s + 1 /\ InOrder(reports) /\ UpTo(s, reports)
                   => InOrder(Append(reports, r)) /\ UpTo(s + 1, Append(reports, r))
              /\ r.came /\ s < r.stick /\ Before(s, reports) => Before(s, Append(reports, r))
<1>. DEFINE more == Append(reports, r)
            n == Len(reports)
<1>1. /\ more \in Seq(Report) /\ n \in Nat /\ Len(more) = n + 1 /\ more[n + 1] = r
      /\ \A k \in 1 .. n : more[k] = reports[k] /\ reports[k] \in Report
  OBVIOUS
<1>2. \A k \in 1 .. n + 1 : k = n + 1 \/ k \in 1 .. n
  BY <1>1
<1>. HIDE DEF more, n
<1>3. ASSUME ~r.came, InOrder(reports) PROVE InOrder(more)
  BY <1>1, <1>2, <1>3 DEF InOrder, n
<1>4. ASSUME NEW s \in Nat, ~r.came, Before(s, reports) PROVE Before(s, more)
  BY <1>1, <1>2, <1>4 DEF Before, n
<1>5. ASSUME NEW s \in Nat, ~r.came, UpTo(s, reports) PROVE UpTo(s, more)
  BY <1>1, <1>2, <1>5 DEF UpTo, n
<1>6. ASSUME NEW s \in Nat, r.came, r.stick = s + 1, InOrder(reports), UpTo(s, reports)
      PROVE  InOrder(more) /\ UpTo(s + 1, more)
  <2>1. \A k \in 1 .. n : reports[k].came => reports[k].stick < s + 1 /\ reports[k].stick <= s + 1
    BY <1>1, <1>6 DEF UpTo, n, Report, Stick
  <2>2. UpTo(s + 1, more)
    <3>. SUFFICES ASSUME NEW k \in 1 .. n + 1, more[k].came PROVE more[k].stick <= s + 1
      BY <1>1 DEF UpTo
    <3>. QED BY <1>1, <1>2, <1>6, <2>1
  <2>3. InOrder(more)
    <3>. SUFFICES ASSUME NEW k \in 1 .. n + 1, NEW l \in 1 .. n + 1, k < l,
                         more[k].came, more[l].came
                  PROVE  more[k].stick < more[l].stick
      BY <1>1 DEF InOrder
    <3>1. k \in 1 .. n
      BY <1>1, <1>2
    <3>2. CASE l = n + 1
      BY <3>1, <3>2, <1>1, <1>6, <2>1
    <3>3. CASE l \in 1 .. n
      BY <3>1, <3>3, <1>1, <1>6 DEF InOrder, n
    <3>. QED BY <3>2, <3>3, <1>2
  <2>. QED BY <2>2, <2>3
<1>7. ASSUME NEW s \in Nat, r.came, s < r.stick, Before(s, reports) PROVE Before(s, more)
  BY <1>1, <1>2, <1>7 DEF Before, n
<1>. QED BY <1>1, <1>3, <1>4, <1>5, <1>6, <1>7 DEF more

LEMMA Heard ==
  ASSUME NEW reports \in Seq(Report), reports # <<>>
  PROVE  /\ Tail(reports) \in Seq(Report) /\ Head(reports) \in Report
         /\ InOrder(reports) => InOrder(Tail(reports))
         /\ InOrder(reports) /\ Head(reports).came => Before(Head(reports).stick, Tail(reports))
         /\ \A s \in Nat :
              /\ Before(s, reports) => Before(s, Tail(reports))
              /\ UpTo(s, reports) => UpTo(s, Tail(reports))
              /\ Before(s, reports) /\ Head(reports).came => s < Head(reports).stick
              /\ UpTo(s, reports) /\ Head(reports).came => Head(reports).stick <= s
<1>. DEFINE rest == Tail(reports)
            n == Len(reports)
<1>1. /\ rest \in Seq(Report) /\ n \in Nat /\ n > 0 /\ Len(rest) = n - 1
      /\ Head(reports) = reports[1] /\ Head(reports) \in Report
      /\ \A k \in 1 .. n - 1 : rest[k] = reports[k + 1]
  OBVIOUS
<1>2. 1 \in 1 .. n /\ \A k \in 1 .. n - 1 : k + 1 \in 1 .. n /\ 1 < k + 1
  BY <1>1
<1>. HIDE DEF rest, n
<1>3. ASSUME InOrder(reports) PROVE InOrder(rest)
  <2>. SUFFICES ASSUME NEW k \in 1 .. n - 1, NEW l \in 1 .. n - 1, k < l,
                       rest[k].came, rest[l].came
                PROVE  rest[k].stick < rest[l].stick
    BY <1>1 DEF InOrder
  <2>1. k + 1 < l + 1
    BY <1>1
  <2>. QED BY <1>1, <1>2, <1>3, <2>1 DEF InOrder, n
<1>4. ASSUME InOrder(reports), Head(reports).came PROVE Before(Head(reports).stick, rest)
  BY <1>1, <1>2, <1>4 DEF InOrder, Before, n
<1>5. ASSUME NEW s \in Nat, Before(s, reports)
      PROVE  Before(s, rest) /\ (Head(reports).came => s < Head(reports).stick)
  BY <1>1, <1>2, <1>5 DEF Before, n
<1>6. ASSUME NEW s \in Nat, UpTo(s, reports)
      PROVE  UpTo(s, rest) /\ (Head(reports).came => Head(reports).stick <= s)
  BY <1>1, <1>2, <1>6 DEF UpTo, n
<1>. QED BY <1>1, <1>3, <1>4, <1>5, <1>6 DEF rest

LEMMA NoneIsBefore == ASSUME NEW reports \in Seq(Report) PROVE Before(0, reports)
<1>. SUFFICES ASSUME NEW k \in 1 .. Len(reports) PROVE 0 < reports[k].stick
  BY DEF Before
<1>1. reports[k] \in Report
  OBVIOUS
<1>. QED BY <1>1, MscAssumption DEF Report, Stick

LEMMA InitMsc == MscInit => MscIInv
<1>. SUFFICES ASSUME MscInit PROVE MscIInv
  OBVIOUS
<1>. USE MscAssumption DEF MscInit
<1>1. MscTypeOK
  <2>1. {stick, sticks, address, stickDevice, volume, ejected} \subseteq Stick \cup {0}
    OBVIOUS
  <2>2. news \in Seq([came : BOOLEAN, stick : Stick])
    OBVIOUS
  <2>3. pass \in [step : {"removed", "unmount", "address", "clear", "install"},
                  address : Stick \cup {0}]
    OBVIOUS
  <2>. QED BY <2>1, <2>2, <2>3 DEF MscTypeOK
<1>2. Len(news) = 0
  OBVIOUS
<1>3. InOrder(news) /\ UpTo(sticks, news) /\ Before(address, news) /\ Before(pass.address, news)
      /\ \A s \in Had : Before(s, news)
  BY <1>2 DEF InOrder, UpTo, Before
<1>. QED BY <1>1, <1>3 DEF MscIInv, Had

LEMMA NextMsc == ASSUME MscIInv, [MscNext]_mscVars PROVE MscIInv'
<1>. USE MscAssumption
<1>1. /\ stick \in 0 .. MaxSticks /\ sticks \in 0 .. MaxSticks /\ address \in 0 .. MaxSticks
      /\ pass.address \in 0 .. MaxSticks /\ news \in Seq(Report) /\ removed \in BOOLEAN
      /\ stickDevice \in Had /\ volume \in Had /\ ejected \in Had
      /\ \A s \in Had : s \in 0 .. MaxSticks
  BY DEF MscIInv, MscTypeOK, Had, Report, Stick
<1>2. CASE PlugStick
  <2>. DEFINE r == [came |-> TRUE, stick |-> sticks + 1]
  <2>1. /\ stick' = sticks + 1 /\ sticks' = sticks + 1 /\ sticks + 1 \in Stick
        /\ news' = Append(news, r) /\ r \in Report /\ Had' = Had
        /\ address' = address /\ pass' = pass /\ MscTypeOK'
    BY <1>1, <1>2 DEF PlugStick, mscLoop, Had, Report, MscIInv, MscTypeOK, Stick
  <2>2. r.came /\ r.stick = sticks + 1
    OBVIOUS
  <2>. HIDE DEF r
  <2>3. InOrder(news') /\ UpTo(sticks', news')
    BY <1>1, <2>1, <2>2, ReportAdded DEF MscIInv
  <2>4. \A s \in Nat : s <= sticks /\ Before(s, news) => Before(s, news')
    BY <1>1, <2>1, <2>2, ReportAdded
  <2>5. Before(address, news') /\ Before(pass.address, news') /\ \A s \in Had : Before(s, news')
    BY <1>1, <2>4 DEF MscIInv
  <2>. QED BY <1>1, <2>1, <2>3, <2>5 DEF MscIInv
<1>3. CASE PullStick
  <2>. DEFINE r == [came |-> FALSE, stick |-> stick]
  <2>1. /\ stick' = 0 /\ sticks' = sticks /\ news' \in {news, Append(news, r)}
        /\ r \in Report /\ Had' = Had /\ address' = address /\ pass' = pass /\ ~r.came
    BY <1>1, <1>3 DEF PullStick, mscLoop, Had, Report, Stick
  <2>. HIDE DEF r
  <2>. DEFINE told == Append(news, r)
  <2>. told \in Seq(Report) /\ InOrder(told) /\ UpTo(sticks, told)
    <3>. sticks \in Nat
      BY <1>1
    <3>. QED BY <1>1, <2>1, ReportAdded DEF MscIInv
  <2>. HIDE DEF told
  <2>2. news' \in Seq(Report) /\ InOrder(news') /\ UpTo(sticks, news')
    BY <1>1, <2>1 DEF MscIInv, told
  <2>3. \A s \in Nat : Before(s, news) => Before(s, news')
    <3>1. \A s \in Nat : Before(s, news) => Before(s, told)
      BY <1>1, <2>1, ReportAdded DEF told
    <3>. QED BY <2>1, <3>1 DEF told
  <2>4. Before(address, news') /\ Before(pass.address, news') /\ \A s \in Had : Before(s, news')
    BY <1>1, <2>3 DEF MscIInv
  <2>5. MscTypeOK'
    BY <1>1, <1>3, <2>1, <2>2 DEF PullStick, mscLoop, MscIInv, MscTypeOK, Report
  <2>. QED BY <1>1, <2>1, <2>2, <2>4, <2>5 DEF MscIInv
<1>4. CASE StickEvent
  <2>1. /\ news # <<>> /\ news' = Tail(news) /\ Head(news) \in Report /\ news' \in Seq(Report)
        /\ InOrder(news') /\ UpTo(sticks, news')
        /\ \A s \in Nat : Before(s, news) => Before(s, news')
    BY <1>1, <1>4, Heard DEF StickEvent, MscIInv
  <2>2. stick' = stick /\ sticks' = sticks /\ Had' = Had /\ pass' = pass
    BY <1>4 DEF StickEvent, mscLoop, Had
  <2>3. Before(pass.address, news') /\ \A s \in Had : Before(s, news')
    BY <1>1, <2>1 DEF MscIInv
  <2>4. CASE Head(news).came
    <3>1. address' = Head(news).stick /\ address' \in Stick
      BY <1>4, <2>1, <2>4 DEF StickEvent, Report
    <3>2. /\ Before(address', news') /\ address' <= sticks /\ pass.address < address'
          /\ \A s \in Had : s < address'
      BY <1>1, <2>1, <2>4, <3>1, Heard DEF MscIInv
    <3>3. MscTypeOK'
      BY <1>1, <1>4, <2>1, <2>4, <3>1 DEF StickEvent, mscLoop, MscIInv, MscTypeOK, Report
    <3>. QED BY <1>1, <2>1, <2>2, <2>3, <3>1, <3>2, <3>3 DEF MscIInv, Stick
  <2>5. CASE ~Head(news).came
    <3>1. address' = address /\ removed' = TRUE
      BY <1>4, <2>5 DEF StickEvent
    <3>2. MscTypeOK'
      BY <1>1, <1>4, <2>1, <3>1 DEF StickEvent, mscLoop, MscIInv, MscTypeOK, Report
    <3>3. Before(address, news')
      BY <1>1, <2>1 DEF MscIInv
    <3>. QED BY <1>1, <2>1, <2>2, <2>3, <3>1, <3>2, <3>3 DEF MscIInv
  <2>. QED BY <2>4, <2>5
<1>5. CASE PassRemoved
  <2>1. /\ pass'.step \in {"unmount", "address"} /\ pass'.address = pass.address
        /\ Had' = Had /\ MscTypeOK'
    BY <1>1, <1>5 DEF PassRemoved, PassGoes, MscIInv, MscTypeOK, Had
  <2>. QED BY <1>1, <1>5, <2>1 DEF PassRemoved, MscIInv
<1>6. CASE PassUnmounts
  <2>1. /\ pass'.step = "address" /\ pass'.address = pass.address
        /\ \A s \in Had' : s = 0 \/ s \in Had
        /\ MscTypeOK'
    BY <1>1, <1>6 DEF PassUnmounts, PassGoes, MscIInv, MscTypeOK, Had
  <2>2. Before(0, news)
    BY <1>1, NoneIsBefore
  <2>. QED BY <1>1, <1>6, <2>1, <2>2 DEF PassUnmounts, MscIInv
<1>7. CASE PassReads
  <2>1. Had' = Had /\ MscTypeOK'
    BY <1>1, <1>7 DEF PassReads, MscIInv, MscTypeOK, Had
  <2>2. \/ address = 0 /\ pass'.step = "removed" /\ pass'.address = pass.address
        \/ address # 0 /\ pass'.step = "clear" /\ pass'.address = address
    BY <1>7 DEF PassReads, MscIInv, MscTypeOK
  <2>. QED BY <1>1, <1>7, <2>1, <2>2 DEF PassReads, MscIInv
<1>8. CASE PassClears
  <2>1. /\ pass.step = "clear" /\ pass'.step = "install" /\ pass'.address = pass.address
        /\ address' = 0 /\ Had' = Had /\ MscTypeOK'
    BY <1>1, <1>8 DEF PassClears, PassGoes, MscIInv, MscTypeOK, Had
  <2>2. Before(0, news)
    BY <1>1, NoneIsBefore
  <2>. QED BY <1>1, <1>8, <2>1, <2>2 DEF PassClears, MscIInv
<1>9. CASE PassInstalls
  <2>1. /\ pass.step = "install" /\ pass'.step = "removed" /\ pass'.address = pass.address
        /\ \A s \in Had' : s = pass.address \/ s \in Had
        /\ MscTypeOK'
    BY <1>1, <1>9 DEF PassInstalls, PassGoes, MscIInv, MscTypeOK, Had
  <2>. QED BY <1>1, <1>9, <2>1 DEF PassInstalls, MscIInv
<1>10. CASE UserMounts
  <2>1. /\ \A s \in Had' : s = 0 \/ s \in Had
        /\ MscTypeOK'
    BY <1>1, <1>10 DEF UserMounts, MscIInv, MscTypeOK, Had
  <2>2. Before(0, news)
    BY <1>1, NoneIsBefore
  <2>. QED BY <1>1, <1>10, <2>1, <2>2 DEF UserMounts, MscIInv
<1>11. CASE UserUnmounts
  <2>1. /\ \A s \in Had' : s = 0 \/ s \in Had
        /\ MscTypeOK'
    BY <1>1, <1>11 DEF UserUnmounts, MscIInv, MscTypeOK, Had
  <2>2. Before(0, news)
    BY <1>1, NoneIsBefore
  <2>. QED BY <1>1, <1>11, <2>1, <2>2 DEF UserUnmounts, MscIInv
<1>12. CASE UNCHANGED mscVars
  BY <1>12 DEF mscVars, mscLoop, MscIInv, MscTypeOK, Had
<1>. QED BY <1>2, <1>3, <1>4, <1>5, <1>6, <1>7, <1>8, <1>9, <1>10, <1>11, <1>12
     DEF MscNext, MscPass
-----------------------------------------------------------------------------
\* No report that comes late, of this stick or another, and no pass of loop() that
\* had begun before, mounts a stick that the user has unmounted.
THEOREM EjectedIsLeftAlone == MscSpec => EjectedStaysUnmounted
<1>1. ASSUME MscIInv, [MscNext]_mscVars
      PROVE  volume = 0 /\ volume' # 0 /\ volume' = ejected => ejected' = 0
  <2>. SUFFICES ASSUME volume = 0, volume' # 0, volume' = ejected PROVE ejected' = 0
    OBVIOUS
  <2>1. CASE PassInstalls
    <3>1. pass.step = "install" /\ volume' = pass.address
      BY <2>1 DEF PassInstalls, MscIInv, MscTypeOK
    <3>2. ejected < pass.address
      <4>1. ejected \in Had
        BY DEF Had
      <4>. QED BY <1>1, <3>1, <4>1 DEF MscIInv
    <3>3. volume' = ejected /\ ejected \in Nat /\ pass.address \in Nat
      BY <1>1, MscAssumption DEF MscIInv, MscTypeOK, Stick
    <3>. QED BY <3>1, <3>2, <3>3
  <2>2. CASE UserMounts
    BY <2>2 DEF UserMounts
  <2>3. volume' # volume
    OBVIOUS
  <2>. QED BY <1>1, <2>1, <2>2, <2>3
       DEF MscNext, MscPass, PlugStick, PullStick, StickEvent, PassRemoved, PassUnmounts,
           PassReads, PassClears, UserUnmounts, mscLoop, mscVars
<1>2. MscIInv /\ [MscNext]_mscVars => MscIInv'
  BY NextMsc
<1>3. MscIInv /\ [MscNext]_mscVars =>
        [volume = 0 /\ volume' # 0 /\ volume' = ejected => ejected' = 0]_mscVars
  BY <1>1
<1>. QED BY InitMsc, <1>2, <1>3, PTL DEF MscSpec, EjectedStaysUnmounted
-----------------------------------------------------------------------------
(***************************************************************************)
(* The ring of received bytes.  RxAt counts the bytes of the stream from   *)
(* the last that was read, through the ring and the places that are filled *)
(* beyond rx_head_.                                                        *)
(***************************************************************************)
RxByte == [m : 0 .. MaxMessages, i : 1 .. 3, n : 1 .. 3]
Cells  == [Places -> Byte \cup {NoByte}]

RxAt(cell, tail, b, k) == IF k = 0 THEN b ELSE cell[Nth(RxSize, tail, k)]

\* From byte b and a place on, d bytes follow one after the other in whole messages,
\* up to message m.
Flows(cell, tail, b, d, m) ==
  /\ \A k \in 0 .. d - 1 : Follows(RxAt(cell, tail, b, k), RxAt(cell, tail, b, k + 1))
  /\ RxAt(cell, tail, b, d).i = RxAt(cell, tail, b, d).n
  /\ \A k \in 0 .. d : RxAt(cell, tail, b, k).m <= m

\* After d bytes come the n bytes of message m, which is newer than what is there.
Beyond(cell, tail, b, d, n, m) ==
  /\ n \in 1 .. 3 /\ d + n <= RxSize - 1
  /\ RxAt(cell, tail, b, d).m < m
  /\ \A k \in 1 .. n : RxAt(cell, tail, b, d + k) = [m |-> m, i |-> k, n |-> n]

Filling == Dist(RxSize, rx.tail, rx.head)

\* What read() has loaded lies in the ring, and what it has copied is what is there.
ReadSound ==
  /\ pusher.step # "reset" /\ reader.tail = rx.tail
  /\ reader.step \in {"head", "copied"} => Dist(RxSize, rx.tail, reader.head) <= Filling
  /\ reader.step = "copied" =>
       /\ Len(reader.got) <= Dist(RxSize, rx.tail, reader.head)
       /\ \A k \in 1 .. Len(reader.got) : reader.got[k] = rx.cell[Nth(RxSize, rx.tail, k)]

RingSound ==
  /\ Flows(rx.cell, rx.tail, last, Filling, sent)
  /\ pusher.step = "push" =>
       Beyond(rx.cell, rx.tail, last, Filling, Dist(RxSize, rx.head, pusher.head), sent)

RingIInv ==
  /\ RingTypeOK /\ last \in RxByte /\ last.m <= sent
  /\ reader.step # "copied" => reader.got = <<>>
  /\ pusher.step = "reset" => rx.head = 0
  /\ reader.step # "idle" /\ ~raced => ReadSound
  /\ ~raced /\ pusher.step # "reset" => RingSound

LEMMA RxAtByte ==
  ASSUME NEW cell \in Cells, NEW t \in Places, NEW b \in RxByte, NEW k \in 0 .. RxSize
  PROVE  RxAt(cell, t, b, k) \in RxByte
<1>1. CASE k = 0
  BY <1>1 DEF RxAt
<1>2. CASE k # 0
  <2>1. Nth(RxSize, t, k) \in Places
    <3>1. RxSize \in Nat \ {0} /\ k \in 1 .. RxSize
      BY <1>2, RingAssumption
    <3>. QED BY <3>1, NthIs DEF Places
  <2>2. cell[Nth(RxSize, t, k)] \in Byte \cup {NoByte}
    BY <2>1 DEF Cells
  <2>. QED BY <1>2, <2>2, RingAssumption DEF RxAt, Byte, NoByte, RxByte
<1>. QED BY <1>1, <1>2

\* The bytes that were put beyond rx_head_ continue the stream.
LEMMA FlowsOn ==
  ASSUME NEW cell \in Cells, NEW t \in Places, NEW b \in RxByte, NEW d \in 0 .. RxSize - 1,
         NEW n \in Nat, NEW m \in Nat, Flows(cell, t, b, d, m), Beyond(cell, t, b, d, n, m)
  PROVE  Flows(cell, t, b, d + n, m)
<1>. DEFINE At(k) == RxAt(cell, t, b, k)
<1>1. /\ n \in 1 .. 3 /\ At(d).m < m /\ At(d).i = At(d).n
      /\ \A k \in 1 .. n : At(d + k) = [m |-> m, i |-> k, n |-> n]
      /\ \A k \in 0 .. d - 1 : Follows(At(k), At(k + 1))
      /\ \A k \in 0 .. d : At(k).m <= m
  BY DEF Flows, Beyond
<1>2. At(d) \in RxByte
  <2>1. d \in 0 .. RxSize
    BY RingAssumption
  <2>. QED BY <2>1, RxAtByte
<1>. HIDE DEF At
<1>3. ASSUME NEW k \in 0 .. d + n - 1 PROVE Follows(At(k), At(k + 1))
  <2>1. CASE k < d
    BY <1>1, <2>1
  <2>2. CASE k = d
    <3>1. At(d + 1) = [m |-> m, i |-> 1, n |-> n]
      BY <1>1
    <3>. QED BY <1>1, <1>2, <2>2, <3>1 DEF Follows, RxByte
  <2>3. CASE k > d
    <3>. DEFINE j == k - d
    <3>1. j \in 1 .. n /\ j + 1 \in 1 .. n /\ k = d + j /\ k + 1 = d + (j + 1)
      BY <2>3
    <3>. HIDE DEF j
    <3>2. At(k) = [m |-> m, i |-> j, n |-> n] /\ At(k + 1) = [m |-> m, i |-> j + 1, n |-> n]
      BY <1>1, <3>1
    <3>3. j < n
      BY <1>1, <3>1
    <3>. QED BY <3>2, <3>3 DEF Follows
  <2>. QED BY <2>1, <2>2, <2>3
<1>4. At(d + n) = [m |-> m, i |-> n, n |-> n]
  BY <1>1
<1>5. ASSUME NEW k \in 0 .. d + n PROVE At(k).m <= m
  <2>1. CASE k <= d
    BY <1>1, <2>1
  <2>2. CASE k > d
    <3>. DEFINE j == k - d
    <3>1. j \in 1 .. n /\ k = d + j
      BY <2>2
    <3>. HIDE DEF j
    <3>2. At(k) = [m |-> m, i |-> j, n |-> n]
      BY <1>1, <3>1
    <3>. QED BY <3>2
  <2>. QED BY <2>1, <2>2
<1>. QED BY <1>3, <1>4, <1>5 DEF Flows, At

\* Two rings and last bytes that agree on the stream.
LEMMA SameFlow ==
  ASSUME NEW c1, NEW t1, NEW b1, NEW c2, NEW t2, NEW b2, NEW s \in Nat, NEW d \in Nat, NEW m,
         \A k \in 0 .. d : RxAt(c2, t2, b2, k) = RxAt(c1, t1, b1, s + k)
  PROVE  Flows(c1, t1, b1, s + d, m) => Flows(c2, t2, b2, d, m)
<1>. SUFFICES ASSUME Flows(c1, t1, b1, s + d, m) PROVE Flows(c2, t2, b2, d, m)
  OBVIOUS
<1>1. ASSUME NEW k \in 0 .. d - 1
      PROVE  Follows(RxAt(c2, t2, b2, k), RxAt(c2, t2, b2, k + 1))
  <2>1. k \in 0 .. d /\ k + 1 \in 0 .. d /\ s + k \in 0 .. (s + d) - 1
        /\ s + (k + 1) = (s + k) + 1
    OBVIOUS
  <2>2. Follows(RxAt(c1, t1, b1, s + k), RxAt(c1, t1, b1, (s + k) + 1))
    BY <2>1 DEF Flows
  <2>. QED BY <2>1, <2>2
<1>2. RxAt(c2, t2, b2, d) = RxAt(c1, t1, b1, s + d)
  OBVIOUS
<1>3. ASSUME NEW k \in 0 .. d PROVE RxAt(c2, t2, b2, k).m <= m
  <2>1. s + k \in 0 .. s + d
    OBVIOUS
  <2>. QED BY <2>1 DEF Flows
<1>. QED BY <1>1, <1>2, <1>3 DEF Flows

LEMMA SameBeyond ==
  ASSUME NEW c1, NEW t1, NEW b1, NEW c2, NEW t2, NEW b2, NEW s \in Nat, NEW d \in Nat,
         NEW n \in Nat, NEW m, Beyond(c1, t1, b1, s + d, n, m),
         \A k \in 0 .. d + n : RxAt(c2, t2, b2, k) = RxAt(c1, t1, b1, s + k)
  PROVE  Beyond(c2, t2, b2, d, n, m)
<1>1. /\ n \in 1 .. 3 /\ s + d + n <= RxSize - 1 /\ RxAt(c1, t1, b1, s + d).m < m
      /\ \A k \in 1 .. n : RxAt(c1, t1, b1, s + d + k) = [m |-> m, i |-> k, n |-> n]
  BY DEF Beyond
<1>2. RxAt(c2, t2, b2, d) = RxAt(c1, t1, b1, s + d)
  OBVIOUS
<1>3. ASSUME NEW k \in 1 .. n
      PROVE  RxAt(c2, t2, b2, d + k) = [m |-> m, i |-> k, n |-> n]
  <2>1. d + k \in 0 .. d + n /\ s + (d + k) = s + d + k
    OBVIOUS
  <2>. QED BY <1>1, <2>1
<1>4. d + n <= RxSize - 1
  BY <1>1, RingAssumption
<1>. QED BY <1>1, <1>2, <1>3, <1>4 DEF Beyond

\* Message m of n bytes is put from place h on.
PutAt(full, cell, h, n, m) ==
  \A p \in Places : full[p] = IF Dist(RxSize, h, p) + 1 <= n
                              THEN [m |-> m, i |-> Dist(RxSize, h, p) + 1, n |-> n]
                              ELSE cell[p]

\* What was in the ring is there, and the message lies beyond it.
PutFollows(full, cell, t, h, n, m) ==
  /\ (h + n) % RxSize \in Places /\ Dist(RxSize, h, (h + n) % RxSize) = n
  /\ \A k \in 1 .. Dist(RxSize, t, h) : full[Nth(RxSize, t, k)] = cell[Nth(RxSize, t, k)]
  /\ \A k \in 1 .. n :
       full[Nth(RxSize, t, Dist(RxSize, t, h) + k)] = [m |-> m, i |-> k, n |-> n]

\* A message is put beyond the head: it leaves what is in the ring as it is.
LEMMA PutBeyond ==
  ASSUME NEW cell \in Cells, NEW t \in Places, NEW h \in Places, NEW n \in 1 .. 3,
         NEW m \in 1 .. MaxMessages, NEW full \in Cells,
         Dist(RxSize, t, h) + n <= RxSize - 1, PutAt(full, cell, h, n, m)
  PROVE  PutFollows(full, cell, t, h, n, m)
<1>. DEFINE N == RxSize
            d == Dist(N, t, h)
<1>1. N \in Nat \ {0} /\ t \in 0 .. N - 1 /\ h \in 0 .. N - 1 /\ Places = 0 .. N - 1
  BY RingAssumption DEF Places
<1>2. d \in 0 .. N - 1 /\ Dist(N, h, h) = 0 /\ d + n <= N - 1 /\ 0 + n <= N - 1
  <2>1. d + n <= N - 1
    OBVIOUS
  <2>. HIDE DEF N
  <2>2. d \in 0 .. N - 1
    BY <1>1, DistIs
  <2>3. Dist(N, h, h) = 0
    BY <1>1, DistIs
  <2>. HIDE DEF d
  <2>. QED BY <1>1, <2>1, <2>2, <2>3
<1>. HIDE DEF N
<1>3. /\ \A k \in 1 .. d : Dist(N, h, Nth(N, t, k)) >= n
      /\ \A k \in 1 .. n : Dist(N, h, Nth(N, t, d + k)) = k - 1
  BY <1>1, <1>2, RoomForMore
<1>4. (h + n) % N \in 0 .. N - 1 /\ Dist(N, h, (h + n) % N) = n
  <2>1. Dist(N, h, h) + n <= N - 1
    BY <1>2
  <2>2. Dist(N, h, (h + n) % N) = Dist(N, h, h) + n /\ (h + n) % N \in 0 .. N - 1
    BY <1>1, <2>1, RoomForMore
  <2>. QED BY <1>2, <2>2
<1>. HIDE DEF d
<1>5. \A k \in 1 .. d + n : Nth(N, t, k) \in Places
  <2>1. \A k \in 1 .. d + n : k \in 1 .. N
    BY <1>1, <1>2
  <2>. QED BY <1>1, <2>1, NthIs
<1>6. \A p \in Places : Dist(N, h, p) \in Nat
  <2>. TAKE p \in Places
  <2>1. Dist(N, h, p) \in 0 .. N - 1
    BY <1>1, DistIs
  <2>. QED BY <2>1
<1>7. ASSUME NEW k \in 1 .. d PROVE full[Nth(N, t, k)] = cell[Nth(N, t, k)]
  <2>. DEFINE p == Nth(N, t, k)
  <2>1. p \in Places /\ Dist(N, h, p) \in Nat /\ Dist(N, h, p) >= n
    BY <1>2, <1>3, <1>5, <1>6
  <2>. HIDE DEF p
  <2>2. ~(Dist(N, h, p) + 1 <= n)
    BY <2>1
  <2>. QED BY <2>1, <2>2 DEF N, p, PutAt
<1>8. ASSUME NEW k \in 1 .. n PROVE full[Nth(N, t, d + k)] = [m |-> m, i |-> k, n |-> n]
  <2>. DEFINE p == Nth(N, t, d + k)
  <2>1. p \in Places /\ Dist(N, h, p) = k - 1
    BY <1>2, <1>3, <1>5
  <2>. HIDE DEF p
  <2>2. Dist(N, h, p) + 1 = k /\ k <= n
    BY <2>1
  <2>. QED BY <2>1, <2>2 DEF N, p, PutAt
<1>. QED BY <1>1, <1>4, <1>7, <1>8 DEF N, d, PutFollows

LEMMA RingRanges ==
  ASSUME RingIInv
  PROVE  /\ RxSize \in Nat \ {0} /\ Places = 0 .. RxSize - 1
         /\ rx.cell \in Cells /\ rx.head \in Places /\ rx.tail \in Places
         /\ Filling \in 0 .. RxSize - 1
         /\ sent \in 0 .. MaxMessages /\ last \in RxByte /\ MaxMessages \in Nat
         /\ pusher.head \in Places /\ reader.tail \in Places /\ reader.head \in Places
<1>1. RxSize \in Nat \ {0} /\ Places = 0 .. RxSize - 1
  BY RingAssumption DEF Places
<1>2. rx.head \in Places /\ rx.tail \in Places
  BY DEF RingIInv, RingTypeOK
<1>3. Filling \in 0 .. RxSize - 1
  BY <1>1, <1>2, DistIs DEF Filling
<1>. QED BY <1>1, <1>2, <1>3, RingAssumption DEF RingIInv, RingTypeOK, Cells

LEMMA InitRing == RingInit => RingIInv
<1>. SUFFICES ASSUME RingInit PROVE RingIInv
  OBVIOUS
<1>. USE RingAssumption
<1>1. RxSize \in Nat \ {0} /\ Places = 0 .. RxSize - 1 /\ 0 \in Places
  BY DEF Places
<1>2. RingTypeOK
  <2>1. rx \in [cell : [Places -> Byte \cup {NoByte}], head : Places, tail : Places]
    BY <1>1 DEF RingInit
  <2>2. reader.got \in Seq(Byte \cup {NoByte})
    BY DEF RingInit, NotReading
  <2>. QED BY <1>1, <2>1, <2>2 DEF RingInit, RingTypeOK, NotReading
<1>3. last \in RxByte /\ last.m <= sent /\ last.i = last.n
  BY DEF RingInit, NoByte, RxByte
<1>4. Filling = 0
  <2>1. Dist(RxSize, 0, 0) = 0
    BY <1>1, DistIs
  <2>. QED BY <2>1 DEF RingInit, Filling
<1>5. RingSound
  BY <1>3, <1>4 DEF RingInit, RingSound, Flows, RxAt
<1>. QED BY <1>2, <1>3, <1>5 DEF RingInit, RingIInv, NotReading

\* The stream when the ring has been reset: nothing, after a complete message.
LEMMA AfterResetTail == ASSUME RingIInv, ResetTail PROVE RingIInv'
<1>. USE RingAssumption
<1>1. /\ rx' = [rx EXCEPT !.tail = 0] /\ rx.head = 0 /\ pusher' = [pusher EXCEPT !.step = "idle"]
      /\ last' = [last EXCEPT !.i = 1, !.n = 1] /\ reader' = reader /\ sent' = sent
      /\ raced' = (reader.step # "idle")
  BY DEF ResetTail, RingIInv
<1>2. RingTypeOK'
  <2>1. rx' \in [cell : [Places -> Byte \cup {NoByte}], head : Places, tail : Places]
    BY <1>1, RingRanges DEF RingIInv, RingTypeOK
  <2>2. raced' \in BOOLEAN
    BY <1>1
  <2>. QED BY <1>1, <2>1, <2>2 DEF RingIInv, RingTypeOK
<1>3. last' \in RxByte /\ last'.m = last.m /\ last'.i = last'.n /\ last'.m <= sent'
  <2>1. last \in RxByte /\ last.m <= sent /\ 1 \in 1 .. 3
    BY DEF RingIInv
  <2>2. last' \in RxByte /\ last'.m = last.m /\ last'.i = 1 /\ last'.n = 1
    BY <1>1, <2>1 DEF RxByte
  <2>. QED BY <1>1, <2>1, <2>2
<1>4. Filling' = 0
  <2>1. Dist(RxSize, 0, 0) = 0
    BY DistIs
  <2>2. rx'.head = 0 /\ rx'.tail = 0
    BY <1>1 DEF RingIInv, RingTypeOK
  <2>. QED BY <2>1, <2>2 DEF Filling
<1>5. RingSound'
  <2>1. pusher'.step = "idle"
    BY <1>1 DEF RingIInv, RingTypeOK
  <2>2. Flows(rx'.cell, rx'.tail, last', Filling', sent')
    BY <1>3, <1>4 DEF Flows, RxAt
  <2>. QED BY <2>1, <2>2 DEF RingSound
<1>6. pusher'.step = "idle"
  BY <1>1 DEF RingIInv, RingTypeOK
<1>. QED BY <1>1, <1>2, <1>3, <1>5, <1>6 DEF RingIInv

LEMMA AfterResetHead == ASSUME RingIInv, ResetHead PROVE RingIInv'
<1>1. /\ rx' = [rx EXCEPT !.head = 0] /\ pusher' = [pusher EXCEPT !.step = "reset"]
      /\ last' = last /\ reader' = reader /\ sent' = sent
      /\ raced' = (raced \/ reader.step # "idle")
  BY DEF ResetHead
<1>2. 0 \in Places
  BY RingAssumption DEF Places
<1>3. rx' \in [cell : [Places -> Byte \cup {NoByte}], head : Places, tail : Places]
      /\ rx'.head = 0
  BY <1>1, <1>2 DEF RingIInv, RingTypeOK
<1>4. pusher' \in [step : {"none", "reset", "idle", "push"}, head : Places]
      /\ pusher'.step = "reset"
  BY <1>1 DEF RingIInv, RingTypeOK
<1>5. raced' \in BOOLEAN
  BY <1>1
<1>6. RingTypeOK'
  BY <1>1, <1>3, <1>4, <1>5 DEF RingIInv, RingTypeOK
<1>. QED BY <1>1, <1>3, <1>4, <1>6 DEF RingIInv

LEMMA AfterPush == ASSUME RingIInv, NEW n \in 1 .. 3, Push(n) PROVE RingIInv'
<1>. DEFINE t == rx.tail
            h == rx.head
            d == Filling
            c == rx.cell
            m == sent + 1
<1>1. /\ pusher.step = "idle" /\ sent' = m /\ m \in 1 .. MaxMessages /\ reader' = reader
      /\ last' = last /\ raced' = raced
  BY RingRanges DEF Push
<1>2. last'.m <= sent' /\ last'.m < sent'
  BY <1>1, RingRanges DEF RingIInv, RxByte
<1>3. RxAt(c, t, last, d) \in RxByte /\ \A k \in 0 .. d : RxAt(c, t, last, k) \in RxByte
  <2>1. d \in 0 .. d /\ \A k \in 0 .. d : k \in 0 .. RxSize
    BY RingRanges
  <2>2. \A k \in 0 .. d : RxAt(c, t, last, k) \in RxByte
    BY <2>1, RingRanges, RxAtByte
  <2>. QED BY <2>1, <2>2
<1>4. CASE n > Room
  <2>1. rx' = rx /\ pusher' = pusher
    BY <1>4 DEF Push
  <2>2. RingTypeOK'
    BY <1>1, <2>1 DEF RingIInv, RingTypeOK
  <2>3. ~raced => Flows(c, t, last, d, m)
    BY <1>1, <1>3, RingRanges DEF RingIInv, RingSound, Flows, RxByte
  <2>4. ~raced => RingSound'
    BY <1>1, <2>1, <2>3 DEF RingSound, Filling
  <2>5. reader.step # "idle" /\ ~raced => ReadSound'
    BY <1>1, <2>1 DEF RingIInv, ReadSound, Filling
  <2>. QED BY <1>1, <1>2, <2>1, <2>2, <2>4, <2>5 DEF RingIInv
<1>5. CASE n <= Room
  <2>. DEFINE full == Filled(m, n)
              to == (h + n) % RxSize
  <2>1. rx' = [rx EXCEPT !.cell = full] /\ pusher' = [step |-> "push", head |-> to]
    BY <1>1, <1>5, RingRanges DEF Push, Room, Ahead, Places
  <2>2. Dist(RxSize, t, h) = d /\ d + n <= RxSize - 1 /\ d \in 0 .. RxSize - 1
    BY <1>5, RingRanges DEF Room, Ahead, Dist, Filling
  <2>3. PutAt(full, c, h, n, m)
    BY DEF Filled, Ahead, Dist, PutAt
  <2>4. full \in Cells
    <3>1. ASSUME NEW p \in Places PROVE full[p] \in Byte \cup {NoByte}
      <4>1. Dist(RxSize, h, p) \in 0 .. RxSize - 1
        BY RingRanges, DistIs
      <4>2. CASE Dist(RxSize, h, p) + 1 <= n
        <5>1. Dist(RxSize, h, p) + 1 \in 1 .. 3
          BY <4>1, <4>2, RingRanges
        <5>2. full[p] = [m |-> m, i |-> Dist(RxSize, h, p) + 1, n |-> n]
          BY <2>3, <4>2 DEF PutAt
        <5>. HIDE DEF full, m, h
        <5>. QED BY <1>1, <5>1, <5>2 DEF Byte
      <4>3. CASE ~(Dist(RxSize, h, p) + 1 <= n)
        BY <2>3, <4>3, RingRanges DEF Cells, PutAt
      <4>. QED BY <4>2, <4>3
    <3>2. full = [p \in Places |-> full[p]]
      BY DEF Filled
    <3>. HIDE DEF full
    <3>. QED BY <3>1, <3>2 DEF Cells
  <2>. HIDE DEF full
  <2>5. /\ to \in Places /\ Dist(RxSize, h, to) = n
        /\ \A k \in 1 .. d : full[Nth(RxSize, t, k)] = c[Nth(RxSize, t, k)]
        /\ \A k \in 1 .. n : full[Nth(RxSize, t, d + k)] = [m |-> m, i |-> k, n |-> n]
    <3>. HIDE DEF to, d, m, c, t, h
    <3>1. t \in Places /\ h \in Places /\ c \in Cells
      BY RingRanges DEF t, h, c
    <3>2. Dist(RxSize, t, h) + n <= RxSize - 1 /\ m \in 1 .. MaxMessages
      BY <1>1, <2>2
    <3>3. PutFollows(full, c, t, h, n, m)
      BY <2>3, <2>4, <3>1, <3>2, PutBeyond
    <3>. QED BY <2>2, <3>3 DEF to, PutFollows
  <2>6. rx'.cell = full /\ rx'.head = h /\ rx'.tail = t /\ Filling' = d
    BY <2>1 DEF RingIInv, RingTypeOK, Filling
  <2>7. RingTypeOK'
    <3>1. rx' \in [cell : [Places -> Byte \cup {NoByte}], head : Places, tail : Places]
      BY <2>1, <2>4 DEF RingIInv, RingTypeOK, Cells
    <3>. HIDE DEF to
    <3>. QED BY <1>1, <2>1, <2>5, <3>1 DEF RingIInv, RingTypeOK
  <2>8. \A k \in 0 .. d : RxAt(full, t, last, k) = RxAt(c, t, last, k)
    BY <2>2, <2>5 DEF RxAt
  <2>9. ~raced => Flows(full, t, last, d, m)
    <3>. SUFFICES ASSUME ~raced PROVE Flows(full, t, last, d, m)
      OBVIOUS
    <3>1. Flows(c, t, last, 0 + d, m)
      BY <1>1, <1>3, RingRanges DEF RingIInv, RingSound, Flows, RxByte
    <3>2. \A k \in 0 .. d : RxAt(full, t, last, k) = RxAt(c, t, last, 0 + k)
      BY <2>8
    <3>. HIDE DEF c, t, d, m
    <3>. QED BY <2>2, <3>1, <3>2, SameFlow
  <2>10. ~raced => Beyond(full, t, last, d, n, m)
    <3>1. ~raced => RxAt(full, t, last, d).m < m
      <4>1. ~raced => RxAt(c, t, last, d).m <= sent
        BY <1>1, RingRanges DEF RingIInv, RingSound, Flows
      <4>2. RxAt(full, t, last, d) = RxAt(c, t, last, d)
        BY <2>2, <2>8
      <4>. QED BY <1>3, <4>1, <4>2, RingRanges DEF RxByte
    <3>2. \A k \in 1 .. n : RxAt(full, t, last, d + k) = [m |-> m, i |-> k, n |-> n]
      BY <2>2, <2>5 DEF RxAt
    <3>. QED BY <2>2, <3>1, <3>2 DEF Beyond
  <2>11. ~raced => RingSound'
    <3>1. pusher'.head = to
      BY <2>1
    <3>. HIDE DEF to, t, d, m, h
    <3>. QED BY <1>1, <2>5, <2>6, <2>9, <2>10, <3>1 DEF RingSound
  <2>12. ASSUME reader.step # "idle", ~raced PROVE ReadSound'
    <3>1. ReadSound /\ pusher'.step # "reset"
      BY <2>1, <2>12 DEF RingIInv
    <3>2. reader.step = "copied" => \A k \in 1 .. Len(reader.got) : k \in 1 .. d
      <4>1. Dist(RxSize, t, reader.head) \in Nat
        <5>1. t \in 0 .. RxSize - 1 /\ reader.head \in 0 .. RxSize - 1 /\ RxSize \in Nat \ {0}
          BY RingRanges
        <5>. HIDE DEF t
        <5>2. Dist(RxSize, t, reader.head) \in 0 .. RxSize - 1
          BY <5>1, DistIs
        <5>. QED BY <5>2
      <4>2. reader.step = "copied" => Len(reader.got) <= Dist(RxSize, t, reader.head)
                                      /\ Dist(RxSize, t, reader.head) <= d
        BY <3>1 DEF ReadSound
      <4>3. Len(reader.got) \in Nat
        BY DEF RingIInv, RingTypeOK
      <4>. HIDE DEF d, t
      <4>. QED BY <2>2, <4>1, <4>2, <4>3
    <3>. QED BY <1>1, <2>5, <2>6, <3>1, <3>2 DEF ReadSound
  <2>13. pusher'.step = "push"
    BY <2>1
  <2>. QED BY <1>1, <1>2, <2>7, <2>11, <2>12, <2>13 DEF RingIInv
<1>6. Room \in Int
  BY RingRanges DEF Room, Ahead, Places
<1>. QED BY <1>4, <1>5, <1>6

LEMMA AfterPushed == ASSUME RingIInv, Pushed PROVE RingIInv'
<1>. DEFINE N == RxSize
            t == rx.tail
            h == rx.head
            to == pusher.head
            d == Filling
            n == Dist(RxSize, h, to)
<1>1. /\ pusher.step = "push" /\ rx' = [rx EXCEPT !.head = to] /\ reader' = reader /\ sent' = sent
      /\ last' = last /\ raced' = raced /\ pusher' = [pusher EXCEPT !.step = "idle"]
  BY DEF Pushed
<1>2. rx'.cell = rx.cell /\ rx'.head = to /\ rx'.tail = t /\ pusher'.step = "idle" /\ RingTypeOK'
  BY <1>1 DEF RingIInv, RingTypeOK
<1>3. /\ N \in Nat \ {0} /\ t \in 0 .. N - 1 /\ h \in 0 .. N - 1 /\ to \in 0 .. N - 1
      /\ d = Dist(N, t, h) /\ d \in 0 .. N - 1
  BY RingRanges DEF Filling
<1>. HIDE DEF N, t, h, to, d
<1>4. n \in 0 .. N - 1 /\ n = IF to >= h THEN to - h ELSE to - h + N
  BY <1>3, DistIs DEF N
<1>. HIDE DEF n
<1>5. d = IF h >= t THEN h - t ELSE h - t + N
  BY <1>3, DistIs
<1>6. Dist(N, t, to) = IF to >= t THEN to - t ELSE to - t + N
  BY <1>3, DistIs
<1>7. ASSUME ~raced PROVE RingSound' /\ d <= Filling'
  <2>1. Flows(rx.cell, t, last, d, sent) /\ Beyond(rx.cell, t, last, d, n, sent)
    BY <1>1, <1>7 DEF RingIInv, RingSound, t, h, to, d, n
  <2>2. n \in 1 .. 3 /\ d + n <= N - 1
    BY <2>1 DEF Beyond, N
  <2>3. Dist(N, t, to) = d + n
    BY <1>3, <1>4, <1>5, <1>6, <2>2
  <2>4. Flows(rx.cell, t, last, d + n, sent)
    <3>1. rx.cell \in Cells /\ t \in Places /\ last \in RxByte /\ sent \in Nat
          /\ d \in 0 .. RxSize - 1 /\ n \in Nat
      BY <1>3, <2>2, RingRanges DEF t, d
    <3>. QED BY <2>1, <3>1, FlowsOn
  <2>5. Filling' = d + n
    BY <1>2, <2>3 DEF Filling, N
  <2>. QED BY <1>1, <1>2, <1>3, <1>4, <2>4, <2>5 DEF RingSound
<1>8. ASSUME reader.step # "idle", ~raced PROVE ReadSound'
  <2>1. ReadSound /\ Dist(RxSize, t, reader.head) \in Int
    <3>1. reader.head \in 0 .. N - 1
      BY RingRanges DEF N
    <3>2. Dist(N, t, reader.head) \in 0 .. N - 1
      BY <1>3, <3>1, DistIs
    <3>. QED BY <1>8, <3>2 DEF RingIInv, N
  <2>2. reader.step \in {"head", "copied"} => Dist(RxSize, t, reader.head) <= Filling'
    <3>1. Filling' \in Int
      BY <1>2, <1>3, <1>6 DEF Filling, N
    <3>2. reader.step \in {"head", "copied"} => Dist(RxSize, t, reader.head) <= d
      BY <2>1 DEF ReadSound, t, d
    <3>. QED BY <1>3, <1>7, <1>8, <2>1, <3>1, <3>2
  <2>. QED BY <1>1, <1>2, <2>1, <2>2 DEF ReadSound, t
<1>. QED BY <1>1, <1>2, <1>7, <1>8 DEF RingIInv

LEMMA AfterReadTail == ASSUME RingIInv, ReadTail PROVE RingIInv'
<1>1. /\ reader' = [reader EXCEPT !.step = "tail", !.tail = rx.tail]
      /\ raced' = (raced \/ pusher.step = "reset")
      /\ rx' = rx /\ pusher' = pusher /\ sent' = sent /\ last' = last /\ reader.got = <<>>
  BY DEF ReadTail, RingIInv
<1>2. /\ reader'.step = "tail" /\ reader'.tail = rx.tail /\ reader'.head = reader.head
      /\ reader'.got = reader.got
  BY <1>1 DEF ReadTail
<1>3. raced' \in BOOLEAN
  BY <1>1
<1>4. RingTypeOK'
  BY <1>1, <1>2, <1>3 DEF RingIInv, RingTypeOK
<1>5. ~raced' => ReadSound' /\ RingSound'
  BY <1>1, <1>2 DEF RingIInv, ReadSound, RingSound, Filling
<1>. QED BY <1>1, <1>2, <1>4, <1>5 DEF RingIInv

LEMMA AfterReadHead == ASSUME RingIInv, ReadHead PROVE RingIInv'
<1>1. /\ reader' = [reader EXCEPT !.step = "head", !.head = rx.head] /\ reader.step = "tail"
      /\ rx' = rx /\ pusher' = pusher /\ sent' = sent /\ last' = last /\ raced' = raced
      /\ reader.got = <<>>
  BY DEF ReadHead, RingIInv
<1>2. /\ reader'.step = "head" /\ reader'.tail = reader.tail /\ reader'.head = rx.head
      /\ reader'.got = reader.got
  BY <1>1 DEF ReadHead
<1>3. RingTypeOK'
  BY <1>1, <1>2 DEF RingIInv, RingTypeOK
<1>4. Filling' = Filling /\ Filling = Dist(RxSize, rx.tail, rx.head) /\ Filling <= Filling
  BY <1>1, RingRanges DEF Filling
<1>5. ~raced => ReadSound'
  BY <1>1, <1>2, <1>4 DEF RingIInv, ReadSound
<1>6. ~raced /\ pusher.step # "reset" => RingSound'
  BY <1>1, <1>4 DEF RingIInv, RingSound
<1>. QED BY <1>1, <1>2, <1>3, <1>5, <1>6 DEF RingIInv

LEMMA AfterReadCopies == ASSUME RingIInv, ReadCopies PROVE RingIInv'
<1>. DEFINE all == Between(reader.tail, reader.head)
            n == Dist(RxSize, reader.tail, reader.head)
<1>1. /\ reader.step = "head" /\ rx' = rx /\ pusher' = pusher /\ sent' = sent /\ last' = last
      /\ raced' = raced
  BY DEF ReadCopies
<1>2. n \in Nat /\ n \in 0 .. RxSize - 1 /\ \A k \in 1 .. n : Nth(RxSize, reader.tail, k) \in Places
  <2>1. n \in 0 .. RxSize - 1
    <3>1. reader.tail \in 0 .. RxSize - 1 /\ reader.head \in 0 .. RxSize - 1
          /\ RxSize \in Nat \ {0}
      BY RingRanges
    <3>. QED BY <3>1, DistIs
  <2>. HIDE DEF n
  <2>2. \A k \in 1 .. n : k \in 1 .. RxSize
    BY <2>1, RingRanges
  <2>3. \A k \in 1 .. n : Nth(RxSize, reader.tail, k) \in Places
    <3>. TAKE k \in 1 .. n
    <3>1. k \in 1 .. RxSize /\ reader.tail \in 0 .. RxSize - 1 /\ RxSize \in Nat \ {0}
      BY <2>2, RingRanges
    <3>2. Nth(RxSize, reader.tail, k) \in 0 .. RxSize - 1
      BY <3>1, NthIs
    <3>. QED BY <3>2 DEF Places
  <2>. QED BY <2>1, <2>3
<1>3. all = [k \in 1 .. n |-> rx.cell[Nth(RxSize, reader.tail, k)]]
  BY DEF Between, Ahead, Dist, Nth
<1>. HIDE DEF all, n
<1>4. \A k \in 1 .. n : all[k] \in Byte \cup {NoByte}
  BY <1>2, <1>3, RingRanges DEF Cells
<1>5. all \in Seq(Byte \cup {NoByte}) /\ Len(all) = n
  BY <1>2, <1>3, <1>4
<1>6. PICK len \in 0 .. Len(all) :
        reader' = [reader EXCEPT !.step = "copied", !.got = SubSeq(all, 1, len)]
  BY DEF ReadCopies, all
<1>. DEFINE got == SubSeq(all, 1, len)
<1>7. got \in Seq(Byte \cup {NoByte}) /\ Len(got) = len /\ \A k \in 1 .. len : got[k] = all[k]
  BY <1>2, <1>5, <1>6
<1>. HIDE DEF got
<1>8. /\ reader'.step = "copied" /\ reader'.tail = reader.tail /\ reader'.head = reader.head
      /\ reader'.got = got
      /\ reader' \in [step : {"idle", "tail", "head", "copied"}, tail : Places, head : Places,
                      got : Seq(Byte \cup {NoByte})]
  <2>1. reader' = [reader EXCEPT !.step = "copied", !.got = got]
    BY <1>6 DEF got
  <2>. QED BY <1>7, <2>1 DEF RingIInv, RingTypeOK
<1>9. RingTypeOK'
  BY <1>1, <1>7, <1>8 DEF RingIInv, RingTypeOK
<1>10. Filling' = Filling
  BY <1>1 DEF Filling
<1>11. ASSUME ~raced PROVE ReadSound'
  <2>1. ReadSound
    BY <1>1, <1>11 DEF RingIInv
  <2>2. Len(got) <= n
    BY <1>2, <1>5, <1>6, <1>7
  <2>3. \A k \in 1 .. Len(got) : got[k] = rx.cell[Nth(RxSize, reader.tail, k)]
    <3>1. \A k \in 1 .. Len(got) : k \in 1 .. n /\ k \in 1 .. len
      BY <1>2, <1>5, <1>6, <1>7
    <3>2. \A k \in 1 .. n : all[k] = rx.cell[Nth(RxSize, reader.tail, k)]
      BY <1>3
    <3>. QED BY <1>7, <3>1, <3>2
  <2>. QED BY <1>1, <1>8, <1>10, <2>1, <2>2, <2>3 DEF ReadSound, n
<1>12. ~raced /\ pusher.step # "reset" => RingSound'
  BY <1>1, <1>10 DEF RingIInv, RingSound
<1>. QED BY <1>1, <1>8, <1>9, <1>11, <1>12 DEF RingIInv

\* What read() has copied is a beginning of what is in the ring, and what comes
\* after it is where NextTail says.
LEMMA CopiedIsThere ==
  ASSUME RingIInv, reader.step = "copied", ~raced
  PROVE  /\ Len(reader.got) \in 0 .. Filling /\ NextTail \in Places
         /\ Dist(RxSize, NextTail, rx.head) = Filling - Len(reader.got)
         /\ \A k \in 1 .. Len(reader.got) : reader.got[k] = RxAt(rx.cell, rx.tail, last, k)
         /\ \A k \in 1 .. RxSize - Len(reader.got) :
              Nth(RxSize, NextTail, k) = Nth(RxSize, rx.tail, Len(reader.got) + k)
<1>. DEFINE N == RxSize
            t == rx.tail
            h == rx.head
            n == Len(reader.got)
<1>1. /\ N \in Nat \ {0} /\ t \in 0 .. N - 1 /\ h \in 0 .. N - 1 /\ n \in Nat
      /\ reader.head \in 0 .. N - 1 /\ Places = 0 .. N - 1
  BY RingRanges DEF RingIInv, RingTypeOK
<1>2. /\ reader.tail = t /\ Dist(N, t, reader.head) <= Filling /\ n <= Dist(N, t, reader.head)
      /\ \A k \in 1 .. n : reader.got[k] = rx.cell[Nth(N, t, k)]
  BY DEF RingIInv, ReadSound
<1>3. Filling = Dist(N, t, h)
  BY DEF Filling
<1>4. NextTail = (t + n) % N
  BY <1>2 DEF NextTail
<1>. HIDE DEF N, t, h, n
<1>5. Dist(N, t, reader.head) \in 0 .. N - 1 /\ Dist(N, t, h) \in 0 .. N - 1
  <2>1. Dist(N, t, reader.head) \in 0 .. N - 1
    BY <1>1, DistIs
  <2>2. Dist(N, t, h) \in 0 .. N - 1
    BY <1>1, DistIs
  <2>. QED BY <2>1, <2>2
<1>6. n \in 0 .. Dist(N, t, h)
  BY <1>1, <1>2, <1>3, <1>5
<1>7. /\ (t + n) % N \in 0 .. N - 1 /\ Dist(N, (t + n) % N, h) = Dist(N, t, h) - n
      /\ \A k \in 1 .. N - n : Nth(N, (t + n) % N, k) = Nth(N, t, n + k)
  BY <1>1, <1>6, Passed
<1>8. \A k \in 1 .. n : reader.got[k] = RxAt(rx.cell, t, last, k)
  BY <1>1, <1>2 DEF RxAt, N
<1>9. /\ n \in 0 .. Filling /\ NextTail \in Places /\ Dist(N, NextTail, h) = Filling - n
      /\ \A k \in 1 .. N - n : Nth(N, NextTail, k) = Nth(N, t, n + k)
  BY <1>1, <1>3, <1>4, <1>6, <1>7
<1>10. /\ \A k \in 1 .. Len(reader.got) : reader.got[k] = RxAt(rx.cell, rx.tail, last, k)
       /\ Len(reader.got) = n /\ N = RxSize /\ t = rx.tail /\ h = rx.head
  BY <1>8 DEF n, t, N, h
<1>. QED BY <1>9, <1>10

LEMMA AfterReadEnds == ASSUME RingIInv, ReadEnds PROVE RingIInv'
<1>. DEFINE n == Len(reader.got)
            t == rx.tail
            u == NextTail
            c == rx.cell
            d == Filling
<1>1. /\ reader.step = "copied" /\ rx' = [rx EXCEPT !.tail = u] /\ reader' = NotReading
      /\ pusher' = pusher /\ sent' = sent /\ raced' = raced
      /\ last' = IF raced \/ reader.got = <<>> THEN last ELSE reader.got[n]
  BY DEF ReadEnds
<1>2. /\ reader.got \in Seq(Byte \cup {NoByte}) /\ n \in Nat /\ (reader.got = <<>> <=> n = 0)
  BY DEF RingIInv, RingTypeOK
<1>3. u \in Places
  <2>1. reader.tail \in Int /\ RxSize \in Nat \ {0} /\ reader.tail + n \in Int
    BY <1>2, RingRanges
  <2>. HIDE DEF n
  <2>2. \A a \in Int : a % RxSize \in 0 .. RxSize - 1
    BY <2>1
  <2>. QED BY <2>1, <2>2, RingRanges DEF NextTail, n
<1>4. /\ rx'.cell = c /\ rx'.head = rx.head /\ rx'.tail = u
      /\ rx' \in [cell : [Places -> Byte \cup {NoByte}], head : Places, tail : Places]
  <2>. HIDE DEF u
  <2>. QED BY <1>1, <1>3 DEF RingIInv, RingTypeOK
<1>5. RingTypeOK'
  <2>1. NotReading \in [step : {"idle", "tail", "head", "copied"}, tail : Places,
                        head : Places, got : Seq(Byte \cup {NoByte})]
    BY RingAssumption DEF NotReading, Places
  <2>. QED BY <1>1, <1>4, <2>1 DEF RingIInv, RingTypeOK
<1>6. NotReading.step = "idle" /\ NotReading.got = <<>>
  BY DEF NotReading
<1>7. CASE raced
  BY <1>1, <1>4, <1>5, <1>6, <1>7 DEF RingIInv
<1>8. CASE ~raced
  <2>1. /\ n \in 0 .. d /\ d \in 0 .. RxSize - 1 /\ t \in Places /\ c \in Cells
        /\ \A k \in 1 .. n : reader.got[k] = RxAt(c, t, last, k)
        /\ Dist(RxSize, u, rx.head) = d - n
        /\ \A k \in 1 .. RxSize - n : Nth(RxSize, u, k) = Nth(RxSize, t, n + k)
    BY <1>1, <1>8, CopiedIsThere, RingRanges
  <2>2. last' = RxAt(c, t, last, n)
    BY <1>1, <1>2, <1>8, <2>1 DEF RxAt
  <2>3. pusher.step # "reset" /\ RingSound
    BY <1>1, <1>8 DEF RingIInv, ReadSound
  <2>4. Flows(c, t, last, d, sent)
    BY <2>3 DEF RingSound
  <2>5. last' \in RxByte /\ last'.m <= sent
    <3>1. n \in 0 .. RxSize
      BY <2>1, RingRanges
    <3>2. RxAt(c, t, last, n) \in RxByte
      BY <2>1, <3>1, RxAtByte, RingRanges
    <3>3. RxAt(c, t, last, n).m <= sent
      BY <2>1, <2>4 DEF Flows
    <3>. QED BY <2>2, <3>2, <3>3
  <2>6. Filling' = d - n
    BY <1>4, <2>1 DEF Filling
  <2>. HIDE DEF n, t, u, c, d
  <2>7. \A k \in 0 .. RxSize - n : RxAt(c, u, last', k) = RxAt(c, t, last, n + k)
    <3>. TAKE k \in 0 .. RxSize - n
    <3>1. CASE k = 0
      BY <1>2, <2>2, <3>1 DEF RxAt
    <3>2. CASE k # 0
      <4>1. k \in 1 .. RxSize - n /\ n + k # 0
        BY <1>2, <3>2, RingRanges
      <4>. QED BY <2>1, <3>2, <4>1 DEF RxAt
    <3>. QED BY <3>1, <3>2
  <2>8. d - n \in Nat /\ d = n + (d - n) /\ n \in Nat /\ sent \in Nat
    BY <1>2, <2>1, RingRanges
  <2>9. Flows(c, u, last', d - n, sent)
    <3>1. \A k \in 0 .. d - n : RxAt(c, u, last', k) = RxAt(c, t, last, n + k)
      BY <2>1, <2>7, <2>8, RingRanges
    <3>2. Flows(c, t, last, n + (d - n), sent)
      BY <2>4, <2>8
    <3>. DEFINE e == d - n
    <3>3. e \in Nat
      BY <2>8
    <3>. HIDE DEF e
    <3>4. Flows(c, u, last', e, sent)
      BY <2>8, <3>1, <3>2, <3>3, SameFlow DEF e
    <3>. QED BY <3>4 DEF e
  <2>10. ASSUME pusher.step = "push"
         PROVE  Beyond(c, u, last', d - n, Dist(RxSize, rx.head, pusher.head), sent)
    <3>. DEFINE p == Dist(RxSize, rx.head, pusher.head)
    <3>1. Beyond(c, t, last, d, p, sent)
      BY <2>3, <2>10 DEF RingSound, c, t, d
    <3>. HIDE DEF p
    <3>2. p \in Nat /\ d + p <= RxSize - 1
      BY <3>1 DEF Beyond
    <3>3. \A k \in 0 .. (d - n) + p : RxAt(c, u, last', k) = RxAt(c, t, last, n + k)
      BY <2>1, <2>7, <2>8, <3>2, RingRanges
    <3>4. Beyond(c, u, last', d - n, p, sent)
      BY <2>8, <3>1, <3>2, <3>3, SameBeyond
    <3>. QED BY <3>4 DEF p
  <2>11. RingSound'
    BY <1>1, <1>4, <2>6, <2>9, <2>10 DEF RingSound
  <2>. QED BY <1>1, <1>5, <1>6, <2>3, <2>5, <2>11 DEF RingIInv
<1>. QED BY <1>7, <1>8

LEMMA NextRing == ASSUME RingIInv, [RingNext]_ringVars PROVE RingIInv'
<1>1. CASE UNCHANGED ringVars
  BY <1>1 DEF ringVars, RingIInv, RingTypeOK, ReadSound, RingSound, Filling
<1>. QED BY <1>1, AfterResetHead, AfterResetTail, AfterPush, AfterPushed, AfterReadTail,
            AfterReadHead, AfterReadCopies, AfterReadEnds DEF RingNext

\* What two sequences hold one after the other.
LEMMA Concatenated ==
  ASSUME NEW S, NEW s \in Seq(S), NEW T, NEW t \in Seq(T)
  PROVE  /\ Len(s \o t) = Len(s) + Len(t)
         /\ \A k \in 1 .. Len(s) : (s \o t)[k] = s[k]
         /\ \A k \in Len(s) + 1 .. Len(s) + Len(t) : (s \o t)[k] = t[k - Len(s)]
<1>1. Len(s) \in Nat /\ Len(t) \in Nat
  OBVIOUS
<1>. QED
  BY <1>1

\* What was read, what read() has copied and what is in the ring make one stream.
LEMMA StreamIsWhole == RingIInv => StreamWhole
<1>. SUFFICES ASSUME RingIInv, ~raced, pusher.step # "reset" PROVE StreamWhole
  BY DEF StreamWhole
<1>. DEFINE tail == IF reader.step = "copied" THEN NextTail ELSE rx.tail
            rest == Between(tail, rx.head)
            all == <<last>> \o reader.got \o rest
            n == Len(reader.got)
            d == Filling
            At(k) == RxAt(rx.cell, rx.tail, last, k)
<1>1. /\ n \in 0 .. d /\ d \in 0 .. RxSize - 1 /\ tail \in Places
      /\ Dist(RxSize, tail, rx.head) = d - n
      /\ \A k \in 1 .. n : reader.got[k] = At(k)
      /\ \A k \in 1 .. RxSize - n : Nth(RxSize, tail, k) = Nth(RxSize, rx.tail, n + k)
  <2>1. CASE reader.step = "copied"
    BY <2>1, CopiedIsThere, RingRanges
  <2>2. CASE reader.step # "copied"
    <3>1. n = 0 /\ tail = rx.tail
      BY <2>2 DEF RingIInv
    <3>2. \A k \in 1 .. RxSize - n : n + k = k
      BY <3>1, RingRanges
    <3>3. Dist(RxSize, tail, rx.head) = d
      BY <3>1 DEF Filling
    <3>. HIDE DEF n, tail, d
    <3>. QED BY <3>1, <3>2, <3>3, RingRanges DEF d
  <2>. QED BY <2>1, <2>2
<1>2. rest = [k \in 1 .. d - n |-> rx.cell[Nth(RxSize, tail, k)]]
  <2>1. rest = [k \in 1 .. Dist(RxSize, tail, rx.head) |-> rx.cell[Nth(RxSize, tail, k)]]
    BY DEF Between, Ahead, Dist, Nth
  <2>. QED BY <1>1, <2>1
<1>3. Flows(rx.cell, rx.tail, last, d, sent)
  BY DEF RingIInv, RingSound
<1>4. reader.got \in Seq(Byte \cup {NoByte}) /\ last \in RxByte
  BY DEF RingIInv, RingTypeOK
<1>5. \A k \in 1 .. d - n : rest[k] = At(n + k) /\ rest[k] \in Byte \cup {NoByte}
  <2>. TAKE k \in 1 .. d - n
  <2>1. k \in 1 .. RxSize - n /\ n + k # 0 /\ n + k \in 1 .. RxSize
    <3>. HIDE DEF n, d
    <3>. QED BY <1>1, RingRanges
  <2>2. rest[k] = rx.cell[Nth(RxSize, rx.tail, n + k)]
    BY <1>1, <1>2, <2>1
  <2>3. Nth(RxSize, rx.tail, n + k) \in Places
    <3>. DEFINE l == n + k
    <3>1. l \in 1 .. RxSize /\ rx.tail \in 0 .. RxSize - 1 /\ RxSize \in Nat \ {0}
      BY <2>1, RingRanges
    <3>. HIDE DEF l
    <3>2. Nth(RxSize, rx.tail, l) \in 0 .. RxSize - 1
      BY <3>1, NthIs
    <3>. QED BY <3>2 DEF l, Places
  <2>. QED BY <2>1, <2>2, <2>3, RingRanges DEF RxAt, Cells
<1>6. rest \in Seq(Byte \cup {NoByte}) /\ Len(rest) = d - n
  <2>1. d - n \in Nat
    BY <1>1
  <2>. HIDE DEF rest, d, n
  <2>. QED BY <1>2, <1>5, <2>1
<1>7. At(0) = last
  BY DEF RxAt
<1>. HIDE DEF rest, n, d, At, tail
<1>8. Len(all) = d + 1 /\ \A k \in 1 .. d + 1 : all[k] = At(k - 1)
  <2>. DEFINE two == <<last>> \o reader.got
  <2>1. /\ two \in Seq(RxByte \cup Byte \cup {NoByte}) /\ Len(two) = n + 1
        /\ two[1] = last /\ \A k \in 2 .. n + 1 : two[k] = reader.got[k - 1]
    BY <1>1, <1>4 DEF n
  <2>. HIDE DEF two
  <2>2. /\ Len(two \o rest) = n + 1 + (d - n)
        /\ \A k \in 1 .. n + 1 : (two \o rest)[k] = two[k]
        /\ \A k \in n + 2 .. d + 1 : (two \o rest)[k] = rest[k - (n + 1)]
    <3>. DEFINE e == d - n
    <3>1. /\ rest \in Seq(Byte \cup {NoByte}) /\ Len(rest) = e /\ e \in Nat /\ n + 1 \in Nat
          /\ n + 1 + e = d + 1
      BY <1>1, <1>6
    <3>. HIDE DEF e
    <3>2. /\ Len(two \o rest) = n + 1 + e
          /\ \A k \in 1 .. n + 1 : (two \o rest)[k] = two[k]
          /\ \A k \in (n + 1) + 1 .. (n + 1) + e : (two \o rest)[k] = rest[k - (n + 1)]
      <4>1. /\ Len(two \o rest) = Len(two) + Len(rest)
            /\ \A k \in 1 .. Len(two) : (two \o rest)[k] = two[k]
            /\ \A k \in Len(two) + 1 .. Len(two) + Len(rest) :
                 (two \o rest)[k] = rest[k - Len(two)]
        BY <2>1, <3>1, Concatenated
      <4>. QED BY <2>1, <3>1, <4>1
    <3>. QED BY <1>1, <3>1, <3>2 DEF e
  <2>3. all = two \o rest
    BY DEF two
  <2>. HIDE DEF all
  <2>4. ASSUME NEW k \in 1 .. d + 1 PROVE all[k] = At(k - 1)
    <3>1. CASE k = 1
      BY <1>1, <1>7, <2>1, <2>2, <2>3, <3>1
    <3>2. CASE k \in 2 .. n + 1
      <4>1. k - 1 \in 1 .. n /\ k \in 1 .. n + 1
        BY <1>1, <3>2
      <4>. QED BY <1>1, <2>1, <2>2, <2>3, <3>2, <4>1
    <3>3. CASE k \in n + 2 .. d + 1
      <4>1. k - (n + 1) \in 1 .. d - n /\ n + (k - (n + 1)) = k - 1
        BY <1>1, <3>3
      <4>. QED BY <1>5, <2>2, <2>3, <3>3, <4>1
    <3>. QED BY <1>1, <3>1, <3>2, <3>3
  <2>. QED BY <1>1, <2>2, <2>3, <2>4
<1>. HIDE DEF all
<1>9. ASSUME NEW k \in 1 .. Len(all) - 1 PROVE Follows(all[k], all[k + 1])
  <2>1. k - 1 \in 0 .. d - 1 /\ k \in 1 .. d + 1 /\ k + 1 \in 1 .. d + 1 /\ (k - 1) + 1 = k
        /\ (k + 1) - 1 = k
    BY <1>1, <1>8
  <2>2. Follows(At(k - 1), At((k - 1) + 1))
    BY <1>3, <2>1 DEF Flows, At
  <2>. QED BY <1>8, <2>1, <2>2
<1>10. all[Len(all)].i = all[Len(all)].n
  <2>1. d + 1 \in 1 .. d + 1 /\ (d + 1) - 1 = d
    BY <1>1
  <2>2. At(d).i = At(d).n
    BY <1>3 DEF Flows, At
  <2>. QED BY <1>8, <2>1, <2>2
<1>. QED BY <1>9, <1>10 DEF StreamWhole, all, rest, tail
-----------------------------------------------------------------------------
\* A full ring drops a message rather than splitting it, and the reader gets the
\* bytes that came in order and once, whatever the size of the ring and however the
\* client task's stores and read()'s loads and store interleave, up to a read that a
\* new device resets the ring under.
THEOREM MidiStreamIsWhole == RingSpec => []StreamWhole
<1>1. RingIInv /\ [RingNext]_ringVars => RingIInv'
  BY NextRing
<1>. QED BY InitRing, <1>1, StreamIsWhole, PTL DEF RingSpec

\* The range of every variable of the USB components: no index leaves its buffer.
THEOREM UsbTypes ==
  /\ MidiSpec => []MidiTypeOK
  /\ RingSpec => []RingTypeOK
  /\ MscSpec => []MscTypeOK
  /\ KeysSpec => []KeysTypeOK
<1>1. MidiSpec => []MidiTypeOK
  <2>1. MidiIInv /\ [MidiNext]_midiVars => MidiIInv'
    BY NextMidi
  <2>2. MidiIInv => MidiTypeOK
    BY DEF MidiIInv
  <2>. QED BY InitMidi, <2>1, <2>2, PTL DEF MidiSpec
<1>2. RingSpec => []RingTypeOK
  <2>1. RingIInv /\ [RingNext]_ringVars => RingIInv'
    BY NextRing
  <2>2. RingIInv => RingTypeOK
    BY DEF RingIInv
  <2>. QED BY InitRing, <2>1, <2>2, PTL DEF RingSpec
<1>3. MscSpec => []MscTypeOK
  <2>1. MscIInv /\ [MscNext]_mscVars => MscIInv'
    BY NextMsc
  <2>2. MscIInv => MscTypeOK
    BY DEF MscIInv
  <2>. QED BY InitMsc, <2>1, <2>2, PTL DEF MscSpec
<1>4. KeysSpec => []KeysTypeOK
  <2>1. KeysIInv /\ [KeysNext]_keysVars => KeysIInv'
    BY NextKeys
  <2>2. KeysIInv => KeysTypeOK
    BY DEF KeysIInv
  <2>. QED BY InitKeys, <2>1, <2>2, PTL DEF KeysSpec
<1>. QED BY <1>1, <1>2, <1>3, <1>4
=============================================================================
