--------------------------------- MODULE Keys ---------------------------------
(***************************************************************************)
(* Keyboard events for apps (papp_loader.cpp): the USB keyboard types on   *)
(* its task, the loop launches and ends apps, and the app's task reads.    *)
(* The ring is only touched under keyboard_mutex_, so that each access is  *)
(* one step; launched_ is read before.                                     *)
(***************************************************************************)
EXTENDS Integers, Sequences

CONSTANTS
  QueueSize,  \* KEYBOARD_QUEUE_SIZE
  MaxTaps,    \* bound: keys typed
  MaxRuns     \* bound: launches

ASSUME KeysAssumption == QueueSize \in Nat \ {0, 1} /\ MaxTaps \in Nat /\ MaxRuns \in Nat

VARIABLES
  keysFor,  \* launched_ and what comes of it: no app, one being started, loaded, running
  run,      \* history: how often the queue was cleared for a launch
  queue,    \* keyboard_queue_, keyboard_head_, keyboard_tail_
  typist,   \* where the keyboard's task is in a tap, and what it has found
  taps,     \* history: keys typed so far
  pending,  \* history: the events put into the queue and not read or dropped
  late      \* history: an event was put after the launch that followed its test

keysVars == <<keysFor, run, queue, typist, taps, pending, late>>

QueuePlaces == 0 .. QueueSize - 1
KeyEvent == [tap : 1 .. MaxTaps, down : BOOLEAN, run : 0 .. MaxRuns, running : BOOLEAN]
NoKey == [tap |-> 0, down |-> FALSE, run |-> 0, running |-> FALSE]

KeysInit ==
  /\ keysFor = "none" /\ run = 0 /\ taps = 0
  /\ queue = [cell |-> [k \in QueuePlaces |-> NoKey], head |-> 0, tail |-> 0]
  /\ typist = [step |-> "idle", event |-> NoKey]
  /\ pending = <<>> /\ late = FALSE
-----------------------------------------------------------------------------
(***************************************************************************)
(* The keyboard: a tap is a press and a release, each with its own test of *)
(* launched_ and its own wait for the lock                                 *)
(***************************************************************************)
NextPlace(k) == (k + 1) % QueueSize

\* enqueue_keyboard_text for a key it knows, up to the first event of the tap.
Tap ==
  /\ typist.step = "idle" /\ taps < MaxTaps
  /\ taps' = taps + 1
  /\ typist' = [step |-> "test", event |-> [NoKey EXCEPT !.tap = taps + 1, !.down = TRUE]]
  /\ UNCHANGED <<keysFor, run, queue, pending, late>>

\* After the press comes the release.
EventDone ==
  typist' = IF typist.event.down
            THEN [step |-> "test", event |-> [typist.event EXCEPT !.down = FALSE]]
            ELSE [step |-> "idle", event |-> NoKey]

\* enqueue_keyboard_event_: refused unless an app is launched.
TestLaunched ==
  /\ typist.step = "test"
  /\ IF keysFor = "none" THEN EventDone
     ELSE typist' = [step |-> "put", event |-> [typist.event EXCEPT
                       !.run = run, !.running = (keysFor = "running")]]
  /\ UNCHANGED <<keysFor, run, queue, taps, pending, late>>

\* The lock is not there in time: the event is dropped.
PutTimesOut ==
  /\ typist.step = "put"
  /\ EventDone
  /\ UNCHANGED <<keysFor, run, queue, taps, pending, late>>

Full == NextPlace(queue.head) = queue.tail
Keep(events) == IF Full THEN Tail(events) ELSE events

\* Faulty variant: a full queue is filled without its oldest event being dropped.
PutWraps ==
  /\ typist.step = "put"
  /\ queue' = [queue EXCEPT !.cell[queue.head] = typist.event, !.head = NextPlace(queue.head)]
  /\ pending' = Append(Keep(pending), typist.event)
  /\ late' = (late \/ typist.event.run # run)
  /\ EventDone
  /\ UNCHANGED <<keysFor, run, taps>>

\* A full queue drops its oldest event for the new one.
Put ==
  /\ typist.step = "put"
  /\ queue' = [cell |-> [queue.cell EXCEPT ![queue.head] = typist.event],
               head |-> NextPlace(queue.head),
               tail |-> IF Full THEN NextPlace(queue.tail) ELSE queue.tail]
  /\ pending' = Append(Keep(pending), typist.event)
  /\ late' = (late \/ typist.event.run # run)
  /\ EventDone
  /\ UNCHANGED <<keysFor, run, taps>>
-----------------------------------------------------------------------------
(***************************************************************************)
(* The loop and the app                                                    *)
(***************************************************************************)

\* A launch request is taken: launched_ is set ...
KeysLaunch ==
  /\ keysFor = "none" /\ run < MaxRuns
  /\ keysFor' = "starting"
  /\ UNCHANGED <<run, queue, typist, taps, pending, late>>

\* ... and clear_keyboard_queue_ empties the queue.
KeysCleared ==
  /\ keysFor = "starting"
  /\ keysFor' = "loading" /\ run' = run + 1
  /\ queue' = [queue EXCEPT !.head = 0, !.tail = 0]
  /\ pending' = <<>>
  /\ UNCHANGED <<typist, taps, late>>

\* launch_ and start_loaded_app_: the app is loaded and its task starts, or not.
KeysLoaded ==
  /\ keysFor = "loading"
  /\ keysFor' \in {"running", "none"}
  /\ UNCHANGED <<run, queue, typist, taps, pending, late>>

KeysAppEnds ==
  /\ keysFor = "running" /\ keysFor' = "none"
  /\ UNCHANGED <<run, queue, typist, taps, pending, late>>

\* read_keyboard_ gives the app the oldest event; without the lock or an event
\* it gives none.
ReadKey ==
  /\ keysFor = "running" /\ queue.head # queue.tail
  /\ queue' = [queue EXCEPT !.tail = NextPlace(queue.tail)]
  /\ pending' = Tail(pending)
  /\ UNCHANGED <<keysFor, run, typist, taps, late>>
-----------------------------------------------------------------------------
KeysNext ==
  \/ Tap \/ TestLaunched \/ PutTimesOut \/ Put
  \/ KeysLaunch \/ KeysCleared \/ KeysLoaded \/ KeysAppEnds \/ ReadKey

KeysSpec == KeysInit /\ [][KeysNext]_keysVars
-----------------------------------------------------------------------------
KeysTypeOK ==
  /\ keysFor \in {"none", "starting", "loading", "running"}
  /\ run \in 0 .. MaxRuns /\ taps \in 0 .. MaxTaps
  /\ queue \in [cell : [QueuePlaces -> KeyEvent \cup {NoKey}], head : QueuePlaces,
                tail : QueuePlaces]
  /\ typist \in [step : {"idle", "test", "put"},
                 event : [tap : 0 .. MaxTaps, down : BOOLEAN, run : 0 .. MaxRuns,
                          running : BOOLEAN]]
  /\ pending \in Seq(KeyEvent) /\ late \in BOOLEAN

Queued ==
  [k \in 1 .. (queue.head - queue.tail + QueueSize) % QueueSize |->
     queue.cell[(queue.tail + k - 1) % QueueSize]]

\* An app gets the keys that were typed since it was launched, each event once and
\* in order, the oldest ones missing when it was slow: the ring holds the events
\* that are pending, and none of an earlier launch, unless the keyboard's task
\* tested launched_ under that one and came to the queue only now.
KeysOfThisRun ==
  /\ Queued = pending
  /\ keysFor \in {"loading", "running"} /\ ~late =>
       \A k \in DOMAIN Queued : Queued[k].run = run

\* "Events are queued only while a PAPP is running, so launcher/menu keyboard
\* input cannot leak into an app" (papp_loader.h): what an app reads was typed
\* while it ran.
NoMenuKeys ==
  keysFor = "running" => \A k \in DOMAIN Queued : Queued[k].running
=============================================================================
