----------------------------- MODULE ScreenStream -----------------------------
(***************************************************************************)
(* The diagnostic stream on TCP port 3233: one task that serves one client *)
(* at a time with screenshots, files, thumbnails of the running app and    *)
(* its sound (papp_loader.cpp: screen_stream_task_, send_screenshot_,      *)
(* take_menu_shot_, send_display_buffer_, audio_submit_).                  *)
(*                                                                         *)
(* Four tasks meet here.  The main loop takes the API's requests and, as   *)
(* LVGL's thread, the pictures of the menu; the app's tasks leave frames   *)
(* and sound under stream_mutex_; the stream task takes them.  Only frames *)
(* and sound are under the mutex: requests and menu pictures are passed by *)
(* volatile flags, and the stream task resets the sound without it.        *)
(***************************************************************************)
EXTENDS Integers

CONSTANTS
  MaxRequests, \* bound: screenshots asked for
  MaxFrames,   \* bound: thumbnails taken
  RingSize,    \* SCREEN_STREAM_AUDIO_BYTES, in samples
  PacketSize,  \* SCREEN_STREAM_AUDIO_PACKET_BYTES, in samples
  Width        \* values of size_t

ASSUME StreamAssumption ==
  /\ MaxRequests \in Nat /\ MaxFrames \in Nat
  /\ RingSize \in Nat \ {0} /\ PacketSize \in Nat \ {0}
  /\ Width \in Nat /\ Width > 2 * RingSize

VARIABLES
  at,         \* where the stream task is
  net,        \* .backlog, .peer: a client that waits, the one being served
  enabled,    \* stream_enabled_
  connected,  \* stream_client_connected_
  shotReq,    \* screenshot_requested_
  fileReq,    \* file_requested_
  keep,       \* local: what stream_enabled_ is about to become
  loopAt,     \* where the main loop is
  reqs,       \* history: screenshots asked for
  slipped,    \* history: the newest came between the read of the request flags and
              \* the write of stream_enabled_ at the end of a session
  serving,    \* history: the newest of them the stream task is answering
  app,        \* "none", "loading" or "running": launched_, papp_loading_
  menu,       \* menu_shot_wanted_, menu_shot_ready_, menu_shot_
  copy,       \* the picture send_screenshot_ holds
  pictures,   \* pictures of the menu that are allocated
  flush,      \* where the app's flush is
  frame,      \* .pixels: the number of the frame that fills
              \* stream_framebuffer_; .seq, .ready as in the code
  base,       \* history: the sequence when the session's flags were reset
  packet,     \* stream_frame_packet_ and its header
  sound,      \* what the app's audio_submit_ is doing
  available   \* stream_audio_available_

requestVars == <<enabled, shotReq, fileReq, loopAt, reqs, slipped>>
menuVars    == <<app, menu, pictures>>
videoVars   == <<flush, frame>>
soundVars   == <<sound, available>>
taskVars    == <<at, keep, serving, copy, packet, base>>
vars == <<taskVars, net, connected, requestVars, menuVars, videoVars, soundVars>>

Torn   == -1
NoShot == [kind |-> "none", taken |-> 0]
Canvas == [kind |-> "canvas", taken |-> 0]
MenuAt(r) == [kind |-> "menu", taken |-> r]   \* taken after the r-th request
NoFrame == [pixels |-> 0, seq |-> 0]
Silent == [step |-> "idle", n |-> 0, loaded |-> 0]
Least(m, n) == IF m < n THEN m ELSE n

Init ==
  /\ at = "idle" /\ keep = FALSE /\ serving = 0
  /\ copy = NoShot /\ packet = NoFrame /\ base = 0
  /\ net = [backlog |-> "none", peer |-> "none"]
  /\ connected = FALSE
  /\ enabled = FALSE /\ shotReq = FALSE /\ fileReq = FALSE
  /\ loopAt = "free" /\ reqs = 0 /\ slipped = FALSE
  /\ app = "none" /\ pictures = 0
  /\ menu = [wanted |-> FALSE, ready |-> FALSE, shot |-> NoShot]
  /\ flush = "idle" /\ frame = [pixels |-> 0, seq |-> 0, ready |-> FALSE]
  /\ sound = Silent /\ available = 0

\* stream_mutex_: held by a flush or by a submit; the stream task takes and
\* gives it within one step.
MutexFree == flush # "copying" /\ sound.step = "idle"
-----------------------------------------------------------------------------
(***************************************************************************)
(* The main loop: requests, the menu's pictures, starting and ending apps  *)
(***************************************************************************)

\* request_screen_stream.
RequestScreenStream ==
  /\ loopAt = "free"
  /\ enabled' = TRUE
  /\ UNCHANGED <<taskVars, net, connected, shotReq, fileReq, loopAt, reqs, slipped,
                 menuVars, videoVars, soundVars>>

\* request_screenshot and request_file set their flag first, then the stream's.
RequestScreenshot ==
  /\ loopAt = "free"
  /\ reqs < MaxRequests /\ reqs' = reqs + 1
  /\ shotReq' = TRUE /\ slipped' = (at = "closing" /\ ~keep)
  /\ loopAt' = "enable"
  /\ UNCHANGED <<taskVars, net, connected, enabled, fileReq, menuVars, videoVars,
                 soundVars>>

RequestFile ==
  /\ loopAt = "free"
  /\ fileReq' = TRUE
  /\ loopAt' = "enable"
  /\ UNCHANGED <<taskVars, net, connected, enabled, shotReq, reqs, slipped, menuVars,
                 videoVars, soundVars>>

RequestEnables ==
  /\ loopAt = "enable"
  /\ enabled' = TRUE
  /\ loopAt' = "free"
  /\ UNCHANGED <<taskVars, net, connected, shotReq, fileReq, reqs, slipped, menuVars,
                 videoVars, soundVars>>

\* Faulty variant: the loop forgets that a picture may still be waiting.
MenuShotBeginsAgain ==
  /\ loopAt = "free" /\ menu.wanted
  /\ menu' = [menu EXCEPT !.wanted = FALSE]
  /\ loopAt' = IF app = "none" THEN "snap" ELSE "free"
  /\ UNCHANGED <<taskVars, net, connected, enabled, shotReq, fileReq, reqs, slipped, app,
                 pictures, videoVars, soundVars>>

\* loop takes the stream task's wish; take_menu_shot_ does nothing while a
\* picture waits or before LVGL's own loop runs.
MenuShotBegins ==
  /\ loopAt = "free" /\ menu.wanted
  /\ menu' = [menu EXCEPT !.wanted = FALSE]
  /\ loopAt' \in IF app = "none" /\ ~menu.ready THEN {"snap", "free"} ELSE {"free"}
  /\ UNCHANGED <<taskVars, net, connected, enabled, shotReq, fileReq, reqs, slipped, app,
                 pictures, videoVars, soundVars>>

\* The snapshot, or none when memory runs out.
MenuShotTaken ==
  /\ loopAt = "snap"
  /\ \/ /\ menu' = [menu EXCEPT !.shot = MenuAt(reqs)]
        /\ pictures' = pictures + 1
     \/ menu' = [menu EXCEPT !.shot = NoShot] /\ UNCHANGED pictures
  /\ loopAt' = "tell"
  /\ UNCHANGED <<taskVars, net, connected, enabled, shotReq, fileReq, reqs, slipped, app,
                 videoVars, soundVars>>

MenuShotReady ==
  /\ loopAt = "tell"
  /\ menu' = [menu EXCEPT !.ready = TRUE]
  /\ loopAt' = "free"
  /\ UNCHANGED <<taskVars, net, connected, enabled, shotReq, fileReq, reqs, slipped, app,
                 pictures, videoVars, soundVars>>

\* launched_ and papp_loading_ as the launcher sets them.
AppChanges ==
  /\ loopAt = "free"
  /\ app' \in CASE app = "none"    -> {"loading"}
                []  app = "loading" -> {"running", "none"}
                []  app = "running" -> {"none"}
  /\ UNCHANGED <<taskVars, net, connected, requestVars, menu, pictures, videoVars,
                 soundVars>>
-----------------------------------------------------------------------------
(***************************************************************************)
(* The app's tasks                                                         *)
(***************************************************************************)

\* send_display_buffer_, at most once a second, if a client is there and the mutex
\* is free; a flush that finds it taken does not wait.
FlushLocks ==
  /\ app = "running" /\ connected /\ MutexFree
  /\ flush = "idle" /\ flush' = "copying"
  /\ frame.seq < MaxFrames
  /\ frame' = [frame EXCEPT !.pixels = Torn]
  /\ UNCHANGED <<taskVars, net, connected, requestVars, menuVars, soundVars>>

FlushEnds ==
  /\ flush = "copying" /\ flush' = "idle"
  /\ frame' = [pixels |-> frame.seq + 1, seq |-> frame.seq + 1, ready |-> TRUE]
  /\ UNCHANGED <<taskVars, net, connected, requestVars, menuVars, soundVars>>

\* audio_submit_ of n samples, if a client is there and the mutex is free.
SubmitLocks ==
  /\ app = "running" /\ connected /\ MutexFree
  /\ sound.step = "idle"
  /\ \E n \in 1 .. RingSize : sound' = [step |-> "trim", n |-> n, loaded |-> available]
  /\ UNCHANGED <<taskVars, net, connected, requestVars, menuVars, videoVars, available>>

\* size_t arithmetic on sums below 2 * Width.
Wrap(x) == IF x >= Width THEN x - Width ELSE x

\* The samples that have to go for n more to fit.
Excess(a, n) == IF a + n > RingSize THEN a + n - RingSize ELSE 0

\* Faulty variant: the count keeps what was overwritten.
SubmitTrimsNot ==
  /\ sound.step = "trim"
  /\ sound' = [sound EXCEPT !.step = "add", !.loaded = 0]
  /\ UNCHANGED <<available, taskVars, net, connected, requestVars, menuVars,
                 videoVars>>

\* The loop that drops the oldest samples.  A reset of the count meanwhile is
\* unordered with it: the build may keep the count in a register and write back
\* what it has, or subtract from what it finds, which then wraps around.
SubmitTrims ==
  /\ sound.step = "trim"
  /\ LET gone == Excess(sound.loaded, sound.n)
     IN available' \in {sound.loaded - gone, Wrap(available + Width - gone)}
  /\ sound' = [sound EXCEPT !.step = "add", !.loaded = 0]
  /\ UNCHANGED <<taskVars, net, connected, requestVars, menuVars, videoVars>>

SubmitEnds ==
  /\ sound.step = "add"
  /\ available' = Wrap(available + sound.n)
  /\ sound' = Silent
  /\ UNCHANGED <<taskVars, net, connected, requestVars, menuVars, videoVars>>
-----------------------------------------------------------------------------
(***************************************************************************)
(* Clients                                                                 *)
(***************************************************************************)

ClientConnects ==
  /\ net.backlog = "none"
  /\ net' = [net EXCEPT !.backlog = "open"]
  /\ UNCHANGED <<taskVars, connected, requestVars, menuVars, videoVars, soundVars>>

ClientLeaves ==
  /\ \E c \in {"backlog", "peer"} :
       net[c] = "open" /\ net' = [net EXCEPT ![c] = "gone"]
  /\ UNCHANGED <<taskVars, connected, requestVars, menuVars, videoVars, soundVars>>
-----------------------------------------------------------------------------
(***************************************************************************)
(* The stream task                                                         *)
(***************************************************************************)

Accept ==
  /\ at = "idle" /\ enabled /\ net.backlog # "none"
  /\ net' = [backlog |-> "none", peer |-> net.backlog]
  /\ connected' = TRUE
  /\ at' = "reset"
  /\ UNCHANGED <<keep, serving, copy, packet, base, requestVars, menuVars, videoVars,
                 soundVars>>

\* Without the mutex.
Reset ==
  /\ at = "reset" /\ at' = "probe"
  /\ frame' = [frame EXCEPT !.ready = FALSE]
  /\ base' = frame.seq
  /\ available' = 0
  /\ UNCHANGED <<keep, serving, copy, packet, net, connected, requestVars, menuVars,
                 flush, sound>>

\* The look at whether the client has gone.
Probe ==
  /\ at = "probe"
  /\ at' = IF net.peer = "gone" THEN "end" ELSE "shot"
  /\ UNCHANGED <<keep, serving, copy, packet, base, net, connected, requestVars,
                 menuVars, videoVars, soundVars>>

TakeShotRequest ==
  /\ at = "shot"
  /\ IF shotReq
     THEN shotReq' = FALSE /\ slipped' = FALSE /\ serving' = reqs /\ at' = "canvas"
     ELSE at' = "file" /\ UNCHANGED <<shotReq, slipped, serving>>
  /\ UNCHANGED <<keep, copy, packet, base, net, connected, enabled, fileReq, loopAt,
                 reqs, menuVars, videoVars, soundVars>>

\* send_screenshot_: the app's canvas, if memory allows.
CopyCanvas ==
  /\ at = "canvas" /\ at' = "menu"
  /\ copy' \in IF app = "running" THEN {Canvas, NoShot} ELSE {NoShot}
  /\ UNCHANGED <<keep, serving, packet, base, net, connected, requestVars, menuVars,
                 videoVars, soundVars>>

Freed == IF menu.shot.kind = "menu" THEN 1 ELSE 0

\* Faulty variant: a picture an earlier request gave up on is still good.
AskForMenuAnyway ==
  /\ at = "menu"
  /\ IF copy = NoShot /\ app = "none"
     THEN menu' = [menu EXCEPT !.wanted = TRUE] /\ at' = "wait"
     ELSE at' = "send" /\ UNCHANGED menu
  /\ UNCHANGED <<keep, serving, copy, packet, base, net, connected, requestVars, app,
                 pictures, videoVars, soundVars>>

\* No app: a picture that came too late for an earlier request is dropped, and
\* the loop is asked for one.
AskForMenu ==
  /\ at = "menu"
  /\ IF copy = NoShot /\ app = "none"
     THEN /\ menu' = IF menu.ready
                     THEN [wanted |-> TRUE, ready |-> FALSE, shot |-> NoShot]
                     ELSE [menu EXCEPT !.wanted = TRUE]
          /\ pictures' = IF menu.ready THEN pictures - Freed ELSE pictures
          /\ at' = "wait"
     ELSE at' = "send" /\ UNCHANGED <<menu, pictures>>
  /\ UNCHANGED <<keep, serving, copy, packet, base, net, connected, requestVars, app,
                 videoVars, soundVars>>

\* The picture came, or 1500 ms passed.
TakeMenu ==
  /\ at = "wait" /\ menu.ready
  /\ copy' = menu.shot
  /\ menu' = [menu EXCEPT !.shot = NoShot]
  /\ at' = "taken"
  /\ UNCHANGED <<keep, serving, packet, base, net, connected, requestVars, app,
                 pictures, videoVars, soundVars>>

MenuTaken ==
  /\ at = "taken" /\ at' = "send"
  /\ menu' = [menu EXCEPT !.ready = FALSE]
  /\ UNCHANGED <<keep, serving, copy, packet, base, net, connected, requestVars, app,
                 pictures, videoVars, soundVars>>

GiveUpOnMenu ==
  /\ at = "wait" /\ ~menu.ready
  /\ at' = "send"
  /\ UNCHANGED <<keep, serving, copy, packet, base, net, connected, requestVars,
                 menuVars, videoVars, soundVars>>

\* A send that goes wrong, or takes too long, ends the session.
SendScreenshot ==
  /\ at = "send" /\ at' \in {"file", "end"}
  /\ copy' = NoShot
  /\ pictures' = IF copy.kind = "menu" THEN pictures - 1 ELSE pictures
  /\ serving' = 0
  /\ UNCHANGED <<keep, packet, base, net, connected, requestVars, app, menu,
                 videoVars, soundVars>>

\* send_file_: the packet of a file, of a listing or of what was wrong.
ServeFile ==
  /\ at = "file"
  /\ fileReq' = FALSE
  /\ at' \in IF fileReq THEN {"batch", "end"} ELSE {"batch"}
  /\ UNCHANGED <<keep, serving, copy, packet, base, net, connected, enabled, shotReq,
                 loopAt, reqs, slipped, menuVars, videoVars, soundVars>>

\* Faulty variant: the frame is copied without the mutex.
TakeBatchUnlocked ==
  /\ at = "batch" /\ at' = "push"
  /\ packet' = IF frame.ready THEN [pixels |-> frame.pixels, seq |-> frame.seq]
               ELSE NoFrame
  /\ frame' = [frame EXCEPT !.ready = FALSE]
  /\ available' = available - Least(available, PacketSize)
  /\ UNCHANGED <<keep, serving, copy, base, net, connected, requestVars, menuVars,
                 flush, sound>>

\* Under the mutex: the frame and at most one packet of sound.
TakeBatch ==
  /\ at = "batch" /\ MutexFree
  /\ at' = "push"
  /\ packet' = IF frame.ready THEN [pixels |-> frame.pixels, seq |-> frame.seq]
               ELSE NoFrame
  /\ frame' = [frame EXCEPT !.ready = FALSE]
  /\ available' = available - Least(available, PacketSize)
  /\ UNCHANGED <<keep, serving, copy, base, net, connected, requestVars, menuVars,
                 flush, sound>>

\* The mutex did not come within 250 ms: the requests again.
BatchTimesOut ==
  /\ at = "batch" /\ ~MutexFree
  /\ at' = "probe"
  /\ UNCHANGED <<keep, serving, copy, packet, base, net, connected, requestVars,
                 menuVars, videoVars, soundVars>>

Push ==
  /\ at = "push" /\ at' \in {"probe", "end"}
  /\ packet' = NoFrame
  /\ UNCHANGED <<keep, serving, copy, base, net, connected, requestVars, menuVars,
                 videoVars, soundVars>>

\* Faulty variant: requests that are still there are forgotten.
EndSessionPlain ==
  /\ at = "end" /\ at' = "closing"
  /\ connected' = FALSE
  /\ keep' = FALSE
  /\ UNCHANGED <<serving, copy, packet, base, net, requestVars, menuVars, videoVars,
                 soundVars>>

\* The request flags are read ...
EndSession ==
  /\ at = "end" /\ at' = "closing"
  /\ connected' = FALSE
  /\ keep' = (shotReq \/ fileReq)
  /\ UNCHANGED <<serving, copy, packet, base, net, requestVars, menuVars, videoVars,
                 soundVars>>

\* ... and stream_enabled_ is written.
CloseSession ==
  /\ at = "closing" /\ at' = "idle"
  /\ enabled' = keep
  /\ keep' = FALSE
  /\ net' = [net EXCEPT !.peer = "none"]
  /\ base' = 0
  /\ UNCHANGED <<serving, copy, packet, connected, shotReq, fileReq, loopAt,
                 reqs, slipped, menuVars, videoVars, soundVars>>
-----------------------------------------------------------------------------
Loop == \/ RequestScreenStream \/ RequestScreenshot \/ RequestFile \/ RequestEnables
        \/ MenuShotBegins \/ MenuShotTaken \/ MenuShotReady \/ AppChanges

App == \/ FlushLocks \/ FlushEnds
       \/ SubmitLocks \/ SubmitTrims \/ SubmitEnds

Client == ClientConnects \/ ClientLeaves

StreamTask == \/ Accept \/ Reset \/ Probe \/ TakeShotRequest \/ CopyCanvas
              \/ AskForMenu \/ TakeMenu \/ MenuTaken \/ GiveUpOnMenu \/ SendScreenshot
              \/ ServeFile \/ TakeBatch \/ BatchTimesOut \/ Push \/ EndSession
              \/ CloseSession

Next == Loop \/ App \/ Client \/ StreamTask

Spec == Init /\ [][Next]_vars

\* The stream task runs at priority 6, above the apps; sends and waits have
\* timeouts.  A flush or a submit that began goes on.
FairSpec ==
  /\ Spec
  /\ WF_vars(StreamTask)
  /\ WF_vars(RequestEnables) /\ WF_vars(MenuShotTaken) /\ WF_vars(MenuShotReady)
  /\ WF_vars(FlushEnds) /\ WF_vars(SubmitTrims) /\ WF_vars(SubmitEnds)
-----------------------------------------------------------------------------
(***************************************************************************)
(* Properties                                                              *)
(***************************************************************************)

Shots == [kind : {"none", "menu", "canvas"}, taken : Nat]

\* The range of every variable.
TypeOK ==
  /\ at \in {"idle", "reset", "probe", "shot", "canvas", "menu", "wait", "taken",
             "send", "file", "batch", "push", "end", "closing"}
  /\ net \in [backlog : {"none", "open", "gone"}, peer : {"none", "open", "gone"}]
  /\ enabled \in BOOLEAN /\ connected \in BOOLEAN /\ keep \in BOOLEAN
  /\ shotReq \in BOOLEAN /\ fileReq \in BOOLEAN /\ slipped \in BOOLEAN
  /\ loopAt \in {"free", "enable", "snap", "tell"}
  /\ reqs \in Nat /\ serving \in Nat
  /\ app \in {"none", "loading", "running"}
  /\ menu \in [wanted : BOOLEAN, ready : BOOLEAN, shot : Shots]
  /\ copy \in Shots /\ pictures \in Nat
  /\ flush \in {"idle", "copying"}
  /\ frame \in [pixels : Nat \cup {Torn}, seq : Nat, ready : BOOLEAN]
  /\ base \in Nat
  /\ packet \in [pixels : Nat \cup {Torn}, seq : Nat]
  /\ sound \in [step : {"idle", "trim", "add"}, n : 0 .. RingSize,
                loaded : 0 .. RingSize]
  /\ available \in 0 .. Width - 1

Owned(s) == IF s.kind = "menu" THEN 1 ELSE 0

\* Every picture of the menu that is allocated is either waiting in menu_shot_ or
\* being sent: none is overwritten before it is freed, and none is freed twice,
\* though loop and stream task share the pointer without a lock.
PicturesOwned == pictures = Owned(menu.shot) + Owned(copy)

\* The picture of the menu that answers a request was taken after that request,
\* never one an earlier request gave up on.
ShotIsFresh == (at = "send" /\ copy.kind = "menu") => copy.taken >= serving

\* A thumbnail is whole, is the frame its header numbers, and was not ready before
\* its client came, although the flag is taken down without the mutex.
FrameWhole ==
  (at = "push" /\ packet # NoFrame) => packet.pixels = packet.seq /\ packet.seq > base

\* The count of waiting samples is within the ring whenever the stream task may
\* read it, although it is reset without the mutex a submit holds.
SoundInRing == (at = "batch" /\ MutexFree) => available <= RingSize

NobodyWaits == net.peer # "open" /\ net.backlog # "open"

\* From some time on no client leaves before it has been served.
ClientsStay == <>[][\A c \in {"backlog", "peer"} : net[c] = "open" => net'[c] # "gone"]_vars

\* "A request that arrived for a client that had already gone waits for the next
\* one" (papp_loader.cpp:2631): if clients stay, a request for a screenshot is taken up,
\* in this session or in the next.  Not so when it comes between the read of the request
\* flags and the write of stream_enabled_, which then turns the stream off over it.
RequestsTaken ==
  ClientsStay => (shotReq ~> (~shotReq \/ NobodyWaits))

\* What the code does keep of it: a request that has not come in that very moment is
\* not left behind with a client waiting, whatever else comes then.  (It is taken up;
\* that its answer arrives is not said: a client may go in the middle of it.)
OthersTaken ==
  ClientsStay => (shotReq /\ ~slipped ~> (~shotReq \/ NobodyWaits))
=============================================================================
