------------------------------ MODULE Launcher ------------------------------
(***************************************************************************)
(* Starting, running, closing and handing over apps (papp_loader.cpp).     *)
(*                                                                         *)
(* Four kinds of task touch this state.  The ESPHome loop task runs loop() *)
(* and, between two passes of it, the button callbacks, the timers and the *)
(* API actions.  The load task downloads a network app.  The app's main    *)
(* task runs the app.  Helpers are tasks the app itself created; one that  *)
(* is inside app_open may still be there after the app's main returned.    *)
(*                                                                         *)
(* loop() is two steps: LoopPoll (buttons, touch, LVGL) and then LoopTail  *)
(* (load result, finished app or queued launch).  Nothing else of the loop *)
(* task runs between the two; the other tasks do.                          *)
(***************************************************************************)
EXTENDS HandoffChain

CONSTANTS
  Network,          \* the apps that are downloaded before they start
  Helpers,          \* tasks of the app other than its main
  HasToggle,        \* toggle_button is configured
  HasLaunchButton,  \* launch_button is configured
  Autostart,        \* autostart is configured
  Main              \* the app's main task

ASSUME LauncherAssumption ==
  /\ Network \subseteq Apps
  /\ Main \notin Helpers
  /\ {HasToggle, HasLaunchButton, Autostart} \subseteq BOOLEAN

VARIABLES
  at,             \* where the loop task is: before "poll" or before "tail"
  launched,       \* launched_
  launchPending,  \* launch_pending_
  path,           \* path_: what the next launch starts
  chainLaunch,    \* chain_launch_: the queued launch is a hand-off
  nextArg,        \* next_arg_
  launchArg,      \* launch_arg_: what app_get_arg returns
  resumeArg,      \* resume_arg_
  running,        \* running_source_
  chain,          \* chain_
  load,           \* papp_loading_, papp_load_done_ and its result
  worker,         \* papp_task_handle_ and papp_task_done_
  appHandle,      \* app_handle_ is set
  images,         \* how many app images are in PSRAM
  globalClose,    \* global_close_requested_
  toggle,         \* toggle button: level, close latch and toggle_wait_release_
  button,         \* launch button: level, last level seen, launch_wait_release_
  autostart,      \* the autostart timer has not fired yet
  opening,        \* per app task: where it is inside app_open
  ui,             \* touch shield, LVGL input devices, LVGL paused
  report,         \* the outcome of the last test report
  userClosed      \* history: was this run asked to close by user or remote?

queue == <<launchPending, path, chainLaunch, nextArg>>
args  == <<launchArg, resumeArg, running>>
image == <<worker, appHandle, images>>
vars  == <<at, launched, queue, args, chain, load, image, globalClose, toggle,
           button, autostart, opening, ui, report, userClosed>>

Tasks == Helpers \cup {Main}
NotOpening == [step |-> "idle"]

Init ==
  /\ at = "poll"
  /\ launched = FALSE
  /\ launchPending = FALSE
  /\ path \in Apps
  /\ chainLaunch = FALSE
  /\ nextArg = NoArg /\ launchArg = NoArg /\ resumeArg = NoArg
  /\ running = path
  /\ chain = EmptyChain
  /\ load = "none"
  /\ worker = "none"
  /\ appHandle = FALSE
  /\ images = 0
  /\ globalClose = FALSE
  /\ toggle = [level |-> FALSE, close |-> FALSE, wait |-> FALSE]
  /\ button = [level |-> FALSE, seen |-> FALSE, wait |-> FALSE]
  /\ autostart = Autostart
  /\ opening = [t \in Tasks |-> NotOpening]
  /\ ui = [shield |-> FALSE, indev |-> TRUE, paused |-> FALSE]
  /\ report = "none"
  /\ userClosed = FALSE
-----------------------------------------------------------------------------
(***************************************************************************)
(* Requests, button callbacks and timers: on the loop task, between passes *)
(***************************************************************************)

\* Faulty variant: a launch is queued while an app is there.
RequestLaunchAnyTime(a) ==
  /\ at = "poll" /\ ~launchPending
  /\ path' = a
  /\ chainLaunch' = FALSE
  /\ launchPending' = TRUE
  /\ UNCHANGED <<at, launched, nextArg, args, chain, load, image, globalClose,
                 toggle, button, autostart, opening, ui, report, userClosed>>

\* request_launch: refused while an app is there or a launch is queued.
RequestLaunch(a) ==
  /\ at = "poll" /\ ~launched /\ ~launchPending
  /\ path' = a
  /\ chainLaunch' = FALSE
  /\ launchPending' = TRUE
  /\ UNCHANGED <<at, launched, nextArg, args, chain, load, image, globalClose,
                 toggle, button, autostart, opening, ui, report, userClosed>>

\* request_close and a touch on the close control: begin_close_.
RequestClose ==
  /\ at = "poll" /\ launched
  /\ globalClose' = TRUE
  /\ userClosed' = TRUE
  /\ UNCHANGED <<at, launched, queue, args, chain, load, image, toggle,
                 button, autostart, opening, ui, report>>

\* The toggle button's state callback: a press while an app is there asks it
\* to close, a release without one ends the wait for the release.
ToggleEdge ==
  LET pressed == ~toggle.level
  IN /\ HasToggle /\ at = "poll"
     /\ toggle' = [level |-> pressed,
                   close |-> IF launched THEN toggle.close \/ pressed
                                         ELSE toggle.close /\ pressed,
                   wait  |-> toggle.wait /\ (pressed \/ launched)]
     /\ userClosed' = (userClosed \/ (pressed /\ launched))
     /\ UNCHANGED <<at, launched, queue, args, chain, load, image, globalClose,
                    button, autostart, opening, ui, report>>

\* The launch button's state callback.
LaunchButtonEdge ==
  LET pressed  == ~button.level
      launches == pressed /\ ~launched /\ ~button.wait
  IN /\ HasLaunchButton /\ at = "poll"
     /\ button' = [level |-> pressed, seen |-> pressed,
                   wait  |-> pressed /\ (button.wait \/ launches)]
     /\ launchPending' = (launchPending \/ launches)
     /\ UNCHANGED <<at, launched, path, chainLaunch, nextArg, args, chain, load,
                    image, globalClose, toggle, autostart, opening, ui, report,
                    userClosed>>

\* The papp_autostart timer fires once, whatever runs at that time.
AutostartTimer ==
  /\ autostart /\ at = "poll"
  /\ autostart' = FALSE
  /\ launchPending' = TRUE
  /\ UNCHANGED <<at, launched, path, chainLaunch, nextArg, args, chain, load,
                 image, globalClose, toggle, button, opening, ui, report,
                 userClosed>>

\* ESPHome's LVGL resumes itself on a touch or a key (resume_on_input).
LvglResumesOnInput ==
  /\ at = "poll" /\ ui.paused
  /\ ui' = [ui EXCEPT !.paused = FALSE]
  /\ UNCHANGED <<at, launched, queue, args, chain, load, image, globalClose,
                 toggle, button, autostart, opening, report, userClosed>>
-----------------------------------------------------------------------------
(***************************************************************************)
(* loop()                                                                  *)
(***************************************************************************)

\* Faulty variant: LVGL goes on once it has resumed itself.
PausesAgainNever == UNCHANGED ui

\* LVGL may have resumed itself over the app.
PausesAgain == ui' = [ui EXCEPT !.paused = @ \/ (launched /\ worker # "none")]

\* The first part of a pass.  Without an app the launcher reads the controls
\* (read_input_ latches a pressed toggle button) and the button guards are
\* cleared on a released level; with one LVGL is paused again.
LoopPoll ==
  LET launches == ~launched /\ HasLaunchButton /\ button.level /\ ~button.seen
                  /\ ~button.wait
  IN /\ at = "poll"
     /\ at' = "tail"
     /\ toggle' = IF launched \/ ~HasToggle THEN toggle
                  ELSE [toggle EXCEPT !.close = toggle.level,
                                      !.wait  = toggle.wait /\ toggle.level]
     /\ button' = IF launched \/ ~HasLaunchButton THEN button
                  ELSE [button EXCEPT !.seen = button.level,
                          !.wait = button.level /\ (button.wait \/ launches)]
     /\ launchPending' = (launchPending \/ launches)
     /\ PausesAgain
     /\ UNCHANGED <<launched, path, chainLaunch, nextArg, args, chain, load,
                    image, globalClose, autostart, opening, report, userClosed>>

\* Faulty variant: the next app is chosen but its launch is not queued.
ContinueChainUnqueued ==
  IF HasNext(chain)
  THEN /\ path' = NextFrame(chain).app
       /\ nextArg' = NextFrame(chain).arg
       /\ chain' = AfterNext(chain)
       /\ chainLaunch' = TRUE
       /\ UNCHANGED launchPending
  ELSE UNCHANGED <<queue, chain>>

\* continue_chain_: queue what the chain says comes next, if anything.
ContinueChain ==
  IF HasNext(chain)
  THEN /\ path' = NextFrame(chain).app
       /\ nextArg' = NextFrame(chain).arg
       /\ chain' = AfterNext(chain)
       /\ chainLaunch' = TRUE
       /\ launchPending' = TRUE
  ELSE UNCHANGED <<queue, chain>>

\* start_loaded_app_: the shield goes up, LVGL's inputs go off and LVGL stops,
\* then the worker is created.  When it cannot be, the app is unloaded and LVGL
\* runs again; the shield and the inputs stay as they are.
WorkerStarts ==
  /\ worker' = "running"
  /\ appHandle' = TRUE
  /\ ui' = [shield |-> TRUE, indev |-> FALSE, paused |-> TRUE]
  /\ UNCHANGED report

WorkerFails ==
  /\ UNCHANGED worker
  /\ appHandle' = FALSE
  /\ ui' = [shield |-> TRUE, indev |-> FALSE, paused |-> FALSE]
  /\ report' = "start_failed"

LoadFailed ==
  /\ launched /\ load \in {"failed", "data_failed"}
  /\ load' = "none"
  /\ launched' = FALSE
  /\ report' = IF load = "failed" THEN "load_failed" ELSE "data_failed"
  /\ ContinueChain
  /\ UNCHANGED <<args, image, globalClose, toggle, ui, userClosed>>

\* Faulty variants: the image stays when the worker cannot be created; the start
\* forgets a close asked for during the download.
StartLoadedLeaks ==
  /\ launched /\ load = "ok"
  /\ load' = "none"
  /\ \/ WorkerStarts /\ UNCHANGED <<launched, queue, chain, images>>
     \/ WorkerFails /\ launched' = FALSE /\ UNCHANGED images /\ ContinueChain
  /\ UNCHANGED <<args, globalClose, toggle, userClosed>>

StartLoadedForgetsClose ==
  /\ launched /\ load = "ok"
  /\ load' = "none"
  /\ \/ WorkerStarts /\ UNCHANGED <<launched, queue, chain, images>>
     \/ WorkerFails /\ launched' = FALSE /\ images' = images - 1 /\ ContinueChain
  /\ globalClose' = FALSE
  /\ UNCHANGED <<args, toggle, userClosed>>

StartLoaded ==
  /\ launched /\ load = "ok"
  /\ load' = "none"
  /\ \/ WorkerStarts /\ UNCHANGED <<launched, queue, chain, images>>
     \/ WorkerFails /\ launched' = FALSE /\ images' = images - 1 /\ ContinueChain
  /\ UNCHANGED <<args, globalClose, toggle, userClosed>>

\* finish_app_.
FinishApp ==
  /\ launched /\ load = "none" /\ worker = "done"
  /\ worker' = "none"
  /\ images' = IF appHandle THEN images - 1 ELSE images
  /\ appHandle' = FALSE
  /\ toggle' = [toggle EXCEPT !.close = FALSE, !.wait = HasToggle]
  /\ globalClose' = FALSE
  /\ launched' = FALSE
  /\ ui' = [shield |-> FALSE, indev |-> TRUE, paused |-> FALSE]
  /\ report' = IF globalClose \/ toggle.close THEN "closed" ELSE "exited"
  /\ ContinueChain
  /\ UNCHANGED <<args, load, userClosed>>

\* The chain and the next argument as a launch sees them: a launch that is not
\* a hand-off forgets both.
LaunchChain == IF chainLaunch THEN chain ELSE EmptyChain
ArgOfLaunch == IF chainLaunch THEN nextArg ELSE NoArg

\* A failed launch goes on with what the chain says next.
LaunchFails ==
  /\ launched' = FALSE
  /\ IF HasNext(LaunchChain)
     THEN /\ path' = NextFrame(LaunchChain).app
          /\ nextArg' = NextFrame(LaunchChain).arg
          /\ chain' = AfterNext(LaunchChain)
          /\ chainLaunch' = TRUE
          /\ launchPending' = TRUE
     ELSE /\ chain' = LaunchChain
          /\ nextArg' = NoArg
          /\ chainLaunch' = FALSE
          /\ launchPending' = FALSE
          /\ UNCHANGED path

\* Faulty variant: the queued argument is used but not cleared.
LaunchGoesOnKeepsArg ==
  /\ launched' = TRUE
  /\ launchPending' = FALSE
  /\ chain' = LaunchChain
  /\ chainLaunch' = FALSE
  /\ UNCHANGED <<path, nextArg>>

LaunchGoesOn ==
  /\ launched' = TRUE
  /\ launchPending' = FALSE
  /\ chain' = LaunchChain
  /\ nextArg' = NoArg
  /\ chainLaunch' = FALSE
  /\ UNCHANGED path

\* Faulty variant: only the toggle button's close is forgotten.
ClosesForgottenHalf ==
  toggle' = [toggle EXCEPT !.close = FALSE] /\ UNCHANGED globalClose

\* A launch forgets what was asked of the run before.
ClosesForgotten ==
  toggle' = [toggle EXCEPT !.close = FALSE] /\ globalClose' = FALSE

\* The queued launch, with launch_(): offline or no load task, a download, a
\* file that is missing or bad, or an app loaded from storage.
Launch ==
  /\ ~launched /\ launchPending
  /\ launchArg' = ArgOfLaunch
  /\ resumeArg' = ArgOfLaunch
  /\ running' = path
  /\ ClosesForgotten
  /\ userClosed' = FALSE
  /\ \/ LaunchFails /\ UNCHANGED <<load, image, ui, report>>
     \/ /\ path \in Network
        /\ load' = "fetching"
        /\ LaunchGoesOn /\ UNCHANGED <<image, ui, report>>
     \/ /\ path \notin Network
        /\ \/ WorkerStarts /\ images' = images + 1 /\ LaunchGoesOn
           \/ WorkerFails /\ UNCHANGED images /\ LaunchFails
        /\ UNCHANGED load

\* A pass with nothing to do: a download or an app runs, or nothing is queued.
Idle ==
  /\ IF launched THEN load = "fetching" \/ (load = "none" /\ worker = "running")
                 ELSE ~launchPending
  /\ UNCHANGED <<launched, queue, args, chain, load, image, globalClose,
                 toggle, ui, report, userClosed>>

LoopTail ==
  /\ at = "tail"
  /\ at' = "poll"
  /\ LoadFailed \/ StartLoaded \/ FinishApp \/ Launch \/ Idle
  /\ UNCHANGED <<button, autostart, opening>>
-----------------------------------------------------------------------------
(***************************************************************************)
(* The load task and the app's tasks                                       *)
(***************************************************************************)

\* papp_load_task_entry_: the data files first, then the app itself.
LoadTaskEnds ==
  /\ load = "fetching"
  /\ \/ load' = "ok" /\ images' = images + 1
     \/ load' \in {"failed", "data_failed"} /\ UNCHANGED images
  /\ UNCHANGED <<at, launched, queue, args, chain, worker, appHandle,
                 globalClose, toggle, button, autostart, opening, ui, report,
                 userClosed>>

\* app_open up to the lookup of its target, which may take long.
AppOpenBegins(t) ==
  /\ worker = "running" /\ launched
  /\ opening[t] = NotOpening
  /\ ~globalClose /\ ~toggle.close
  /\ \E f \in Frame, b \in BOOLEAN :
       opening' = [opening EXCEPT ![t] = [step |-> "lookup", target |-> f, back |-> b]]
  /\ UNCHANGED <<at, launched, queue, args, chain, load, image, globalClose,
                 toggle, button, autostart, ui, report, userClosed>>

\* The lookup ends: no such app, or the chain is asked, under its mutex.
AppOpenAsks(t) ==
  LET o == opening[t]
      r == [caller |-> [app |-> running, arg |-> resumeArg],
            target |-> o.target, back |-> o.back]
  IN /\ o.step = "lookup"
     /\ \/ /\ opening' = [opening EXCEPT ![t] = NotOpening]
           /\ UNCHANGED chain
        \/ /\ Accepts(chain, r)
           /\ chain' = AfterRequest(chain, r)
           /\ opening' = [opening EXCEPT ![t] = [step |-> "accepted"]]
     /\ UNCHANGED <<at, launched, queue, args, load, image, globalClose, toggle,
                    button, autostart, ui, report, userClosed>>

\* Accepted: begin_close_, after the mutex was given back.
AppOpenCloses(t) ==
  /\ opening[t].step = "accepted"
  /\ opening' = [opening EXCEPT ![t] = NotOpening]
  /\ globalClose' = TRUE
  /\ UNCHANGED <<at, launched, queue, args, chain, load, image, toggle, button,
                 autostart, ui, report, userClosed>>

\* app_set_resume_arg.
SetResumeArg(a) ==
  /\ worker = "running"
  /\ resumeArg' = a
  /\ UNCHANGED <<at, launched, queue, launchArg, running, chain, load, image,
                 globalClose, toggle, button, autostart, opening, ui, report,
                 userClosed>>

\* The app reads its input: a pressed toggle button is a close request.
AppReadsInput ==
  /\ worker = "running" /\ HasToggle /\ toggle.level
  /\ toggle' = [toggle EXCEPT !.close = TRUE]
  /\ UNCHANGED <<at, launched, queue, args, chain, load, image, globalClose,
                 button, autostart, opening, ui, report, userClosed>>

\* The app's main returns (papp_task_entry_), by itself or because it sees the
\* quit buttons of a close.
AppReturns ==
  /\ worker = "running"
  /\ opening[Main] = NotOpening
  /\ worker' = "done"
  /\ UNCHANGED <<at, launched, queue, args, chain, load, appHandle, images,
                 globalClose, toggle, button, autostart, opening, ui, report,
                 userClosed>>
-----------------------------------------------------------------------------
Callback ==
  \/ \E a \in Apps : RequestLaunch(a)
  \/ RequestClose \/ ToggleEdge \/ LaunchButtonEdge \/ AutostartTimer
  \/ LvglResumesOnInput

AppTask(t) == AppOpenBegins(t) \/ AppOpenAsks(t) \/ AppOpenCloses(t)

Next ==
  \/ Callback
  \/ LoopPoll \/ LoopTail
  \/ LoadTaskEnds
  \/ \E t \in Tasks : AppTask(t)
  \/ \E a \in Args : SetResumeArg(a)
  \/ AppReadsInput \/ AppReturns

Spec == Init /\ [][Next]_vars

\* The scheduler runs the loop and the load task, a download ends, a call of
\* app_open returns, and an app that sees the quit buttons quits.
Fairness ==
  /\ WF_vars(LoopPoll) /\ WF_vars(LoopTail)
  /\ WF_vars(LoadTaskEnds)
  /\ \A t \in Tasks : WF_vars(AppOpenAsks(t)) /\ WF_vars(AppOpenCloses(t))
  /\ WF_vars((globalClose \/ toggle.close) /\ AppReturns)

FairSpec == Spec /\ Fairness
-----------------------------------------------------------------------------
(***************************************************************************)
(* Properties                                                              *)
(***************************************************************************)

\* The range of every variable.
TypeOK ==
  /\ at \in {"poll", "tail"}
  /\ launched \in BOOLEAN /\ launchPending \in BOOLEAN
  /\ path \in Apps /\ running \in Apps
  /\ chainLaunch \in BOOLEAN
  /\ nextArg \in Args /\ launchArg \in Args /\ resumeArg \in Args
  /\ chain \in Chain
  /\ load \in {"none", "fetching", "ok", "failed", "data_failed"}
  /\ worker \in {"none", "running", "done"}
  /\ appHandle \in BOOLEAN
  /\ images \in Nat
  /\ globalClose \in BOOLEAN
  /\ toggle \in [level : BOOLEAN, close : BOOLEAN, wait : BOOLEAN]
  /\ button \in [level : BOOLEAN, seen : BOOLEAN, wait : BOOLEAN]
  /\ autostart \in BOOLEAN
  /\ opening \in [Tasks -> [step : {"idle", "accepted"}]
                     \cup [step : {"lookup"}, target : Frame, back : BOOLEAN]]
  /\ ui \in [shield : BOOLEAN, indev : BOOLEAN, paused : BOOLEAN]
  /\ report \in {"none", "exited", "closed", "load_failed", "data_failed",
                 "start_failed"}
  /\ userClosed \in BOOLEAN

\* "At most two apps wait to be returned to" (psram_app.h): also when a request
\* was accepted and its caller is not on the stack yet.
DepthBound == DepthOK(chain)

\* An app's image is in PSRAM exactly while the loader holds its handle, as the
\* result of a download or as the running app: none is leaked on a failure path
\* and none is unloaded under a task that still runs it.
ImagesOwned ==
  /\ images = (IF load = "ok" THEN 1 ELSE 0) + (IF appHandle THEN 1 ELSE 0)
  /\ appHandle <=> worker # "none"
  /\ images <= 1

\* Who is there: without an app nothing loads and no worker exists, and a
\* download comes before the worker.
Consistent ==
  /\ ~launched => load = "none" /\ worker = "none"
  /\ load # "none" => worker = "none"

\* LVGL draws over no app for longer than to the next pass, although any touch
\* resumes it, and the launcher is drawn again however an app has ended or could
\* not start.
LvglRests ==
  /\ worker # "none" /\ at = "tail" => ui.paused
  /\ worker = "none" => ~ui.paused

\* A queued hand-off is only ever the chain's: its frame is what comes next and
\* no app is there, so a menu launch can neither run it nor inherit its
\* argument.
ArgOnlyByHandoff == nextArg # NoArg => (chainLaunch /\ launchPending /\ ~launched)

\* A close request, once made, is not withdrawn while the app is there.
CloseSticky == [][(launched /\ launched' /\ globalClose) => globalClose']_vars

\* The report of a run says closed only when this very run was asked to close: by
\* the user, the toggle button or its own hand-off.  What was asked of an earlier
\* run, or of a download that failed, is not reported of a later one.
ReportedClosedIsClosed ==
  [][(launched /\ ~launched' /\ report' = "closed") =>
       userClosed \/ toggle.close \/ chain.pending # <<>>]_vars

\* A menu with no app there takes touches.
MenuTakesTouch == ~launched => (~ui.shield /\ ui.indev)

\* "A close press cannot immediately start the PAPP again": an app that was
\* closed, with nothing to hand over to or go back to, leaves no launch queued
\* (the autostart timer, which queues its launch whatever runs, breaks it); and
\* the level of the launch button alone queues none, so that a button pressed
\* during an app and held when it ends does not start it again.
CloseStaysClosed ==
  /\ [][(launched /\ ~launched' /\ userClosed /\ ~HasNext(chain)) => ~launchPending']_vars
  /\ [][at # at' /\ at = "poll" => launchPending' = launchPending]_vars

\* A close request ends in the app being gone.
CloseEnds == (launched /\ globalClose) ~> ~launched

\* An accepted hand-off is taken up, as long as the close that goes with it is
\* made or still to be made: its target is launched.  (A hand-off that a task
\* left over from the last app gets accepted just before the next launch has its
\* close forgotten there, and waits until that app ends.)
HandoffHappens ==
  \A f \in Frame :
    (launched /\ (globalClose \/ \E t \in Tasks : opening[t].step = "accepted")
       /\ \E i \in DOMAIN chain.pending : chain.pending[i].target = f)
      ~> (running = f.app /\ launchArg = f.arg)

\* The loader keeps the promise of Navigation.  A hand-off that is queued or
\* loading is an app that is starting.
Nav == INSTANCE Navigation WITH
  phase   <- IF worker # "none" THEN "running"
             ELSE IF launched \/ launchPending THEN "starting" ELSE "menu",
  current <- IF launched THEN [app |-> running, arg |-> launchArg]
             ELSE IF launchPending THEN [app |-> path, arg |-> ArgOfLaunch]
             ELSE [app |-> running, arg |-> launchArg],
  resume  <- IF launched \/ ~launchPending THEN resumeArg ELSE ArgOfLaunch,
  asked   <- chain.pending,
  waiting <- chain.stack

Navigates == Nav!Spec
=============================================================================
