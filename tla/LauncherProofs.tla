--------------------------- MODULE LauncherProofs ---------------------------
(***************************************************************************)
(* Theorems about Launcher, for every set of apps, arguments and tasks and *)
(* every depth of the chain.                                               *)
(***************************************************************************)
EXTENDS Launcher, TLAPS

(***************************************************************************)
(* The chain.                                                              *)
(***************************************************************************)

\* Clearing the chain (Chain::reset) leaves a chain within its bound.
LEMMA EmptyChainOK == EmptyChain \in Chain /\ DepthOK(EmptyChain)
  BY ChainAssumption DEF EmptyChain, Chain, DepthOK

\* An accepted request leaves a chain within its bound (Chain::request).
LEMMA RequestOK ==
  ASSUME NEW c \in Chain, NEW r \in Request, DepthOK(c), Accepts(c, r)
  PROVE  AfterRequest(c, r) \in Chain /\ DepthOK(AfterRequest(c, r))
  BY DEF Accepts, AfterRequest, Chain, DepthOK

\* What comes next is a frame, and taking it leaves a chain within its bound
\* (Chain::next): the caller that is pushed found its room when it asked.
LEMMA NextOK ==
  ASSUME NEW c \in Chain, HasNext(c), DepthOK(c)
  PROVE  /\ NextFrame(c) \in Frame
         /\ AfterNext(c) \in Chain
         /\ DepthOK(AfterNext(c))
<1>1. CASE c.pending # <<>>
  <2>1. PICK r \in Request : c.pending = <<r>>
    BY <1>1 DEF Chain
  <2>2. c.pending[1] = r /\ DOMAIN c.pending = {1}
    BY <2>1
  <2>3. NextFrame(c) \in Frame
    BY <1>1, <2>2 DEF NextFrame, Request
  <2>4. AfterNext(c) = [pending |-> <<>>,
                        stack |-> IF r.back THEN Append(c.stack, r.caller) ELSE c.stack]
    BY <1>1, <2>2 DEF AfterNext
  <2>5. r.back => Len(c.stack) < MaxDepth
    BY <2>2 DEF DepthOK
  <2>6. c.stack \in Seq(Frame) /\ r.caller \in Frame /\ Len(c.stack) <= MaxDepth
    BY DEF Chain, Request, DepthOK
  <2>. QED
    BY <2>3, <2>4, <2>5, <2>6, ChainAssumption DEF Chain, DepthOK
<1>2. CASE c.pending = <<>>
  <2>1. c.stack # <<>> /\ c.stack \in Seq(Frame) /\ Len(c.stack) <= MaxDepth
    BY <1>2 DEF HasNext, Chain, DepthOK
  <2>2. Len(c.stack) \in Nat /\ Len(c.stack) >= 1
    BY <2>1
  <2>3. NextFrame(c) \in Frame
    BY <1>2, <2>1, <2>2 DEF NextFrame
  <2>4. AfterNext(c) = [pending |-> <<>>,
                        stack |-> SubSeq(c.stack, 1, Len(c.stack) - 1)]
    BY <1>2 DEF AfterNext, Chain
  <2>5. /\ SubSeq(c.stack, 1, Len(c.stack) - 1) \in Seq(Frame)
        /\ Len(SubSeq(c.stack, 1, Len(c.stack) - 1)) = Len(c.stack) - 1
    BY <2>1, <2>2
  <2>. QED
    BY <2>1, <2>2, <2>3, <2>4, <2>5, ChainAssumption DEF Chain, DepthOK
<1>. QED BY <1>1, <1>2
-----------------------------------------------------------------------------
(***************************************************************************)
(* The inductive invariant.  ImagesOwned needs Consistent: a download is   *)
(* only taken over when no worker is there.  TypeOK needs ImagesOwned: an  *)
(* image is only unloaded when there is one.  DepthBound needs TypeOK.     *)
(***************************************************************************)
IInv == TypeOK /\ DepthBound /\ ImagesOwned /\ Consistent /\ LvglRests

\* The parts of the loop's tail that may take the next frame of the chain.
LEMMA ContinueOK ==
  ASSUME TypeOK, DepthBound, ContinueChain
  PROVE  /\ path' \in Apps /\ nextArg' \in Args
         /\ chainLaunch' \in BOOLEAN /\ launchPending' \in BOOLEAN
         /\ chain' \in Chain /\ DepthOK(chain')
<1>1. CASE HasNext(chain)
  <2>1. /\ path' = NextFrame(chain).app /\ nextArg' = NextFrame(chain).arg
        /\ chain' = AfterNext(chain) /\ chainLaunch' = TRUE /\ launchPending' = TRUE
    BY <1>1 DEF ContinueChain
  <2>2. /\ NextFrame(chain) \in Frame /\ AfterNext(chain) \in Chain
        /\ DepthOK(AfterNext(chain))
    BY <1>1, NextOK DEF TypeOK, DepthBound
  <2>. QED BY <2>1, <2>2 DEF Frame
<1>2. CASE ~HasNext(chain)
  BY <1>2 DEF ContinueChain, queue, TypeOK, DepthBound
<1>. QED BY <1>1, <1>2

\* The chain a launch sees, and the argument it takes.
LEMMA LaunchChainOK ==
  ASSUME TypeOK, DepthBound
  PROVE  /\ LaunchChain \in Chain /\ DepthOK(LaunchChain)
         /\ ArgOfLaunch \in Args
  BY EmptyChainOK, ChainAssumption DEF TypeOK, DepthBound, LaunchChain, ArgOfLaunch

\* A launch that fails, like one that goes on, leaves the queue well typed.
LEMMA LaunchFailsOK ==
  ASSUME TypeOK, DepthBound, LaunchFails
  PROVE  /\ path' \in Apps /\ nextArg' \in Args /\ launched' = FALSE
         /\ chainLaunch' \in BOOLEAN /\ launchPending' \in BOOLEAN
         /\ chain' \in Chain /\ DepthOK(chain')
<1>1. CASE HasNext(LaunchChain)
  <2>1. /\ path' = NextFrame(LaunchChain).app
        /\ nextArg' = NextFrame(LaunchChain).arg
        /\ chain' = AfterNext(LaunchChain)
        /\ chainLaunch' = TRUE /\ launchPending' = TRUE /\ launched' = FALSE
    BY <1>1 DEF LaunchFails
  <2>2. /\ NextFrame(LaunchChain) \in Frame /\ AfterNext(LaunchChain) \in Chain
        /\ DepthOK(AfterNext(LaunchChain))
    BY <1>1, NextOK, LaunchChainOK
  <2>. QED BY <2>1, <2>2 DEF Frame
<1>2. CASE ~HasNext(LaunchChain)
  BY <1>2, LaunchChainOK, ChainAssumption DEF LaunchFails, TypeOK
<1>. QED BY <1>1, <1>2

\* Init establishes the invariant.
LEMMA InitIInv == Init => IInv
<1> SUFFICES ASSUME Init PROVE IInv
  OBVIOUS
<1>1. chain \in Chain /\ DepthOK(chain)
  BY EmptyChainOK DEF Init
<1>2. TypeOK
  BY <1>1, ChainAssumption, LauncherAssumption DEF Init, TypeOK, NotOpening
<1>. QED
  BY <1>1, <1>2 DEF Init, IInv, DepthBound, ImagesOwned, Consistent, LvglRests

\* The callbacks between two passes of the loop preserve it.
LEMMA CallbackStep == IInv /\ Callback => IInv'
<1> SUFFICES ASSUME IInv, Callback PROVE IInv'
  OBVIOUS
<1> USE DEF IInv, TypeOK, DepthBound, ImagesOwned, Consistent, LvglRests,
            queue, args, image
<1>1. CASE \E a \in Apps : RequestLaunch(a)
  <2>1. PICK a \in Apps : RequestLaunch(a)
    BY <1>1
  <2>2. launchPending' \in BOOLEAN /\ chainLaunch' \in BOOLEAN
    BY <2>1, Zenon DEF RequestLaunch
  <2>. QED BY <2>1, <2>2 DEF RequestLaunch
<1>2. CASE RequestClose
  BY <1>2 DEF RequestClose
<1>3. CASE ToggleEdge
  <2>1. toggle' \in [level : BOOLEAN, close : BOOLEAN, wait : BOOLEAN]
    BY <1>3, Zenon DEF ToggleEdge
  <2>2. userClosed' \in BOOLEAN
    BY <1>3, Zenon DEF ToggleEdge
  <2>. QED BY <1>3, <2>1, <2>2 DEF ToggleEdge
<1>4. CASE LaunchButtonEdge
  <2>1. button' \in [level : BOOLEAN, seen : BOOLEAN, wait : BOOLEAN]
    BY <1>4, Zenon DEF LaunchButtonEdge
  <2>2. launchPending' \in BOOLEAN
    BY <1>4, Zenon DEF LaunchButtonEdge
  <2>. QED BY <1>4, <2>1, <2>2 DEF LaunchButtonEdge
<1>5. CASE AutostartTimer
  <2>1. launchPending' \in BOOLEAN /\ autostart' \in BOOLEAN
    BY <1>5, Zenon DEF AutostartTimer
  <2>. QED BY <1>5, <2>1 DEF AutostartTimer
<1>6. CASE LvglResumesOnInput
  <2>1. /\ ui' \in [shield : BOOLEAN, indev : BOOLEAN, paused : BOOLEAN]
        /\ ui'.shield = ui.shield /\ ui'.indev = ui.indev
    BY <1>6, Zenon DEF LvglResumesOnInput
  <2>. QED BY <1>6, <2>1 DEF LvglResumesOnInput
<1>. QED BY <1>1, <1>2, <1>3, <1>4, <1>5, <1>6 DEF Callback

\* The first part of a pass preserves it.
LEMMA LoopPollStep == IInv /\ LoopPoll => IInv'
<1> SUFFICES ASSUME IInv, LoopPoll PROVE IInv'
  OBVIOUS
<1> USE DEF IInv, TypeOK, DepthBound, ImagesOwned, Consistent, LvglRests,
            queue, args, image, LoopPoll, PausesAgain
<1>1. toggle' \in [level : BOOLEAN, close : BOOLEAN, wait : BOOLEAN]
  BY Zenon
<1>2. button' \in [level : BOOLEAN, seen : BOOLEAN, wait : BOOLEAN]
  BY Zenon
<1>3. launchPending' \in BOOLEAN
  BY Zenon
<1>4. /\ ui' \in [shield : BOOLEAN, indev : BOOLEAN, paused : BOOLEAN]
      /\ ui'.shield = ui.shield /\ ui'.indev = ui.indev
  BY Zenon
<1>. QED BY <1>1, <1>2, <1>3, <1>4

\* The second part of a pass: a load result, a loaded app, a finished app, a
\* queued launch, or nothing to do.
LEMMA LoopTailStep == IInv /\ LoopTail => IInv'
<1> SUFFICES ASSUME IInv, LoopTail PROVE IInv'
  OBVIOUS
<1> USE DEF IInv, TypeOK, DepthBound, ImagesOwned, Consistent, LvglRests,
            queue, args, image
<1>0. at' = "poll" /\ button' = button /\ autostart' = autostart /\ opening' = opening
  BY DEF LoopTail
<1>c. ASSUME ContinueChain
      PROVE  /\ path' \in Apps /\ nextArg' \in Args
             /\ chainLaunch' \in BOOLEAN /\ launchPending' \in BOOLEAN
             /\ chain' \in Chain /\ DepthOK(chain')
  BY <1>c, ContinueOK
<1>1. CASE LoadFailed
  <2>1. /\ load' = "none" /\ launched' = FALSE /\ load # "ok" /\ worker = "none"
        /\ UNCHANGED <<worker, appHandle, images>>
    BY <1>1 DEF LoadFailed
  <2>2. /\ UNCHANGED <<launchArg, resumeArg, running, globalClose, toggle, ui, userClosed>>
        /\ report' \in {"load_failed", "data_failed"}
    BY <1>1 DEF LoadFailed
  <2>3. ContinueChain
    BY <1>1 DEF LoadFailed
  <2>4. /\ worker' \in {"none", "running", "done"} /\ appHandle' \in BOOLEAN
        /\ images' \in Nat
    BY <2>1
  <2>5. /\ launchArg' \in Args /\ resumeArg' \in Args /\ running' \in Apps
        /\ globalClose' \in BOOLEAN /\ userClosed' \in BOOLEAN
        /\ toggle' \in [level : BOOLEAN, close : BOOLEAN, wait : BOOLEAN]
        /\ ui' \in [shield : BOOLEAN, indev : BOOLEAN, paused : BOOLEAN]
    BY <2>2
  <2>6. TypeOK' /\ DepthBound'
    BY <1>0, <2>1, <2>2, <2>3, <2>4, <2>5, <1>c
  <2>7. ImagesOwned' /\ Consistent' /\ LvglRests'
    BY <1>0, <2>1, <2>2
  <2>. QED BY <2>6, <2>7
<1>2. CASE StartLoaded
  <2>1. CASE WorkerStarts /\ UNCHANGED <<launched, queue, chain, images>>
    <3>1. /\ load = "ok" /\ images = 1 /\ load' = "none" /\ images' = 1
          /\ worker' = "running" /\ appHandle' = TRUE /\ report' = report
          /\ ui' = [shield |-> TRUE, indev |-> FALSE, paused |-> TRUE]
          /\ launched /\ launched' = TRUE
      BY <1>2, <2>1 DEF StartLoaded, WorkerStarts
    <3>2. /\ UNCHANGED <<path, chainLaunch, nextArg, launchPending, chain>>
          /\ UNCHANGED <<launchArg, resumeArg, running, globalClose, toggle, userClosed>>
      BY <1>2, <2>1 DEF StartLoaded
    <3>3. TypeOK' /\ DepthBound'
      BY <1>0, <3>1, <3>2
    <3>4. ImagesOwned' /\ Consistent' /\ LvglRests'
      BY <3>1
    <3>. QED BY <3>3, <3>4
  <2>2. CASE WorkerFails /\ launched' = FALSE /\ images' = images - 1 /\ ContinueChain
    <3>1. /\ load = "ok" /\ worker = "none" /\ images = 1
          /\ load' = "none" /\ worker' = "none" /\ appHandle' = FALSE
          /\ images' = 0
      BY <1>2, <2>2 DEF StartLoaded, WorkerFails
    <3>2. /\ UNCHANGED <<args, globalClose, toggle, userClosed>>
          /\ report' = "start_failed" /\ launched' = FALSE
          /\ ui' = [shield |-> TRUE, indev |-> FALSE, paused |-> FALSE]
      BY <1>2, <2>2 DEF StartLoaded, WorkerFails
    <3>c. /\ path' \in Apps /\ nextArg' \in Args
          /\ chainLaunch' \in BOOLEAN /\ launchPending' \in BOOLEAN
          /\ chain' \in Chain /\ DepthOK(chain')
      BY <2>2, <1>c
    <3>3. TypeOK' /\ DepthBound'
      BY <1>0, <3>1, <3>2, <3>c
    <3>4. ImagesOwned' /\ Consistent' /\ LvglRests'
      BY <1>0, <3>1, <3>2
    <3>. QED BY <3>3, <3>4
  <2>. QED BY <1>2, <2>1, <2>2 DEF StartLoaded
<1>3. CASE FinishApp
  <2>1. /\ toggle' \in [level : BOOLEAN, close : BOOLEAN, wait : BOOLEAN]
        /\ globalClose' \in BOOLEAN
    BY <1>3, LauncherAssumption, Zenon DEF FinishApp
  <2>2. report' \in {"closed", "exited"} /\ load' = load /\ UNCHANGED args
    BY <1>3 DEF FinishApp
  <2>3. /\ images' = 0 /\ appHandle' = FALSE /\ worker' = "none" /\ load' = "none"
        /\ launched' = FALSE
    BY <1>3 DEF FinishApp
  <2>4. ui' = [shield |-> FALSE, indev |-> TRUE, paused |-> FALSE]
    BY <1>3 DEF FinishApp
  <2>5. ContinueChain /\ userClosed' = userClosed
    BY <1>3 DEF FinishApp
  <2>6. TypeOK' /\ DepthBound'
    BY <1>0, <2>1, <2>2, <2>3, <2>4, <2>5, <1>c
  <2>7. ImagesOwned' /\ Consistent' /\ LvglRests'
    BY <1>0, <2>3, <2>4
  <2>. QED BY <2>6, <2>7
<1>4. CASE Launch
  <2>1. /\ toggle' \in [level : BOOLEAN, close : BOOLEAN, wait : BOOLEAN]
        /\ globalClose' \in BOOLEAN /\ userClosed' \in BOOLEAN
    BY <1>4, Zenon DEF Launch, ClosesForgotten
  <2>2. launchArg' \in Args /\ resumeArg' \in Args /\ running' \in Apps
    BY <1>4, LaunchChainOK DEF Launch
  <2>3. ~launched /\ load = "none" /\ worker = "none" /\ images = 0
    BY <1>4 DEF Launch
  <2>4. ASSUME LaunchGoesOn
        PROVE  /\ path' \in Apps /\ nextArg' \in Args /\ launched' = TRUE
               /\ chainLaunch' \in BOOLEAN /\ launchPending' \in BOOLEAN
               /\ chain' \in Chain /\ DepthOK(chain')
    BY <2>4, LaunchChainOK, ChainAssumption DEF LaunchGoesOn
  <2>f. ASSUME LaunchFails
        PROVE  /\ path' \in Apps /\ nextArg' \in Args /\ launched' = FALSE
               /\ chainLaunch' \in BOOLEAN /\ launchPending' \in BOOLEAN
               /\ chain' \in Chain /\ DepthOK(chain')
    BY <2>f, LaunchFailsOK
  <2>5. CASE LaunchFails /\ UNCHANGED <<load, image, ui, report>>
    <3>1. /\ load' = load /\ worker' = worker /\ appHandle' = appHandle
          /\ images' = images /\ ui' = ui /\ report' = report
      BY <2>5
    <3>2. TypeOK' /\ DepthBound'
      BY <1>0, <2>1, <2>2, <2>f, <2>5, <3>1
    <3>3. ImagesOwned' /\ Consistent' /\ LvglRests'
      BY <2>3, <3>1
    <3>. QED BY <3>2, <3>3
  <2>6. CASE load' = "fetching" /\ LaunchGoesOn /\ UNCHANGED <<image, ui, report>>
    <3>1. /\ worker' = worker /\ appHandle' = appHandle
          /\ images' = images /\ ui' = ui /\ report' = report
      BY <2>6
    <3>2. TypeOK' /\ DepthBound'
      BY <1>0, <2>1, <2>2, <2>4, <2>6, <3>1
    <3>3. ImagesOwned' /\ Consistent' /\ LvglRests'
      BY <2>3, <2>4, <2>6, <3>1
    <3>. QED BY <3>2, <3>3
  <2>7. CASE WorkerStarts /\ images' = images + 1 /\ LaunchGoesOn /\ UNCHANGED load
    <3>1. /\ worker' = "running" /\ appHandle' = TRUE /\ report' = report
          /\ ui' = [shield |-> TRUE, indev |-> FALSE, paused |-> TRUE]
          /\ images' = 1 /\ load' = load
      BY <2>3, <2>7 DEF WorkerStarts
    <3>2. TypeOK' /\ DepthBound'
      BY <1>0, <2>1, <2>2, <2>4, <2>7, <3>1
    <3>3. ImagesOwned' /\ Consistent' /\ LvglRests'
      BY <2>3, <2>4, <2>7, <3>1
    <3>. QED BY <3>2, <3>3
  <2>8. CASE WorkerFails /\ UNCHANGED images /\ LaunchFails /\ UNCHANGED load
    <3>1. /\ worker' = "none" /\ appHandle' = FALSE /\ report' = "start_failed"
          /\ ui' = [shield |-> TRUE, indev |-> FALSE, paused |-> FALSE]
          /\ images' = 0 /\ load' = load
      BY <2>3, <2>8 DEF WorkerFails
    <3>2. TypeOK' /\ DepthBound'
      BY <1>0, <2>1, <2>2, <2>f, <2>8, <3>1
    <3>3. ImagesOwned' /\ Consistent' /\ LvglRests'
      BY <2>3, <3>1
    <3>. QED BY <3>2, <3>3
  <2>. QED BY <1>4, <2>5, <2>6, <2>7, <2>8 DEF Launch
<1>5. CASE Idle
  BY <1>0, <1>5 DEF Idle
<1>. QED BY <1>1, <1>2, <1>3, <1>4, <1>5 DEF LoopTail

\* The load task preserves it.
LEMMA LoadTaskStep == IInv /\ LoadTaskEnds => IInv'
  BY DEF IInv, TypeOK, DepthBound, ImagesOwned, Consistent, LvglRests,
         queue, args, image, LoadTaskEnds

\* The tasks of the app preserve it.
LEMMA AppStep ==
  /\ IInv
  /\ \/ \E t \in Tasks : AppTask(t)
     \/ \E a \in Args : SetResumeArg(a)
     \/ AppReadsInput \/ AppReturns
  => IInv'
<1> SUFFICES ASSUME IInv,
                    \/ \E t \in Tasks : AppTask(t)
                    \/ \E a \in Args : SetResumeArg(a)
                    \/ AppReadsInput \/ AppReturns
             PROVE  IInv'
  OBVIOUS
<1> USE DEF IInv, TypeOK, DepthBound, ImagesOwned, Consistent, LvglRests,
            queue, args, image
<1>1. CASE \E t \in Tasks : AppTask(t)
  <2>0. PICK t \in Tasks : AppTask(t)
    BY <1>1
  <2>1. CASE AppOpenBegins(t)
    <3>1. PICK f \in Frame, b \in BOOLEAN :
            opening' = [opening EXCEPT ![t] = [step |-> "lookup", target |-> f, back |-> b]]
      BY <2>1 DEF AppOpenBegins
    <3>2. opening' \in [Tasks -> [step : {"idle", "accepted"}]
                     \cup [step : {"lookup"}, target : Frame, back : BOOLEAN]]
      BY <3>1
    <3>. QED BY <2>1, <3>2 DEF AppOpenBegins
  <2>2. CASE AppOpenAsks(t)
    <3> DEFINE o == opening[t]
               r == [caller |-> [app |-> running, arg |-> resumeArg],
                     target |-> o.target, back |-> o.back]
    <3>1. o \in [step : {"lookup"}, target : Frame, back : BOOLEAN]
      BY <2>2 DEF AppOpenAsks
    <3>2. r \in Request
      BY <3>1 DEF Request, Frame
    <3>3. chain' = chain \/ (Accepts(chain, r) /\ chain' = AfterRequest(chain, r))
      BY <2>2 DEF AppOpenAsks
    <3>4. chain' \in Chain /\ DepthOK(chain')
      BY <3>2, <3>3, RequestOK
    <3>5. opening' \in [Tasks -> [step : {"idle", "accepted"}]
                     \cup [step : {"lookup"}, target : Frame, back : BOOLEAN]]
      BY <2>2 DEF AppOpenAsks, NotOpening
    <3>. QED BY <2>2, <3>4, <3>5 DEF AppOpenAsks
  <2>3. CASE AppOpenCloses(t)
    <3>1. opening' \in [Tasks -> [step : {"idle", "accepted"}]
                     \cup [step : {"lookup"}, target : Frame, back : BOOLEAN]]
      BY <2>3 DEF AppOpenCloses, NotOpening
    <3>. QED BY <2>3, <3>1 DEF AppOpenCloses
  <2>. QED BY <2>0, <2>1, <2>2, <2>3 DEF AppTask
<1>2. CASE \E a \in Args : SetResumeArg(a)
  <2>1. PICK a \in Args : SetResumeArg(a)
    BY <1>2
  <2>. QED BY <2>1 DEF SetResumeArg
<1>3. CASE AppReadsInput
  <2>1. toggle' \in [level : BOOLEAN, close : BOOLEAN, wait : BOOLEAN]
    BY <1>3, Zenon DEF AppReadsInput
  <2>. QED BY <1>3, <2>1 DEF AppReadsInput
<1>4. CASE AppReturns
  BY <1>4 DEF AppReturns
<1>. QED BY <1>1, <1>2, <1>3, <1>4

LEMMA StutterStep == IInv /\ UNCHANGED vars => IInv'
  BY DEF IInv, TypeOK, DepthBound, ImagesOwned, Consistent, LvglRests,
         vars, queue, args, image

\* The invariant holds in every reachable state.
THEOREM Invariant == Spec => []IInv
<1>1. Init => IInv
  BY InitIInv
<1>2. IInv /\ [Next]_vars => IInv'
  BY CallbackStep, LoopPollStep, LoopTailStep, LoadTaskStep, AppStep, StutterStep
     DEF Next
<1>. QED BY <1>1, <1>2, PTL DEF Spec

\* Every variable keeps its range: among them, an image is never unloaded twice.
THEOREM TypeCorrect == Spec => []TypeOK
<1>1. IInv => TypeOK
  BY DEF IInv
<1>. QED BY Invariant, <1>1, PTL

\* Never more than MaxDepth apps wait, whichever tasks of the app ask, and
\* whatever fails to load.
THEOREM DepthBounded == Spec => []DepthBound
<1>1. IInv => DepthBound
  BY DEF IInv
<1>. QED BY Invariant, <1>1, PTL

\* No image leaks and none is unloaded under a task that runs it.
THEOREM ImagesAreOwned == Spec => []ImagesOwned
<1>1. IInv => ImagesOwned
  BY DEF IInv
<1>. QED BY Invariant, <1>1, PTL

\* With an app there LVGL is paused again by the first half of every pass, and
\* without one it runs, whichever touches resume it and however apps end.
THEOREM LvglIsAtRest == Spec => []LvglRests
<1>1. IInv => LvglRests
  BY DEF IInv
<1>. QED BY Invariant, <1>1, PTL
-----------------------------------------------------------------------------
(***************************************************************************)
(* The launcher's touch.  Without a worker the shield is down and LVGL's   *)
(* inputs are on, also between the taking of a launch and the start of its *)
(* worker, for as long as no worker fails to be created: that one path     *)
(* leaves them as they are (papp_loader.cpp:1247).                         *)
(***************************************************************************)
MenuTouch == worker = "none" => ~ui.shield /\ ui.indev

LEMMA MenuTouchStep == IInv /\ MenuTouch /\ [Next]_vars /\ [~WorkerFails]_vars => MenuTouch'
<1> SUFFICES ASSUME IInv, MenuTouch, Next, ~WorkerFails PROVE MenuTouch'
  BY DEF MenuTouch, vars, image
<1>. USE DEF MenuTouch, image
<1>1. ui \in [shield : BOOLEAN, indev : BOOLEAN, paused : BOOLEAN]
  BY DEF IInv, TypeOK
<1>2. CASE Callback
  BY <1>1, <1>2 DEF Callback, RequestLaunch, RequestClose, ToggleEdge, LaunchButtonEdge,
                    AutostartTimer, LvglResumesOnInput
<1>3. CASE LoopPoll
  BY <1>1, <1>3 DEF LoopPoll, PausesAgain
<1>4. CASE LoopTail
  BY <1>1, <1>4 DEF LoopTail, LoadFailed, StartLoaded, WorkerStarts, FinishApp, Launch, Idle
<1>5. CASE LoadTaskEnds
  BY <1>5 DEF LoadTaskEnds
<1>6. CASE \E t \in Tasks : AppTask(t)
  BY <1>6 DEF AppTask, AppOpenBegins, AppOpenAsks, AppOpenCloses
<1>7. CASE (\E a \in Args : SetResumeArg(a)) \/ AppReadsInput \/ AppReturns
  BY <1>7 DEF SetResumeArg, AppReadsInput, AppReturns
<1>. QED BY <1>2, <1>3, <1>4, <1>5, <1>6, <1>7 DEF Next

\* While every worker can be created, the menu gets its touch back after every app
\* and every failed load: there is one path of the code that takes it away.
THEOREM MenuTakesTouchUnlessStartFails ==
  Spec /\ [][~WorkerFails]_vars => []MenuTakesTouch
<1>1. Init => MenuTouch
  BY DEF Init, MenuTouch
<1>2. IInv /\ MenuTouch => MenuTakesTouch
  BY DEF IInv, Consistent, MenuTouch, MenuTakesTouch
<1>. QED BY Invariant, MenuTouchStep, <1>1, <1>2, PTL DEF Spec
-----------------------------------------------------------------------------
(***************************************************************************)
(* What the queue of the next launch holds.  A hand-off is queued exactly  *)
(* by ContinueChain and LaunchFails, both of which leave no app there; the *)
(* other writers of the queue leave its hand-off parts alone or start from *)
(* a queue without one.                                                    *)
(***************************************************************************)
QueueInv ==
  /\ chainLaunch => (launchPending /\ ~launched)
  /\ nextArg # NoArg => chainLaunch

LEMMA QueueStep == IInv /\ QueueInv /\ [Next]_vars => QueueInv'
<1> SUFFICES ASSUME IInv, QueueInv, [Next]_vars PROVE QueueInv'
  OBVIOUS
<1> USE DEF QueueInv, queue
<1>1. CASE Callback
  <2>1. CASE \E a \in Apps : RequestLaunch(a)
    BY <2>1 DEF RequestLaunch
  <2>2. CASE RequestClose \/ LvglResumesOnInput
    BY <2>2 DEF RequestClose, LvglResumesOnInput
  <2>3. CASE ToggleEdge
    BY <2>3 DEF ToggleEdge
  <2>4. CASE LaunchButtonEdge
    <3>1. launchPending => launchPending'
      BY <2>4, Zenon DEF LaunchButtonEdge
    <3>. QED BY <2>4, <3>1 DEF LaunchButtonEdge
  <2>5. CASE AutostartTimer
    BY <2>5 DEF AutostartTimer
  <2>. QED BY <1>1, <2>1, <2>2, <2>3, <2>4, <2>5 DEF Callback
<1>2. CASE LoopPoll
  <2>1. launchPending => launchPending'
    BY <1>2, Zenon DEF LoopPoll
  <2>. QED BY <1>2, <2>1 DEF LoopPoll
<1>3. CASE LoopTail
  <2>1. ASSUME ContinueChain, ~launched', launched
        PROVE  QueueInv'
    BY <2>1 DEF ContinueChain
  <2>2. CASE LoadFailed
    BY <2>2, <2>1 DEF LoadFailed
  <2>3. CASE StartLoaded
    <3>1. CASE UNCHANGED <<launched, queue>>
      BY <3>1
    <3>2. CASE launched' = FALSE /\ ContinueChain
      BY <2>3, <3>2, <2>1 DEF StartLoaded
    <3>. QED BY <2>3, <3>1, <3>2, Zenon DEF StartLoaded
  <2>4. CASE FinishApp
    BY <2>4, <2>1 DEF FinishApp
  <2>5. CASE Launch
    <3>1. LaunchFails \/ LaunchGoesOn
      BY <2>5 DEF Launch
    <3>. QED BY <3>1 DEF LaunchFails, LaunchGoesOn
  <2>6. CASE Idle
    BY <2>6 DEF Idle
  <2>. QED BY <1>3, <2>2, <2>3, <2>4, <2>5, <2>6 DEF LoopTail
<1>4. CASE LoadTaskEnds
  BY <1>4 DEF LoadTaskEnds
<1>5. CASE \E t \in Tasks : AppTask(t)
  BY <1>5 DEF AppTask, AppOpenBegins, AppOpenAsks, AppOpenCloses
<1>6. CASE \/ \E a \in Args : SetResumeArg(a)
           \/ AppReadsInput \/ AppReturns
  BY <1>6 DEF SetResumeArg, AppReadsInput, AppReturns
<1>7. CASE UNCHANGED vars
  BY <1>7 DEF vars
<1>. QED BY <1>1, <1>2, <1>3, <1>4, <1>5, <1>6, <1>7 DEF Next

\* A queued argument belongs to a queued hand-off, so a launch from the menu
\* never inherits one, with any number of helper tasks.
THEOREM ArgumentsAreHandedOver == Spec => []ArgOnlyByHandoff
<1>1. Init => QueueInv
  BY DEF Init, QueueInv
<1>2. QueueInv => ArgOnlyByHandoff
  BY DEF QueueInv, ArgOnlyByHandoff
<1>. QED BY Invariant, QueueStep, <1>1, <1>2, PTL DEF Spec

\* A close request survives every step but the end of the app: also the
\* download, its failure, and the start of what was downloaded.
THEOREM CloseIsSticky == Spec => CloseSticky
<1>1. IInv /\ [Next]_vars =>
        [(launched /\ launched' /\ globalClose) => globalClose']_vars
  <2> SUFFICES ASSUME Next, launched, launched', globalClose
               PROVE  globalClose'
    BY Zenon
  <2>1. CASE Callback
    BY <2>1 DEF Callback, RequestLaunch, RequestClose, ToggleEdge, LaunchButtonEdge,
                AutostartTimer, LvglResumesOnInput
  <2>2. CASE LoopPoll
    BY <2>2 DEF LoopPoll
  <2>3. CASE LoopTail
    BY <2>3 DEF LoopTail, LoadFailed, StartLoaded, FinishApp, Launch, Idle
  <2>4. CASE LoadTaskEnds
    BY <2>4 DEF LoadTaskEnds
  <2>5. CASE \E t \in Tasks : AppTask(t)
    BY <2>5 DEF AppTask, AppOpenBegins, AppOpenAsks, AppOpenCloses
  <2>6. CASE \/ \E a \in Args : SetResumeArg(a)
             \/ AppReadsInput \/ AppReturns
    BY <2>6 DEF SetResumeArg, AppReadsInput, AppReturns
  <2>. QED BY <2>1, <2>2, <2>3, <2>4, <2>5, <2>6 DEF Next
<1>. QED BY Invariant, <1>1, PTL DEF Spec, CloseSticky
-----------------------------------------------------------------------------
(***************************************************************************)
(* Calls in time: every call of app_open ends before its app does, and the *)
(* autostart timer does not fire under an app.  Nothing is queued under an *)
(* app then, and the chain is empty in the menu, with any number of helper *)
(* tasks.  Without the one, a hand-off may be accepted after the end of    *)
(* its app; without the other, a launch is queued under an app.  Each      *)
(* breaks the theorems below.                                              *)
(***************************************************************************)
InTime == \A t \in Tasks : opening[t].step # "idle" => worker = "running" /\ launched

TimerInMenu == autostart' # autostart => ~launched

InTimeSpec == Spec /\ []InTime /\ [][TimerInMenu]_vars

\* Whoever was accepted has a hand-off waiting.
OpenFits == \A t \in Tasks : opening[t].step = "accepted" => chain.pending # <<>>

\* What waits for the next launch.
QueueFits ==
  /\ launched => ~launchPending
  /\ ~chainLaunch => nextArg = NoArg
  /\ chainLaunch => launchPending
  /\ ~launched /\ ~chainLaunch => chain = EmptyChain

\* Every close of a run is one of the user or of its own hand-off.
CloseFits == launched /\ globalClose => userClosed \/ chain.pending # <<>>

\* The launcher has seen the level its launch button has.
ButtonFits == button.level => button.seen

InTimeInv == IInv /\ OpenFits /\ QueueFits /\ CloseFits /\ ButtonFits

\* The steps of the loop that leave no app, and those that keep what a run has.
LEMMA ContinueFits ==
  ASSUME InTimeInv, launched, ContinueChain, ~launched'
  PROVE  QueueFits'
<1>1. CASE HasNext(chain)
  BY <1>1 DEF ContinueChain, QueueFits
<1>2. CASE ~HasNext(chain)
  <2>1. chain = EmptyChain
    BY <1>2 DEF InTimeInv, IInv, TypeOK, HasNext, EmptyChain, Chain
  <2>. QED BY <1>2, <2>1 DEF ContinueChain, queue, InTimeInv, QueueFits
<1>. QED BY <1>1, <1>2

LEMMA InTimeInit == Init => InTimeInv
  BY InitIInv DEF Init, InTimeInv, OpenFits, QueueFits, CloseFits, ButtonFits, Tasks, NotOpening

LEMMA CallbackInTime ==
  ASSUME InTime, TimerInMenu, InTimeInv, Callback
  PROVE  OpenFits' /\ QueueFits' /\ CloseFits' /\ ButtonFits'
<1>. USE DEF InTimeInv, OpenFits, QueueFits, CloseFits, ButtonFits, queue, args, image
<1>1. ASSUME NEW a \in Apps, RequestLaunch(a) PROVE OpenFits' /\ QueueFits' /\ CloseFits' /\ ButtonFits'
  BY <1>1 DEF RequestLaunch
<1>2. CASE RequestClose
  BY <1>2 DEF RequestClose
<1>3. CASE ToggleEdge
  <2>1. userClosed => userClosed'
    BY <1>3, Zenon DEF ToggleEdge
  <2>. QED BY <1>3, <2>1 DEF ToggleEdge
<1>4. CASE LaunchButtonEdge
  <2>1. /\ launched => launchPending' = launchPending
        /\ launchPending => launchPending'
        /\ button'.level => button'.seen
    BY <1>4 DEF LaunchButtonEdge, IInv, TypeOK
  <2>. QED BY <1>4, <2>1 DEF LaunchButtonEdge
<1>5. CASE AutostartTimer
  <2>1. ~launched
    BY <1>5 DEF AutostartTimer, TimerInMenu
  <2>. QED BY <1>5, <2>1 DEF AutostartTimer
<1>6. CASE LvglResumesOnInput
  BY <1>6 DEF LvglResumesOnInput
<1>. QED BY <1>1, <1>2, <1>3, <1>4, <1>5, <1>6 DEF Callback

LEMMA PollInTime ==
  ASSUME InTime, InTimeInv, LoopPoll
  PROVE  /\ OpenFits' /\ QueueFits' /\ CloseFits' /\ ButtonFits'
         /\ launchPending' = launchPending
<1>. USE DEF InTimeInv, OpenFits, QueueFits, CloseFits, ButtonFits, queue, args, image
<1>1. launchPending' = launchPending
  BY DEF LoopPoll, IInv, TypeOK
<1>2. button'.level => button'.seen
  BY DEF LoopPoll, IInv, TypeOK
<1>. QED BY <1>1, <1>2 DEF LoopPoll

LEMMA TailInTime ==
  ASSUME InTime, InTimeInv, LoopTail
  PROVE  OpenFits' /\ QueueFits' /\ CloseFits' /\ ButtonFits'
<1>. USE DEF InTimeInv, CloseFits, ButtonFits
<1>0. UNCHANGED <<button, autostart, opening>>
  BY DEF LoopTail
<1>6. ASSUME worker # "running" \/ ~launched PROVE OpenFits'
  BY <1>0, <1>6 DEF InTime, OpenFits
<1>1. CASE LoadFailed
  <2>1. ~launched' /\ launched /\ worker = "none" /\ ContinueChain
    BY <1>1 DEF LoadFailed, IInv, Consistent
  <2>. QED BY <1>0, <2>1, ContinueFits, <1>6
<1>2. CASE StartLoaded
  <2>1. worker = "none" /\ launched
    BY <1>2 DEF StartLoaded, IInv, Consistent
  <2>2. CASE UNCHANGED <<launched, queue, chain>>
    BY <1>0, <1>2, <1>6, <2>1, <2>2 DEF StartLoaded, QueueFits, queue
  <2>3. CASE launched' = FALSE /\ ContinueChain
    BY <1>0, <2>1, <2>3, ContinueFits, <1>6
  <2>. QED BY <1>2, <2>2, <2>3, Zenon DEF StartLoaded
<1>3. CASE FinishApp
  <2>1. ~launched' /\ launched /\ worker = "done" /\ ContinueChain
    BY <1>3 DEF FinishApp
  <2>. QED BY <1>0, <2>1, ContinueFits, <1>6
<1>4. CASE Launch
  <2>1. ~launched /\ launchPending /\ globalClose' = FALSE
    BY <1>4 DEF Launch, ClosesForgotten
  <2>2. LaunchChain = chain
    BY <2>1 DEF LaunchChain, QueueFits
  <2>3. CASE LaunchGoesOn
    BY <1>0, <1>6, <2>1, <2>2, <2>3 DEF LaunchGoesOn, QueueFits
  <2>4. CASE LaunchFails
    <3>1. QueueFits'
      <4>1. CASE HasNext(chain)
        BY <2>2, <2>4, <4>1 DEF LaunchFails, QueueFits
      <4>2. CASE ~HasNext(chain)
        BY <2>2, <2>4, <4>2 DEF LaunchFails, QueueFits, IInv, TypeOK, HasNext, EmptyChain, Chain
      <4>. QED BY <4>1, <4>2
    <3>. QED BY <1>0, <1>6, <2>1, <2>4, <3>1 DEF LaunchFails
  <2>5. LaunchFails \/ LaunchGoesOn
    BY <1>4 DEF Launch
  <2>. QED BY <2>3, <2>4, <2>5
<1>5. CASE Idle
  BY <1>0, <1>5 DEF Idle, OpenFits, QueueFits, queue, image
<1>. QED BY <1>1, <1>2, <1>3, <1>4, <1>5 DEF LoopTail

LEMMA OthersInTime ==
  ASSUME InTime, InTimeInv,
         LoadTaskEnds \/ (\E t \in Tasks : AppTask(t)) \/ (\E a \in Args : SetResumeArg(a))
           \/ AppReadsInput \/ AppReturns \/ UNCHANGED vars
  PROVE  OpenFits' /\ QueueFits' /\ CloseFits' /\ ButtonFits'
<1>. USE DEF InTimeInv, OpenFits, QueueFits, CloseFits, ButtonFits, queue, args, image
<1>0. opening \in [Tasks -> [step : {"idle", "accepted"}]
                     \cup [step : {"lookup"}, target : Frame, back : BOOLEAN]]
  BY DEF IInv, TypeOK
<1>1. ASSUME NEW t \in Tasks, AppOpenBegins(t)
      PROVE  OpenFits' /\ QueueFits' /\ CloseFits' /\ ButtonFits'
  <2>1. /\ opening'[t].step = "lookup"
        /\ \A u \in Tasks : u # t => opening'[u] = opening[u]
    BY <1>0, <1>1 DEF AppOpenBegins
  <2>2. UNCHANGED <<launched, queue, chain, globalClose, button, userClosed>>
    BY <1>1 DEF AppOpenBegins
  <2>. QED BY <2>1, <2>2
<1>2. ASSUME NEW t \in Tasks, AppOpenAsks(t)
      PROVE  OpenFits' /\ QueueFits' /\ CloseFits' /\ ButtonFits'
  <2>1. opening[t].step = "lookup" /\ worker = "running" /\ launched
    BY <1>2 DEF AppOpenAsks, InTime
  <2>2. UNCHANGED <<launched, queue, globalClose, button, userClosed>>
    BY <1>2 DEF AppOpenAsks
  <2>3. chain'.pending # <<>> \/ (opening'[t] = NotOpening /\ chain' = chain)
    <3>1. CASE opening' = [opening EXCEPT ![t] = NotOpening] /\ UNCHANGED chain
      BY <1>0, <3>1
    <3>2. ASSUME NEW r, chain' = AfterRequest(chain, r) PROVE chain'.pending # <<>>
      <4>1. chain'.pending = <<r>>
        BY <3>2 DEF AfterRequest, IInv, TypeOK, Chain
      <4>. QED BY <4>1
    <3>. QED BY <1>2, <3>1, <3>2, Zenon DEF AppOpenAsks
  <2>4. CASE chain'.pending # <<>>
    BY <2>1, <2>2, <2>4
  <2>5. CASE opening'[t] = NotOpening /\ chain' = chain
    <3>1. \A u \in Tasks : u # t => opening'[u] = opening[u]
      BY <1>0, <1>2 DEF AppOpenAsks
    <3>. QED BY <2>2, <2>5, <3>1 DEF NotOpening
  <2>. QED BY <2>3, <2>4, <2>5
<1>3. ASSUME NEW t \in Tasks, AppOpenCloses(t)
      PROVE  OpenFits' /\ QueueFits' /\ CloseFits' /\ ButtonFits'
  <2>1. /\ opening'[t].step = "idle"
        /\ \A u \in Tasks : u # t => opening'[u] = opening[u]
    BY <1>0, <1>3 DEF AppOpenCloses, NotOpening
  <2>2. UNCHANGED <<launched, queue, chain, button, userClosed>> /\ chain.pending # <<>>
    BY <1>3 DEF AppOpenCloses
  <2>. QED BY <2>1, <2>2
<1>4. CASE LoadTaskEnds
  BY <1>4 DEF LoadTaskEnds
<1>5. ASSUME NEW a \in Args, SetResumeArg(a) PROVE OpenFits' /\ QueueFits' /\ CloseFits' /\ ButtonFits'
  BY <1>5 DEF SetResumeArg
<1>6. CASE AppReadsInput
  BY <1>6 DEF AppReadsInput
<1>7. CASE AppReturns
  BY <1>7 DEF AppReturns
<1>8. CASE UNCHANGED vars
  BY <1>8 DEF vars
<1>. QED BY <1>1, <1>2, <1>3, <1>4, <1>5, <1>6, <1>7, <1>8 DEF AppTask

LEMMA InTimeHolds == InTimeSpec => []InTimeInv
<1>1. InTimeInv /\ InTime /\ [TimerInMenu]_vars /\ [Next]_vars => InTimeInv'
  <2> SUFFICES ASSUME InTimeInv, InTime, [TimerInMenu]_vars, [Next]_vars PROVE InTimeInv'
    OBVIOUS
  <2>1. IInv'
    BY CallbackStep, LoopPollStep, LoopTailStep, LoadTaskStep, AppStep, StutterStep DEF Next, InTimeInv
  <2>2. CASE UNCHANGED vars
    BY <2>2, OthersInTime, <2>1 DEF InTimeInv
  <2>3. CASE Next /\ TimerInMenu
    <3>1. OpenFits' /\ QueueFits' /\ CloseFits' /\ ButtonFits'
      BY <2>3, CallbackInTime, PollInTime, TailInTime, OthersInTime DEF Next
    <3>. QED BY <2>1, <3>1 DEF InTimeInv
  <2>. QED BY <2>2, <2>3
<1>. QED BY <1>1, InTimeInit, PTL DEF Spec, InTimeSpec

\* The report of a run says closed only when this run was asked to close, by the
\* user, the toggle button or its own hand-off (finish_app_, papp_loader.cpp:2134),
\* with any number of helper tasks whose calls end in time.
THEOREM ReportsOnlyItsCloseInTime == InTimeSpec => ReportedClosedIsClosed
<1>1. InTimeInv /\ [Next]_vars =>
        [(launched /\ ~launched' /\ report' = "closed") =>
           userClosed \/ toggle.close \/ chain.pending # <<>>]_vars
  <2> SUFFICES ASSUME InTimeInv, Next, launched, ~launched', report' = "closed"
               PROVE  userClosed \/ toggle.close \/ chain.pending # <<>>
    BY Zenon
  <2>1. LoopTail
    BY DEF Next, Callback, RequestLaunch, RequestClose, ToggleEdge, LaunchButtonEdge,
       AutostartTimer, LvglResumesOnInput, LoopPoll, LoadTaskEnds, AppTask, AppOpenBegins,
       AppOpenAsks, AppOpenCloses, SetResumeArg, AppReadsInput, AppReturns
  <2>2. FinishApp
    BY <2>1 DEF LoopTail, LoadFailed, StartLoaded, WorkerStarts, WorkerFails, Launch, Idle
  <2>3. globalClose \/ toggle.close
    BY <2>2 DEF FinishApp
  <2>. QED BY <2>3 DEF InTimeInv, CloseFits
<1>. QED BY InTimeHolds, <1>1, PTL DEF Spec, InTimeSpec, ReportedClosedIsClosed

\* An app that was closed and has nothing to go on to is followed by no launch, and
\* a button held across its end starts none (papp_loader.cpp:833-892, 2129-2182),
\* with any number of helper tasks whose calls end in time, and autostart in the menu.
THEOREM ClosedStaysClosedInTime == InTimeSpec => CloseStaysClosed
<1>1. InTimeInv /\ [Next]_vars =>
        [(launched /\ ~launched' /\ userClosed /\ ~HasNext(chain)) => ~launchPending']_vars
  <2> SUFFICES ASSUME InTimeInv, Next, launched, ~launched', ~HasNext(chain)
               PROVE  ~launchPending'
    BY Zenon
  <2>1. LoopTail
    BY DEF Next, Callback, RequestLaunch, RequestClose, ToggleEdge, LaunchButtonEdge,
       AutostartTimer, LvglResumesOnInput, LoopPoll, LoadTaskEnds, AppTask, AppOpenBegins,
       AppOpenAsks, AppOpenCloses, SetResumeArg, AppReadsInput, AppReturns
  <2>2. ContinueChain
    BY <2>1 DEF LoopTail, LoadFailed, StartLoaded, FinishApp, Launch, Idle
  <2>. QED BY <2>2 DEF ContinueChain, queue, InTimeInv, QueueFits
<1>2. InTimeInv /\ InTime /\ [Next]_vars => [at # at' /\ at = "poll" => launchPending' = launchPending]_vars
  <2> SUFFICES ASSUME InTimeInv, InTime, Next, at # at', at = "poll" PROVE launchPending' = launchPending
    BY Zenon
  <2>1. LoopPoll
    BY DEF Next, Callback, RequestLaunch, RequestClose, ToggleEdge, LaunchButtonEdge,
       AutostartTimer, LvglResumesOnInput, LoopTail, LoadTaskEnds, AppTask, AppOpenBegins,
       AppOpenAsks, AppOpenCloses, SetResumeArg, AppReadsInput, AppReturns
  <2>. QED BY <2>1, PollInTime
<1>. QED BY InTimeHolds, <1>1, <1>2, PTL DEF Spec, InTimeSpec, CloseStaysClosed
-----------------------------------------------------------------------------
(***************************************************************************)
(* The loader implements Navigation.                                       *)
(***************************************************************************)


\* The refinement mapping of Nav.
NavPhase   == IF worker # "none" THEN "running"
              ELSE IF launched \/ launchPending THEN "starting" ELSE "menu"
NavCurrent == IF launched THEN [app |-> running, arg |-> launchArg]
              ELSE IF launchPending THEN [app |-> path, arg |-> ArgOfLaunch]
              ELSE [app |-> running, arg |-> launchArg]
NavResume  == IF launched \/ ~launchPending THEN resumeArg ELSE ArgOfLaunch

\* Each step of Navigation, in terms of the loader.
LEMMA NavSteps ==
  /\ UNCHANGED <<NavPhase, NavCurrent, NavResume, chain>> => UNCHANGED Nav!nav
  /\ \A a : (/\ NavPhase = "menu" /\ NavPhase' = "starting"
             /\ NavCurrent' = [app |-> a, arg |-> NoArg] /\ NavResume' = NoArg
             /\ chain' = EmptyChain) => Nav!OpenFromMenu(a)
  /\ (/\ NavPhase = "starting" /\ NavPhase' = "running"
      /\ UNCHANGED <<NavCurrent, NavResume, chain>>) => Nav!Started
  /\ \A a : (/\ NavPhase = "running" /\ NavResume' = a
             /\ UNCHANGED <<NavPhase, NavCurrent, chain>>) => Nav!SetResume(a)
  BY DEF Nav!nav, Nav!OpenFromMenu, Nav!Started, Nav!SetResume,
     NavPhase, NavCurrent, NavResume, EmptyChain

\* An end goes on with the chain, or to the menu.
LEMMA NavEnds ==
  ASSUME chain \in Chain, NavPhase # "menu",
         \/ /\ HasNext(chain) /\ chain' = AfterNext(chain) /\ NavPhase' = "starting"
            /\ NavCurrent' = NextFrame(chain) /\ NavResume' = NextFrame(chain).arg
         \/ /\ ~HasNext(chain) /\ UNCHANGED <<NavCurrent, NavResume, chain>>
            /\ NavPhase' = "menu"
  PROVE  Nav!Ends
<1>1. CASE ~HasNext(chain)
  BY <1>1 DEF HasNext, Nav!Ends, NavPhase, NavCurrent, NavResume
<1>2. CASE chain.pending # <<>>
  <2>1. /\ chain' = [pending |-> <<>>,
                     stack   |-> IF chain.pending[1].back
                                 THEN Append(chain.stack, chain.pending[1].caller)
                                 ELSE chain.stack]
        /\ NavPhase' = "starting"
        /\ NavCurrent' = chain.pending[1].target /\ NavResume' = chain.pending[1].target.arg
    BY <1>2 DEF HasNext, AfterNext, NextFrame
  <2>2. /\ chain'.pending = <<>>
        /\ chain'.stack = IF chain.pending[1].back
                          THEN Append(chain.stack, chain.pending[1].caller)
                          ELSE chain.stack
    BY <2>1
  <2>3. Nav!Goes(chain.pending[1].target)
    BY <2>1 DEF Nav!Goes, NavPhase, NavCurrent, NavResume
  <2>. QED BY <1>2, <2>2, <2>3 DEF Nav!Ends, NavPhase
<1>3. CASE chain.pending = <<>> /\ chain.stack # <<>>
  <2>1. /\ chain' = AfterNext(chain) /\ NavPhase' = "starting"
        /\ NavCurrent' = chain.stack[Len(chain.stack)]
        /\ NavResume' = chain.stack[Len(chain.stack)].arg
    BY <1>3 DEF HasNext, NextFrame
  <2>2. chain'.pending = chain.pending /\ chain'.stack = SubSeq(chain.stack, 1, Len(chain.stack) - 1)
    BY <1>3, <2>1 DEF AfterNext, Chain
  <2>3. Nav!Goes(chain.stack[Len(chain.stack)])
    BY <2>1 DEF Nav!Goes, NavPhase, NavCurrent, NavResume
  <2>. QED BY <1>3, <2>2, <2>3 DEF Nav!Ends, NavPhase
<1>. QED BY <1>1, <1>2, <1>3 DEF HasNext

\* What the mapping does not look at may change.
LEMMA NavKept ==
  ASSUME UNCHANGED <<launched, worker, launchArg, resumeArg, running, chain,
                     launchPending, path, chainLaunch, nextArg>>
  PROVE  UNCHANGED <<NavPhase, NavCurrent, NavResume, chain>>
  BY DEF NavPhase, NavCurrent, NavResume, ArgOfLaunch

LEMMA NavCallback == ASSUME InTime, TimerInMenu, InTimeInv, Callback PROVE [Nav!Next]_(Nav!nav)
<1>. USE DEF queue, args, image
<1>1. ASSUME ~launched, ~launchPending, UNCHANGED <<launched, args, chain, worker>>,
             launchPending', path' \in Apps, ~chainLaunch'
      PROVE  Nav!Next
  <2>1. worker = "none" /\ chain = EmptyChain
    BY <1>1 DEF InTimeInv, IInv, Consistent, QueueFits, TypeOK
  <2>2. ArgOfLaunch' = NoArg
    BY <1>1 DEF ArgOfLaunch
  <2>3. Nav!OpenFromMenu(path')
    BY <1>1, <2>1, <2>2, NavSteps DEF NavPhase, NavCurrent, NavResume
  <2>. QED BY <1>1, <2>3 DEF Nav!Next
<1>2. ASSUME NEW a \in Apps, RequestLaunch(a) PROVE Nav!Next
  BY <1>1, <1>2 DEF RequestLaunch
<1>3. CASE LaunchButtonEdge
  <2>1. UNCHANGED <<launched, args, chain, worker, path, chainLaunch, nextArg>>
    BY <1>3 DEF LaunchButtonEdge
  <2>2. CASE launchPending' = launchPending
    BY <2>1, <2>2, NavKept, NavSteps
  <2>3. CASE launchPending' # launchPending
    <3>1. ~launched /\ ~launchPending /\ launchPending'
      BY <1>3, <2>3 DEF LaunchButtonEdge, InTimeInv, IInv, TypeOK
    <3>2. path' \in Apps /\ ~chainLaunch'
      BY <2>1, <3>1 DEF InTimeInv, IInv, TypeOK, QueueFits
    <3>. QED BY <1>1, <2>1, <3>1, <3>2
  <2>. QED BY <2>2, <2>3
<1>4. CASE RequestClose \/ ToggleEdge \/ LvglResumesOnInput
  <2>1. UNCHANGED <<NavPhase, NavCurrent, NavResume, chain>>
    BY <1>4, NavKept DEF RequestClose, ToggleEdge, LvglResumesOnInput
  <2>. QED BY <2>1, NavSteps
<1>5. CASE AutostartTimer
  <2>1. /\ ~launched /\ launchPending' /\ UNCHANGED <<launched, args, chain, worker>>
        /\ UNCHANGED <<path, chainLaunch, nextArg>>
    BY <1>5 DEF AutostartTimer, TimerInMenu
  <2>2. CASE launchPending
    <3>1. launchPending' = launchPending
      BY <1>5, <2>2 DEF AutostartTimer, InTimeInv, IInv, TypeOK
    <3>. QED BY <2>1, <3>1, NavKept, NavSteps
  <2>3. CASE ~launchPending
    <3>1. path' \in Apps /\ ~chainLaunch'
      BY <2>1, <2>3 DEF InTimeInv, IInv, TypeOK, QueueFits
    <3>. QED BY <1>1, <2>1, <2>3, <3>1
  <2>. QED BY <2>2, <2>3
<1>. QED BY <1>2, <1>3, <1>4, <1>5 DEF Callback

\* An app that is there ends: continue_chain_ says what comes next.
LEMMA NavContinues ==
  ASSUME InTimeInv, launched, ~launched', worker' = "none", ContinueChain,
         UNCHANGED <<launchArg, resumeArg, running>>
  PROVE  Nav!Next
<1>1. /\ chain \in Chain /\ NavPhase # "menu" /\ ~launchPending
      /\ NavCurrent = [app |-> running, arg |-> launchArg] /\ NavResume = resumeArg
  BY DEF InTimeInv, IInv, TypeOK, QueueFits, NavPhase, NavCurrent, NavResume
<1>2. CASE HasNext(chain)
  <2>1. NextFrame(chain) \in Frame
    BY <1>1, <1>2, NextOK DEF InTimeInv, IInv, DepthBound
  <2>2. /\ path' = NextFrame(chain).app /\ nextArg' = NextFrame(chain).arg
        /\ chain' = AfterNext(chain) /\ chainLaunch' /\ launchPending'
    BY <1>2 DEF ContinueChain
  <2>3. ArgOfLaunch' = NextFrame(chain).arg
    BY <2>2 DEF ArgOfLaunch
  <2>4. [app |-> path', arg |-> ArgOfLaunch'] = NextFrame(chain)
    BY <2>1, <2>2, <2>3 DEF Frame
  <2>. QED BY <1>1, <1>2, <2>2, <2>3, <2>4, NavEnds DEF Nav!Next, NavPhase, NavCurrent, NavResume
<1>3. CASE ~HasNext(chain)
  <2>1. UNCHANGED <<launchPending, path, chainLaunch, nextArg, chain>>
    BY <1>3 DEF ContinueChain, queue
  <2>. QED BY <1>1, <1>3, <2>1, NavEnds DEF Nav!Next, NavPhase, NavCurrent, NavResume
<1>. QED BY <1>2, <1>3

\* A queued launch is an app that is starting, and ends when it cannot.
LEMMA NavLaunch == ASSUME InTime, InTimeInv, Launch PROVE [Nav!Next]_(Nav!nav)
<1>1. /\ chain \in Chain /\ LaunchChain = chain /\ worker = "none" /\ ~launched /\ launchPending
      /\ NavPhase = "starting" /\ NavResume = ArgOfLaunch
      /\ NavCurrent = [app |-> path, arg |-> ArgOfLaunch]
  BY DEF Launch, InTimeInv, IInv, TypeOK, Consistent, QueueFits, LaunchChain, NavPhase, NavCurrent, NavResume
<1>2. launchArg' = ArgOfLaunch /\ resumeArg' = ArgOfLaunch /\ running' = path
  BY DEF Launch
<1>3. ASSUME LaunchFails, worker' = "none" PROVE Nav!Next
  <2>1. CASE HasNext(chain)
    <3>1. NextFrame(chain) \in Frame
      BY <1>1, <2>1, NextOK DEF InTimeInv, IInv, DepthBound
    <3>2. /\ path' = NextFrame(chain).app /\ nextArg' = NextFrame(chain).arg
          /\ chain' = AfterNext(chain) /\ chainLaunch' /\ launchPending' /\ ~launched'
      BY <1>1, <1>3, <2>1 DEF LaunchFails
    <3>3. ArgOfLaunch' = NextFrame(chain).arg
      BY <3>2 DEF ArgOfLaunch
    <3>4. [app |-> path', arg |-> ArgOfLaunch'] = NextFrame(chain)
      BY <3>1, <3>2, <3>3 DEF Frame
    <3>5. NavPhase' = "starting" /\ NavCurrent' = NextFrame(chain) /\ NavResume' = NextFrame(chain).arg
      BY <1>3, <3>2, <3>3, <3>4 DEF NavPhase, NavCurrent, NavResume
    <3>. QED BY <1>1, <2>1, <3>2, <3>5, NavEnds DEF Nav!Next
  <2>2. CASE ~HasNext(chain)
    <3>1. ~launched' /\ ~launchPending' /\ chain' = chain
      BY <1>1, <1>3, <2>2 DEF LaunchFails
    <3>2. /\ NavPhase' = "menu" /\ NavCurrent' = [app |-> path, arg |-> ArgOfLaunch]
          /\ NavResume' = ArgOfLaunch
      BY <1>2, <1>3, <3>1 DEF NavPhase, NavCurrent, NavResume
    <3>. QED BY <1>1, <2>2, <3>1, <3>2, NavEnds DEF Nav!Next
  <2>. QED BY <2>1, <2>2
<1>4. ASSUME LaunchGoesOn, worker' = "none" \/ worker' = "running" PROVE [Nav!Next]_(Nav!nav)
  <2>1. launched' /\ chain' = chain
    BY <1>1, <1>4 DEF LaunchGoesOn
  <2>2. /\ NavCurrent' = [app |-> path, arg |-> ArgOfLaunch] /\ NavResume' = ArgOfLaunch
        /\ NavPhase' = (IF worker' = "none" THEN "starting" ELSE "running")
    BY <1>2, <1>4, <2>1 DEF NavPhase, NavCurrent, NavResume
  <2>. QED BY <1>1, <1>4, <2>1, <2>2, NavSteps DEF Nav!Next
<1>. QED BY <1>1, <1>3, <1>4 DEF Launch, WorkerStarts, WorkerFails, image

LEMMA NavTail == ASSUME InTime, InTimeInv, LoopTail PROVE [Nav!Next]_(Nav!nav)
<1>1. CASE LoadFailed
  BY <1>1, NavContinues DEF LoadFailed, args, image, InTimeInv, IInv, Consistent
<1>2. CASE StartLoaded
  <2>1. worker = "none" /\ launched /\ UNCHANGED <<launchArg, resumeArg, running>>
    BY <1>2 DEF StartLoaded, args, InTimeInv, IInv, Consistent
  <2>2. CASE WorkerStarts /\ UNCHANGED <<launched, queue, chain>>
    BY <2>1, <2>2, NavSteps DEF WorkerStarts, Nav!Next, NavPhase, NavCurrent, NavResume
  <2>3. CASE WorkerFails /\ launched' = FALSE /\ ContinueChain
    BY <2>1, <2>3, NavContinues DEF WorkerFails
  <2>. QED BY <1>2, <2>2, <2>3, Zenon DEF StartLoaded
<1>3. CASE FinishApp
  BY <1>3, NavContinues DEF FinishApp, args
<1>4. CASE Launch
  BY <1>4, NavLaunch
<1>5. CASE Idle
  BY <1>5, NavKept, NavSteps DEF Idle, queue, args, image
<1>. QED BY <1>1, <1>2, <1>3, <1>4, <1>5 DEF LoopTail

LEMMA NavApp == ASSUME InTime, InTimeInv, NEW t \in Tasks, AppTask(t) PROVE [Nav!Next]_(Nav!nav)
<1>. USE DEF queue, args, image
<1>1. CASE AppOpenBegins(t) \/ AppOpenCloses(t)
  BY <1>1, NavKept, NavSteps DEF AppOpenBegins, AppOpenCloses
<1>2. CASE AppOpenAsks(t)
  <2>1. CASE UNCHANGED chain
    BY <1>2, <2>1, NavKept, NavSteps DEF AppOpenAsks
  <2>2. CASE chain' # chain
    <3>. DEFINE o == opening[t]
                r == [caller |-> [app |-> running, arg |-> resumeArg],
                      target |-> o.target, back |-> o.back]
    <3>1. /\ Accepts(chain, r) /\ chain' = AfterRequest(chain, r)
          /\ UNCHANGED <<launched, worker, launchArg, resumeArg, running,
                         launchPending, path, chainLaunch, nextArg>>
      BY <1>2, <2>2 DEF AppOpenAsks
    <3>2. worker = "running" /\ launched
      BY <1>2 DEF AppOpenAsks, InTime
    <3>3. o.target \in Frame /\ o.back \in BOOLEAN
      BY <1>2 DEF AppOpenAsks, InTimeInv, IInv, TypeOK
    <3>4. /\ NavPhase = "running" /\ NavCurrent.app = running /\ NavResume = resumeArg
          /\ UNCHANGED <<NavPhase, NavCurrent, NavResume>>
      BY <3>1, <3>2 DEF NavPhase, NavCurrent, NavResume
    <3>5. chain.pending = <<>> /\ (o.back => Len(chain.stack) < MaxDepth)
      BY <3>1 DEF Accepts
    <3>6. chain'.pending = <<r>> /\ chain'.stack = chain.stack
      BY <3>1 DEF AfterRequest, InTimeInv, IInv, TypeOK, Chain
    <3>7. Nav!HandOver(o.target, o.back)
      BY <3>4, <3>5, <3>6 DEF Nav!HandOver, NavPhase, NavCurrent, NavResume
    <3>. QED BY <3>3, <3>7 DEF Nav!Next, Nav!Frame, Frame
  <2>. QED BY <2>1, <2>2
<1>. QED BY <1>1, <1>2 DEF AppTask

\* The loader keeps its promise to app authors (psram_app.h, building.md): every
\* behaviour in which calls end in time is one of Navigation, for any apps, arguments,
\* depth and number of helper tasks.
THEOREM ImplementsNavigationInTime == InTimeSpec => Navigates
<1>1. Init => Nav!Init
  <2> SUFFICES ASSUME Init PROVE Nav!Init
    OBVIOUS
  <2>. QED BY ChainAssumption DEF Init, Nav!Init, EmptyChain
<1>2. InTimeInv /\ InTime /\ [TimerInMenu]_vars /\ [Next]_vars => [Nav!Next]_(Nav!nav)
  <2> SUFFICES ASSUME InTimeInv, InTime, [TimerInMenu]_vars, [Next]_vars
               PROVE  [Nav!Next]_(Nav!nav)
    OBVIOUS
  <2>. USE DEF queue, args, image
  <2>1. CASE LoopPoll
    <3>1. UNCHANGED <<launched, worker, launchArg, resumeArg, running, chain,
                      launchPending, path, chainLaunch, nextArg>>
      BY <2>1, PollInTime DEF LoopPoll
    <3>. QED BY <3>1, NavKept, NavSteps
  <2>2. CASE LoadTaskEnds \/ AppReadsInput \/ UNCHANGED vars
    BY <2>2, NavKept, NavSteps DEF LoadTaskEnds, AppReadsInput, vars
  <2>3. ASSUME NEW a \in Args, SetResumeArg(a) PROVE [Nav!Next]_(Nav!nav)
    <3>1. launched /\ NavPhase = "running"
      BY <2>3 DEF SetResumeArg, InTimeInv, IInv, Consistent, NavPhase
    <3>2. NavResume' = a /\ UNCHANGED <<NavPhase, NavCurrent, chain>>
      BY <2>3, <3>1 DEF SetResumeArg, NavPhase, NavCurrent, NavResume
    <3>. QED BY <3>1, <3>2, NavSteps DEF Nav!Next
  <2>4. CASE AppReturns
    <3>1. UNCHANGED <<NavPhase, NavCurrent, NavResume, chain>>
      BY <2>4 DEF AppReturns, NavPhase, NavCurrent, NavResume, ArgOfLaunch
    <3>. QED BY <3>1, NavSteps
  <2>5. CASE Callback
    <3>1. CASE UNCHANGED vars
      BY <2>2, <3>1
    <3>2. CASE TimerInMenu
      BY <2>5, <3>2, NavCallback
    <3>. QED BY <3>1, <3>2
  <2>. QED BY <2>1, <2>2, <2>3, <2>4, <2>5, NavTail, NavApp DEF Next
<1>. QED BY InTimeHolds, <1>1, <1>2, PTL DEF Spec, InTimeSpec, Navigates, Nav!Spec
-----------------------------------------------------------------------------
(***************************************************************************)
(* Apps with one task, and no autostart: calls are always in time, for the *)
(* app's main returns only outside of app_open.                            *)
(***************************************************************************)
Alone == Helpers = {} /\ Autostart = FALSE

AloneFits == InTime /\ autostart = FALSE

LEMMA AloneStep == ASSUME Alone PROVE IInv /\ AloneFits /\ [Next]_vars => AloneFits'
<1> SUFFICES ASSUME IInv, AloneFits, [Next]_vars PROVE AloneFits'
  OBVIOUS
<1>. USE DEF AloneFits, InTime, image
<1>1. Tasks = {Main}
  BY DEF Tasks, Alone
<1>2. opening \in [Tasks -> [step : {"idle", "accepted"}]
                     \cup [step : {"lookup"}, target : Frame, back : BOOLEAN]]
  BY DEF IInv, TypeOK
<1>3. CASE Callback
  BY <1>3 DEF Callback, RequestLaunch, RequestClose, ToggleEdge, LaunchButtonEdge,
              AutostartTimer, LvglResumesOnInput
<1>4. CASE LoopPoll \/ LoadTaskEnds \/ AppReadsInput \/ \E a \in Args : SetResumeArg(a)
  BY <1>4 DEF LoopPoll, LoadTaskEnds, AppReadsInput, SetResumeArg
<1>5. CASE LoopTail
  <2>1. UNCHANGED <<autostart, opening>>
    BY <1>5 DEF LoopTail
  <2>2. CASE worker = "running" /\ launched
    <3>1. load = "none"
      BY <2>2 DEF IInv, Consistent, TypeOK
    <3>2. UNCHANGED <<worker, launched>>
      BY <1>5, <2>2, <3>1 DEF LoopTail, LoadFailed, StartLoaded, FinishApp, Launch, Idle
    <3>. QED BY <2>1, <2>2, <3>2
  <2>3. CASE ~(worker = "running" /\ launched)
    BY <2>1, <2>3
  <2>. QED BY <2>2, <2>3
<1>6. CASE AppReturns
  <2>1. UNCHANGED <<autostart, opening>> /\ opening[Main] = NotOpening
    BY <1>6 DEF AppReturns
  <2>. QED BY <1>1, <2>1 DEF NotOpening
<1>7. ASSUME NEW t \in Tasks, AppTask(t) PROVE AloneFits'
  <2>1. UNCHANGED <<autostart, worker, launched>>
    BY <1>7 DEF AppTask, AppOpenBegins, AppOpenAsks, AppOpenCloses
  <2>2. worker = "running" /\ launched
    <3>1. CASE AppOpenBegins(t)
      BY <3>1 DEF AppOpenBegins
    <3>2. CASE AppOpenAsks(t) \/ AppOpenCloses(t)
      BY <3>2 DEF AppOpenAsks, AppOpenCloses
    <3>. QED BY <1>7, <3>1, <3>2 DEF AppTask
  <2>. QED BY <2>1, <2>2
<1>8. CASE UNCHANGED vars
  BY <1>8 DEF vars
<1>. QED BY <1>3, <1>4, <1>5, <1>6, <1>7, <1>8 DEF Next

LEMMA AloneInTime == ASSUME Alone PROVE Spec => InTimeSpec
<1>1. Init => AloneFits
  BY DEF Init, AloneFits, InTime, Alone, NotOpening
<1>2. AloneFits => InTime
  BY DEF AloneFits
<1>3. AloneFits /\ AloneFits' => [TimerInMenu]_vars
  BY DEF AloneFits, TimerInMenu
<1>. QED BY <1>1, <1>2, <1>3, AloneStep, Invariant, PTL DEF Spec, InTimeSpec

\* The report of a run says closed only when this run was asked to close, for an app
\* with one task and without autostart.
THEOREM ReportsOnlyItsClose == Alone /\ Spec => ReportedClosedIsClosed
  BY AloneInTime, ReportsOnlyItsCloseInTime

\* An app that was closed and has nothing to go on to is followed by no launch, and
\* a held button starts none, for an app with one task and without autostart.
THEOREM ClosedStaysClosed == Alone /\ Spec => CloseStaysClosed
  BY AloneInTime, ClosedStaysClosedInTime

\* Every behaviour of the loader with an app of one task and without autostart is one
\* of Navigation, for any apps, arguments and depth.
THEOREM ImplementsNavigation == Alone /\ Spec => Navigates
  BY AloneInTime, ImplementsNavigationInTime
=============================================================================
