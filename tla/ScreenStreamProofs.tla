-------------------------- MODULE ScreenStreamProofs --------------------------
(***************************************************************************)
(* Proofs about ScreenStream for any number of requests and frames, any    *)
(* ring and packet, with requests at any point.                            *)
(***************************************************************************)
EXTENDS ScreenStream, TLAPS

\* The hand-over of the menu's picture.  The flag menu_shot_ready_ alone says who
\* owns the pointer: the loop while it is down, the stream task while it is up.
HandOver ==
  /\ loopAt \in {"snap", "tell"} => ~menu.ready
  /\ ~menu.ready /\ loopAt # "tell" => menu.shot.kind = "none"
  /\ at = "taken" => menu.ready /\ menu.shot.kind = "none"
  /\ copy.kind = "menu" => at \in {"taken", "send"}

\* A picture under way is no older than the newest request.
Freshness ==
  /\ serving <= reqs
  /\ loopAt = "tell" /\ menu.shot.kind = "menu" => menu.shot.taken = reqs
  /\ at = "wait" /\ menu.shot.kind = "menu" => menu.shot.taken >= serving
  /\ copy.kind = "menu" => copy.taken >= serving

\* The count of sound, whatever a reset did to a submit under way.
Count ==
  /\ sound.step = "idle" => available <= RingSize
  /\ sound.step = "trim" => available \in {sound.loaded, 0}
  /\ sound.step = "add"  => Wrap(available + sound.n) <= RingSize

IInv == TypeOK /\ PicturesOwned /\ HandOver /\ Freshness /\ Count

\* Frames: complete unless a flush is inside the mutex, and new in this session
\* once the flag is up.
Frames ==
  /\ flush = "idle" => frame.pixels = frame.seq
  /\ base <= frame.seq
  /\ at \notin {"idle", "reset"} /\ frame.ready => frame.seq > base
  /\ packet # NoFrame => /\ at = "push"
                         /\ packet.pixels = packet.seq /\ packet.seq > base
-----------------------------------------------------------------------------
USE StreamAssumption

LEMMA InitIInv == Init => IInv /\ Frames
<1> SUFFICES ASSUME Init PROVE IInv /\ Frames
  OBVIOUS
<1> USE DEF Init, NoShot, NoFrame, Silent
<1>1. TypeOK
  <2>1. menu \in [wanted : BOOLEAN, ready : BOOLEAN, shot : Shots] /\ copy \in Shots
    BY DEF Shots
  <2>2. /\ frame \in [pixels : Nat \cup {Torn}, seq : Nat, ready : BOOLEAN]
        /\ packet \in [pixels : Nat \cup {Torn}, seq : Nat]
    OBVIOUS
  <2>3. /\ sound \in [step : {"idle", "trim", "add"}, n : 0 .. RingSize,
                      loaded : 0 .. RingSize]
        /\ available \in 0 .. Width - 1
    OBVIOUS
  <2>4. /\ enabled \in BOOLEAN /\ connected \in BOOLEAN /\ keep \in BOOLEAN
        /\ shotReq \in BOOLEAN /\ fileReq \in BOOLEAN
    BY Zenon
  <2>. QED BY <2>1, <2>2, <2>3, <2>4 DEF TypeOK
<1>2. PicturesOwned /\ HandOver /\ Freshness
  BY DEF PicturesOwned, HandOver, Freshness, Owned
<1>3. Count /\ Frames
  BY DEF Count, Frames
<1>. QED BY <1>1, <1>2, <1>3 DEF IInv

LEMMA NextIInv == IInv /\ [Next]_vars => IInv'
<1> SUFFICES ASSUME IInv, [Next]_vars PROVE IInv'
  OBVIOUS
<1> USE DEF IInv, TypeOK, PicturesOwned, HandOver, Freshness, Count, Owned, Shots,
            requestVars, menuVars, videoVars, soundVars, taskVars
<1>1. CASE RequestScreenStream
  BY <1>1 DEF RequestScreenStream
<1>2. CASE RequestScreenshot
  BY <1>2 DEF RequestScreenshot
<1>3. CASE RequestFile
  BY <1>3 DEF RequestFile
<1>4. CASE RequestEnables
  BY <1>4 DEF RequestEnables
<1>5. CASE MenuShotBegins
  <2>1. menu' \in [wanted : BOOLEAN, ready : BOOLEAN, shot : Shots] /\ menu'.ready = menu.ready /\ menu'.shot = menu.shot
    BY <1>5, Zenon DEF MenuShotBegins
  <2>. QED BY <1>5, <2>1 DEF MenuShotBegins
<1>6. CASE MenuShotTaken
  BY <1>6 DEF MenuShotTaken, MenuAt, NoShot
<1>7. CASE MenuShotReady
  <2>1. menu' \in [wanted : BOOLEAN, ready : BOOLEAN, shot : Shots] /\ menu'.ready /\ menu'.shot = menu.shot
    BY <1>7, Zenon DEF MenuShotReady
  <2>. QED BY <1>7, <2>1 DEF MenuShotReady
<1>8. CASE AppChanges
  BY <1>8 DEF AppChanges
<1>9. CASE FlushLocks
  BY <1>9 DEF FlushLocks, Torn
<1>10. CASE FlushEnds
  BY <1>10 DEF FlushEnds
<1>11. CASE SubmitLocks
  BY <1>11 DEF SubmitLocks, MutexFree
<1>12. CASE SubmitTrims
  <2> DEFINE gone == Excess(sound.loaded, sound.n)
  <2>1. /\ sound.loaded \in 0 .. RingSize /\ sound.n \in 0 .. RingSize
        /\ available \in {sound.loaded, 0} /\ RingSize \in Nat
        /\ Width \in Nat /\ Width > 2 * RingSize
    BY <1>12 DEF SubmitTrims
  <2>2. /\ gone \in 0 .. sound.n /\ gone <= sound.loaded
        /\ sound.loaded + sound.n - gone <= RingSize
    BY <2>1 DEF Excess
  <2>3. available' \in {sound.loaded - gone, Wrap(available + Width - gone)}
    BY <1>12 DEF SubmitTrims
  <2>4. available' \in 0 .. Width - 1 /\ Wrap(available' + sound.n) <= RingSize
    BY <2>1, <2>2, <2>3 DEF Wrap
  <2>5. /\ sound' \in [step : {"idle", "trim", "add"}, n : 0 .. RingSize,
                      loaded : 0 .. RingSize]
        /\ sound'.step = "add" /\ sound'.n = sound.n
    <3>1. sound' = [sound EXCEPT !.step = "add", !.loaded = 0]
      BY <1>12 DEF SubmitTrims
    <3>2. sound \in [step : {"idle", "trim", "add"}, n : 0 .. RingSize,
                     loaded : 0 .. RingSize]
      OBVIOUS
    <3>3. 0 \in 0 .. RingSize
      OBVIOUS
    <3>. HIDE DEF IInv
    <3>. QED BY <3>1, <3>2, <3>3
  <2>6. /\ UNCHANGED <<taskVars, net, connected, requestVars, menuVars, videoVars>>
    BY <1>12 DEF SubmitTrims
  <2>. HIDE DEF gone, Wrap
  <2>. QED BY <2>4, <2>5, <2>6
<1>13. CASE SubmitEnds
  BY <1>13 DEF SubmitEnds, Silent, Wrap
<1>14. CASE Client
  BY <1>14 DEF Client, ClientConnects, ClientLeaves
<1>15. CASE Accept
  BY <1>15 DEF Accept
<1>16. CASE Reset
  <2>1. frame' \in [pixels : Nat \cup {Torn}, seq : Nat, ready : BOOLEAN]
    BY <1>16, Zenon DEF Reset
  <2>2. frame.seq \in Nat
    OBVIOUS
  <2>3. Wrap(0 + sound.n) <= RingSize /\ 0 \in 0 .. Width - 1
    BY DEF Wrap
  <2>. QED BY <1>16, <2>1, <2>2, <2>3 DEF Reset
<1>17. CASE Probe
  BY <1>17 DEF Probe
<1>18. CASE TakeShotRequest
  <2>1. shotReq' \in BOOLEAN /\ slipped' \in BOOLEAN
    BY <1>18, Zenon DEF TakeShotRequest
  <2>2. /\ at = "shot" /\ at' \in {"canvas", "file"} /\ serving' \in {serving, reqs}
        /\ UNCHANGED <<keep, copy, packet, base, net, connected, enabled, fileReq,
                       loopAt, reqs, menuVars, videoVars, soundVars>>
    BY <1>18, Zenon DEF TakeShotRequest
  <2>. QED BY <2>1, <2>2
<1>19. CASE CopyCanvas
  BY <1>19 DEF CopyCanvas, Canvas, NoShot
<1>20. CASE AskForMenu
  <2>1. CASE copy = NoShot /\ app = "none" /\ menu.ready
    <3>1. menu' = [wanted |-> TRUE, ready |-> FALSE, shot |-> NoShot]
      BY <1>20, <2>1, Zenon DEF AskForMenu
    <3>2. /\ menu' \in [wanted : BOOLEAN, ready : BOOLEAN, shot : Shots]
          /\ ~menu'.ready /\ menu'.shot.kind = "none"
      BY <3>1 DEF NoShot
    <3>3. pictures' = pictures - Freed
      BY <1>20, <2>1, Zenon DEF AskForMenu
    <3>4. pictures' = 0
      BY <2>1, <3>3 DEF NoShot, Freed
    <3>5. at' = "wait" /\ UNCHANGED <<keep, serving, copy, packet, base, net,
                connected, requestVars, app, videoVars, soundVars>>
      BY <1>20, <2>1, Zenon DEF AskForMenu
    <3>. QED BY <2>1, <3>2, <3>4, <3>5 DEF NoShot
  <2>2. CASE copy = NoShot /\ app = "none" /\ ~menu.ready
    <3>1. /\ menu' = [menu EXCEPT !.wanted = TRUE] /\ pictures' = pictures
          /\ at' = "wait"
      BY <1>20, <2>2, Zenon DEF AskForMenu
    <3>2. /\ menu' \in [wanted : BOOLEAN, ready : BOOLEAN, shot : Shots]
          /\ menu'.ready = menu.ready /\ menu'.shot = menu.shot
      BY <3>1, Zenon
    <3>3. UNCHANGED <<keep, serving, copy, packet, base, net, connected, requestVars,
                      app, videoVars, soundVars>>
      BY <1>20, Zenon DEF AskForMenu
    <3>. QED BY <2>2, <3>1, <3>2, <3>3 DEF NoShot
  <2>3. CASE ~(copy = NoShot /\ app = "none")
    BY <1>20, <2>3 DEF AskForMenu
  <2>. QED BY <2>1, <2>2, <2>3
<1>21. CASE TakeMenu
  BY <1>21 DEF TakeMenu, NoShot
<1>22. CASE MenuTaken
  <2>1. menu' \in [wanted : BOOLEAN, ready : BOOLEAN, shot : Shots] /\ ~menu'.ready /\ menu'.shot = menu.shot
    BY <1>22, Zenon DEF MenuTaken
  <2>. QED BY <1>22, <2>1 DEF MenuTaken
<1>23. CASE GiveUpOnMenu
  BY <1>23 DEF GiveUpOnMenu
<1>24. CASE SendScreenshot
  BY <1>24 DEF SendScreenshot, NoShot
<1>25. CASE ServeFile
  <2>1. fileReq' \in BOOLEAN /\ at' \in {"batch", "end"} /\ at = "file"
    BY <1>25, Zenon DEF ServeFile
  <2>. QED BY <1>25, <2>1 DEF ServeFile
<1>26. CASE TakeBatch
  <2>1. /\ packet' \in [pixels : Nat \cup {Torn}, seq : Nat]
        /\ frame' \in [pixels : Nat \cup {Torn}, seq : Nat, ready : BOOLEAN]
    <3>1. packet' \in [pixels : Nat \cup {Torn}, seq : Nat]
      BY <1>26 DEF TakeBatch, NoFrame
    <3>2. frame' \in [pixels : Nat \cup {Torn}, seq : Nat, ready : BOOLEAN]
      BY <1>26, Zenon DEF TakeBatch
    <3>. QED BY <3>1, <3>2
  <2>2. /\ available' \in 0 .. available /\ sound.step = "idle"
        /\ at = "batch" /\ at' = "push"
    BY <1>26 DEF TakeBatch, MutexFree, Least
  <2>. QED BY <1>26, <2>1, <2>2 DEF TakeBatch
<1>27. CASE BatchTimesOut
  BY <1>27 DEF BatchTimesOut
<1>28. CASE Push
  BY <1>28 DEF Push, NoFrame
<1>29. CASE EndSession
  <2>1. keep' \in BOOLEAN
    BY <1>29, Zenon DEF EndSession
  <2>2. /\ at = "end" /\ at' = "closing" /\ connected' = FALSE
        /\ UNCHANGED <<serving, copy, packet, base, net, requestVars, menuVars,
                       videoVars, soundVars>>
    BY <1>29, Zenon DEF EndSession
  <2>4. TypeOK'
    <3>1. /\ enabled' \in BOOLEAN /\ connected' \in BOOLEAN /\ keep' \in BOOLEAN
          /\ shotReq' \in BOOLEAN /\ fileReq' \in BOOLEAN /\ slipped' \in BOOLEAN
      BY <2>1, <2>2, Zenon
    <3>2. /\ at' = "closing"
          /\ UNCHANGED <<serving, copy, packet, base, net, loopAt, reqs, menuVars,
                         videoVars, soundVars>>
      BY <2>2, Zenon DEF requestVars
    <3>. QED BY <3>1, <3>2
  <2>5. PicturesOwned'
    BY <2>1, <2>2
  <2>6. HandOver'
    BY <2>1, <2>2
  <2>7. Freshness' /\ Count'
    BY <2>1, <2>2
  <2>. QED BY <2>4, <2>5, <2>6, <2>7
<1>30. CASE CloseSession
  <2>1. enabled' \in BOOLEAN
    BY <1>30, Zenon DEF CloseSession
  <2>2. /\ at = "closing" /\ at' = "idle" /\ keep' = FALSE /\ base' = 0
        /\ UNCHANGED <<serving, copy, packet, connected, shotReq, fileReq, loopAt,
                       reqs, slipped, menuVars, videoVars, soundVars>>
    BY <1>30, Zenon DEF CloseSession
  <2>3. net' \in [backlog : {"none", "open", "gone"}, peer : {"none", "open", "gone"}]
    BY <1>30 DEF CloseSession
  <2>4. TypeOK'
    <3>1. /\ enabled' \in BOOLEAN /\ connected' \in BOOLEAN /\ keep' \in BOOLEAN
          /\ shotReq' \in BOOLEAN /\ fileReq' \in BOOLEAN /\ slipped' \in BOOLEAN
      BY <2>1, <2>2, Zenon
    <3>2. /\ at' = "idle" /\ base' = 0
          /\ UNCHANGED <<serving, copy, packet, loopAt, reqs, menuVars, videoVars,
                         soundVars>>
      BY <2>2
    <3>. QED BY <3>1, <3>2, <2>3
  <2>5. PicturesOwned'
    BY <2>1, <2>2, <2>3
  <2>6. HandOver'
    BY <2>1, <2>2, <2>3
  <2>7. Freshness' /\ Count'
    BY <2>1, <2>2, <2>3
  <2>. QED BY <2>4, <2>5, <2>6, <2>7
<1>31. CASE UNCHANGED vars
  BY <1>31 DEF vars
<1> QED
  BY <1>1, <1>2, <1>3, <1>4, <1>5, <1>6, <1>7, <1>8, <1>9, <1>10, <1>11, <1>12,
     <1>13, <1>14, <1>15, <1>16, <1>17, <1>18, <1>19, <1>20, <1>21, <1>22, <1>23,
     <1>24, <1>25, <1>26, <1>27, <1>28, <1>29, <1>30, <1>31
     DEF Next, Loop, App, StreamTask

\* A step that leaves the frames alone, outside the send of a batch.
LEMMA FramesUntouched ==
  ASSUME Frames, UNCHANGED <<flush, frame, base, packet>>, at # "push",
         at' \notin {"idle", "reset"} => at \notin {"idle", "reset"}
  PROVE  Frames'
  BY DEF Frames

LEMMA NextFrames == IInv /\ Frames /\ [Next]_vars => Frames'
<1> SUFFICES ASSUME IInv, Frames, [Next]_vars PROVE Frames'
  OBVIOUS
<1> USE DEF requestVars, menuVars, videoVars, soundVars, taskVars
<1>0. /\ frame \in [pixels : Nat \cup {Torn}, seq : Nat, ready : BOOLEAN]
      /\ base \in Nat
  BY DEF IInv, TypeOK
<1>1. CASE \/ Loop \/ Client \/ SubmitLocks \/ SubmitTrims \/ SubmitEnds
           \/ UNCHANGED vars
  <2>1. UNCHANGED <<flush, frame, base, packet, at>>
    BY <1>1, Zenon DEF Loop, RequestScreenStream, RequestScreenshot, RequestFile,
       RequestEnables, MenuShotBegins, MenuShotTaken, MenuShotReady, AppChanges, Client,
       ClientConnects, ClientLeaves, SubmitLocks, SubmitTrims, SubmitEnds, vars
  <2>. QED BY <2>1 DEF Frames
<1>2. CASE FlushLocks
  <2>1. /\ flush' = "copying" /\ frame'.seq = frame.seq /\ frame'.ready = frame.ready
        /\ UNCHANGED <<base, packet, at>>
    BY <1>0, <1>2 DEF FlushLocks
  <2>. QED BY <2>1 DEF Frames
<1>3. CASE FlushEnds
  <2>1. /\ frame'.pixels = frame.seq + 1 /\ frame'.seq = frame.seq + 1
        /\ UNCHANGED <<base, packet, at>>
    BY <1>3 DEF FlushEnds
  <2>. QED BY <1>0, <2>1 DEF Frames
<1>4. CASE Reset
  <2>1. /\ frame'.pixels = frame.pixels /\ frame'.seq = frame.seq
        /\ frame'.ready = FALSE /\ base' = frame.seq
        /\ at = "reset" /\ UNCHANGED <<flush, packet>>
    BY <1>0, <1>4 DEF Reset
  <2>. QED BY <1>0, <2>1 DEF Frames
<1>5. CASE TakeBatch
  <2>1. /\ at = "batch" /\ at' = "push" /\ flush = "idle"
        /\ UNCHANGED <<flush, base>>
    BY <1>5 DEF TakeBatch, MutexFree, IInv, TypeOK
  <2>2. /\ frame'.pixels = frame.pixels /\ frame'.seq = frame.seq
        /\ frame'.ready = FALSE
    BY <1>0, <1>5 DEF TakeBatch
  <2>3. packet' # NoFrame => /\ frame.ready
                             /\ packet' = [pixels |-> frame.pixels, seq |-> frame.seq]
    BY <1>5, Zenon DEF TakeBatch
  <2>. QED BY <1>0, <2>1, <2>2, <2>3 DEF Frames
<1>6. CASE Push
  BY <1>6 DEF Push, Frames
<1>7. CASE CloseSession
  <2>1. at = "closing" /\ at' = "idle" /\ base' = 0 /\ UNCHANGED <<flush, frame, packet>>
    BY <1>7, Zenon DEF CloseSession
  <2>. QED BY <1>0, <2>1 DEF Frames
<1>8. CASE Accept \/ Probe \/ TakeShotRequest \/ CopyCanvas \/ AskForMenu
  <2>1. /\ UNCHANGED <<flush, frame, base, packet>>
        /\ at \in {"idle", "probe", "shot", "canvas", "menu"}
        /\ at = "idle" => at' = "reset"
    BY <1>8, Zenon DEF Accept, Probe, TakeShotRequest, CopyCanvas, AskForMenu
  <2>. QED BY <2>1, FramesUntouched
<1>9. CASE TakeMenu \/ MenuTaken \/ GiveUpOnMenu \/ SendScreenshot \/ ServeFile
           \/ BatchTimesOut \/ EndSession
  <2>1. /\ UNCHANGED <<flush, frame, base, packet>>
        /\ at \in {"wait", "taken", "send", "file", "batch", "end"}
    BY <1>9, Zenon DEF TakeMenu, MenuTaken, GiveUpOnMenu, SendScreenshot, ServeFile,
       BatchTimesOut, EndSession
  <2>. QED BY <2>1, FramesUntouched
<1>. QED
  BY <1>1, <1>2, <1>3, <1>4, <1>5, <1>6, <1>7, <1>8, <1>9, Zenon
     DEF Next, App, StreamTask
-----------------------------------------------------------------------------
LEMMA Invariance == Spec => [](IInv /\ Frames)
<1>1. Init => IInv /\ Frames
  BY InitIInv
<1>2. IInv /\ Frames /\ [Next]_vars => IInv' /\ Frames'
  BY NextIInv, NextFrames
<1>. QED BY <1>1, <1>2, PTL DEF Spec

\* Every variable keeps its range; a count of pictures below zero (one freed twice)
\* is excluded.
THEOREM TypeCorrect == Spec => []TypeOK
<1>1. IInv => TypeOK
  BY DEF IInv
<1>. QED BY <1>1, Invariance, PTL

\* The loop and the stream task neither leak a picture of the menu nor free one
\* twice.
THEOREM PicturesAreOwned == Spec => []PicturesOwned
<1>1. IInv => PicturesOwned
  BY DEF IInv
<1>. QED BY <1>1, Invariance, PTL

\* No request is answered with a picture from before it.
THEOREM ShotsAreFresh == Spec => []ShotIsFresh
<1>1. IInv => ShotIsFresh
  BY DEF IInv, Freshness, ShotIsFresh
<1>. QED BY <1>1, Invariance, PTL

\* Thumbnails are whole, numbered as they are, and from the client's own session.
THEOREM FramesAreWhole == Spec => []FrameWhole
<1>1. Frames => FrameWhole
  BY DEF Frames, FrameWhole
<1>. QED BY <1>1, Invariance, PTL

\* The reset without the mutex never takes the count of sound out of the ring.
THEOREM SoundStaysInRing == Spec => []SoundInRing
<1>1. IInv => SoundInRing
  BY DEF IInv, Count, SoundInRing, MutexFree
<1>. QED BY <1>1, Invariance, PTL
=============================================================================
