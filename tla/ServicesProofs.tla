---------------------------- MODULE ServicesProofs ----------------------------
(***************************************************************************)
(* Proofs about all services together: what was proved of each by itself   *)
(* holds of all of them running side by side.                              *)
(***************************************************************************)
EXTENDS MCServices, AppServicesProofs, UsbProofs, CardTextsProofs, TLAPS

\* A step of all of them is, for each of them, a step of its own or none.
LEMMA StepsApart ==
  [TogetherNext]_togetherVars =>
    /\ [Next]_vars /\ [SocketsNext]_socketsVars /\ [TasksNext]_tasksVars
    /\ [RingNext]_ringVars /\ [MidiNext]_midiVars /\ [MscNext]_mscVars /\ [KeysNext]_keysVars
    /\ [FileNext]_fileVars /\ [SettingsNext]_settingsVars /\ [GlobNext]_globVars
BY Zenon
   DEF TogetherNext, togetherVars, OnlyTls, OnlySockets, OnlyTasks, OnlyRing, OnlyMidi,
       OnlyMsc, OnlyKeys, OnlyFile, OnlySettings, OnlyGlob

\* Every service keeps to its own specification, whatever steps the others take in
\* between or at the same moment.
AllServices ==
  /\ Spec /\ SocketsSpec /\ TasksSpec
  /\ RingSpec /\ MidiSpec /\ MscSpec /\ KeysSpec
  /\ FileSpec /\ SettingsSpec /\ GlobSpec

\* The models of the services, their steps in any order, are each as they are alone:
\* none of them writes what another one keeps.
THEOREM ServicesCompose == ServicesTogether => AllServices
<1>1. TogetherInit =>
        /\ Init /\ SocketsInit /\ TasksInit /\ RingInit /\ MidiInit /\ MscInit /\ KeysInit
        /\ FileInit /\ SettingsInit /\ GlobInit
  BY DEF TogetherInit
<1>. QED
  BY <1>1, StepsApart, PTL
     DEF ServicesTogether, AllServices, Spec, SocketsSpec, TasksSpec, RingSpec, MidiSpec,
         MscSpec, KeysSpec, FileSpec, SettingsSpec, GlobSpec

\* What TLC follows of one service at a time is one way the steps may come.
LEMMA OneByOneIsTogether == ServicesSpec => ServicesTogether
<1>1. ServicesInit => TogetherInit
  BY DEF ServicesInit
<1>2. [ServicesNext]_servicesVars => [TogetherNext]_togetherVars
  BY Zenon DEF ServicesNext, servicesVars, TogetherNext
<1>. QED
  BY <1>1, <1>2, PTL DEF ServicesSpec, ServicesTogether

\* What all services keep stays in its range, in whatever order their steps come.
THEOREM TypesTogether == AllServices => []TypesOK
BY TypeCorrect, SocketsTypeCorrect, TasksTypeCorrect, UsbTypes, CardTypes, PTL
   DEF AllServices, TypesOK

\* The ranges of all variables while the steps of all services come in any order.
THEOREM ServicesTypeCorrect == ServicesTogether => []TypesOK
BY ServicesCompose, TypesTogether, PTL

\* What the services promise, of which each is about one of them.
ServicesSafe ==
  /\ OneOwner /\ TransferOnLive /\ HandleReachesItsSession
  /\ DeletedAsMade
  /\ StreamWhole /\ FreedIsBack /\ KeysOfThisRun
  /\ SettingsKept /\ EveryChoiceComes /\ SearchIsRight /\ LastContentKept

\* Their steps in any order, the services keep every promise they keep alone: TLS
\* connections and handles, large tasks, MIDI, keys, sticks, settings, file patterns and
\* remote files; and the sockets theirs, as long as their calls do not overlap.
THEOREM ServicesKeepPromises ==
  ServicesTogether =>
    /\ []ServicesSafe
    /\ EjectedStaysUnmounted
    /\ []OneCall => []NothingLeaks /\ []OnlyOwnClosed
<1>1. AllServices => []ServicesSafe
  BY ConnectionsHaveOneOwner, TransfersOnLive, HandlesReachTheirSession, TasksDeletedAsMade,
     MidiStreamIsWhole, FreedTransfersAreBack, KeysReachTheirApp, SettingsAreKept,
     EveryChoiceCanBeMade, GlobIsRight, LastContentIsKept, PTL
     DEF AllServices, ServicesSafe
<1>2. AllServices => EjectedStaysUnmounted
  BY EjectedIsLeftAlone DEF AllServices
<1>3. AllServices => ([]OneCall => []NothingLeaks /\ []OnlyOwnClosed)
  BY NothingLeaksOneByOne, ClosesOnlyItsOwnOneByOne, PTL DEF AllServices
<1>. QED BY ServicesCompose, <1>1, <1>2, <1>3, PTL
=============================================================================
