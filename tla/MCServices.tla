------------------------------ MODULE MCServices ------------------------------
(***************************************************************************)
(* The services of the loader and the USB components side by side: any     *)
(* interleaving of their steps (ServicesTogether).  Their models share no  *)
(* variable, so that what holds of each by itself holds of all of them     *)
(* (ServicesProofs, which proves it of ServicesTogether).  TLC checks each *)
(* by itself: in ServicesSpec a behaviour is one of a single part, chosen  *)
(* at the start, and the state space is the sum of theirs.                 *)
(*                                                                         *)
(* TLS: two slots and two connects, the app's main task and a helper.      *)
(* Sockets: two slots, three descriptors.  Tasks: two entries, three       *)
(* addresses, two creators.  MIDI: a ring of four places, two writers.     *)
(* Keys: a queue of three places.  Settings: two apps and one game.        *)
(* Patterns: two letters, one of them in both cases.                       *)
(***************************************************************************)
EXTENDS
  AppTls, AppSockets, AppTasks, MidiRing, UsbMidi, UsbMsc, Keys, RemoteFile, Settings, Glob

CONSTANTS j1, j2, main, helper, loop, w1, w2, ta, tb, ga

TwoJobs    == {j1, j2}
Both       == {main, helper}
OnlyMain   == {main}
ThreeFds   == 0 .. 2
TwoWriters == {w1, w2}
TwoTitles  == {ta, tb}
OneGame    == {ga}
LowerCase  == [c \in {"a", "A", "b"} |-> IF c = "A" THEN "a" ELSE c]

VARIABLE part  \* the service TLC follows

togetherVars ==
  <<vars, socketsVars, tasksVars, ringVars, midiVars, mscVars, keysVars, fileVars,
    settingsVars, globVars>>

servicesVars == <<part, togetherVars>>

\* A step of one service is none of the others.
OnlyTls ==
  /\ Next
  /\ UNCHANGED <<socketsVars, tasksVars, ringVars, midiVars, mscVars,
                 keysVars, fileVars, settingsVars, globVars>>
OnlySockets ==
  /\ SocketsNext
  /\ UNCHANGED <<vars, tasksVars, ringVars, midiVars, mscVars, keysVars,
                 fileVars, settingsVars, globVars>>
OnlyTasks ==
  /\ TasksNext
  /\ UNCHANGED <<vars, socketsVars, ringVars, midiVars, mscVars, keysVars,
                 fileVars, settingsVars, globVars>>
OnlyRing ==
  /\ RingNext
  /\ UNCHANGED <<vars, socketsVars, tasksVars, midiVars, mscVars, keysVars,
                 fileVars, settingsVars, globVars>>
OnlyMidi ==
  /\ MidiNext
  /\ UNCHANGED <<vars, socketsVars, tasksVars, ringVars, mscVars, keysVars,
                 fileVars, settingsVars, globVars>>
OnlyMsc ==
  /\ MscNext
  /\ UNCHANGED <<vars, socketsVars, tasksVars, ringVars, midiVars, keysVars,
                 fileVars, settingsVars, globVars>>
OnlyKeys ==
  /\ KeysNext
  /\ UNCHANGED <<vars, socketsVars, tasksVars, ringVars, midiVars, mscVars,
                 fileVars, settingsVars, globVars>>
OnlyFile ==
  /\ FileNext
  /\ UNCHANGED <<vars, socketsVars, tasksVars, ringVars, midiVars, mscVars,
                 keysVars, settingsVars, globVars>>
OnlySettings ==
  /\ SettingsNext
  /\ UNCHANGED <<vars, socketsVars, tasksVars, ringVars, midiVars, mscVars,
                 keysVars, fileVars, globVars>>
OnlyGlob ==
  /\ GlobNext
  /\ UNCHANGED <<vars, socketsVars, tasksVars, ringVars, midiVars, mscVars,
                 keysVars, fileVars, settingsVars>>

TogetherInit ==
  /\ Init /\ SocketsInit /\ TasksInit /\ RingInit /\ MidiInit /\ MscInit /\ KeysInit
  /\ FileInit /\ SettingsInit /\ GlobInit

TogetherNext ==
  \/ OnlyTls \/ OnlySockets \/ OnlyTasks \/ OnlyRing \/ OnlyMidi \/ OnlyMsc \/ OnlyKeys
  \/ OnlyFile \/ OnlySettings \/ OnlyGlob

\* All of them at once, in any order of their steps.
ServicesTogether == TogetherInit /\ [][TogetherNext]_togetherVars

ServicesInit ==
  /\ part \in {"tls", "sockets", "tasks", "ring", "midi", "sticks", "keys", "file",
              "settings", "glob"}
  /\ TogetherInit
  /\ part # "sockets" => \A fd \in Descriptors : opener[fd] = "nobody"

ServicesNext ==
  \/ part = "tls" /\ OnlyTls /\ UNCHANGED part
  \/ part = "sockets" /\ OnlySockets /\ UNCHANGED part
  \/ part = "tasks" /\ OnlyTasks /\ UNCHANGED part
  \/ part = "ring" /\ OnlyRing /\ UNCHANGED part
  \/ part = "midi" /\ OnlyMidi /\ UNCHANGED part
  \/ part = "sticks" /\ OnlyMsc /\ UNCHANGED part
  \/ part = "keys" /\ OnlyKeys /\ UNCHANGED part
  \/ part = "file" /\ OnlyFile /\ UNCHANGED part
  \/ part = "settings" /\ OnlySettings /\ UNCHANGED part
  \/ part = "glob" /\ OnlyGlob /\ UNCHANGED part

ServicesSpec ==
  /\ ServicesInit /\ [][ServicesNext]_servicesVars
  /\ Fairness /\ MidiFairness
  /\ WF_mscVars(part = "sticks" /\ MscPass) /\ WF_mscVars(StickEvent)

\* What was pulled is let go and what was queued is sent: the USB devices do not
\* wait for one another for ever.
UsbGoesOn == MidiGoesOn /\ PulledIsUnmounted

\* The range of every variable of every service.
TypesOK ==
  /\ TypeOK /\ SocketsTypeOK /\ RingTypeOK /\ MidiTypeOK /\ MscTypeOK /\ KeysTypeOK
  /\ FileTypeOK /\ SettingsTypeOK /\ GlobTypeOK /\ TasksTypeOK
=============================================================================
