---------------------------- MODULE AppFilesProofs ----------------------------
(***************************************************************************)
(* Theorems about AppFiles, for every number of data files and every       *)
(* setting of what may go wrong.                                           *)
(*                                                                         *)
(* Who works on the card is what the proofs rest on: a load task means an  *)
(* app that loads, an uninstall means that nothing else is at work, and a  *)
(* task that stages or settles a .papp is not an upload.                   *)
(*                                                                         *)
(* Where two tasks at once break a promise, the theorem names the place    *)
(* where they must not meet (Meet, UploadMeets, RecordMeet) and lets them  *)
(* overlap everywhere else; without overlapping launches they never do.    *)
(***************************************************************************)
EXTENDS AppFiles, TLAPS

\* What is remembered of the past is told apart where a step changes some of it.
USE DEF past

(***************************************************************************)
(* Types                                                                   *)
(***************************************************************************)

\* A task at any step has all its fields.
LEMMA BusyTask ==
  ASSUME TypeOK, NEW t \in Tasks, tasks[t].step # "none"
  PROVE  tasks[t] \in Task
<1>1. tasks[t] \in {Idle} \cup Task
  BY DEF TypeOK
<1>. QED
  BY <1>1 DEF Idle

\* What a step of one task does to the tasks.
LEMMA GoesOK ==
  ASSUME TypeOK, NEW t \in Tasks, NEW r \in {Idle} \cup Task, Goes(t, r)
  PROVE  /\ tasks' \in [Tasks -> {Idle} \cup Task]
         /\ tasks'[t] = r
         /\ \A u \in Tasks : u # t => tasks'[u] = tasks[u]
  BY DEF TypeOK, Goes

\* A working task that only changes its step, or ends, still is one.
LEMMA ToOK ==
  ASSUME TypeOK, NEW t \in Tasks, tasks[t].step # "none", NEW s \in Steps, To(t, s)
  PROVE  /\ tasks' \in [Tasks -> {Idle} \cup Task]
         /\ tasks'[t] = [tasks[t] EXCEPT !.step = s]
         /\ tasks'[t] \in Task
         /\ \A u \in Tasks : u # t => tasks'[u] = tasks[u]
<1>1. tasks[t] \in Task
  BY BusyTask
<1>2. [tasks[t] EXCEPT !.step = s] \in Task
  BY <1>1 DEF Task
<1>. QED
  BY <1>2, GoesOK DEF To

LEMMA EndsOK ==
  ASSUME TypeOK, NEW t \in Tasks, tasks[t].step # "none", NEW b \in BOOLEAN, Ends(t, b)
  PROVE  /\ tasks' \in [Tasks -> {Idle} \cup Task]
         /\ tasks'[t] = [tasks[t] EXCEPT !.step = "done", !.ok = b]
         /\ tasks'[t] \in Task
         /\ \A u \in Tasks : u # t => tasks'[u] = tasks[u]
<1>1. tasks[t] \in Task
  BY BusyTask
<1>2. [tasks[t] EXCEPT !.step = "done", !.ok = b] \in Task
  BY <1>1 DEF Task, Steps
<1>. QED
  BY <1>2, GoesOK DEF Ends

LEMMA FailedOK ==
  ASSUME TypeOK, NEW t \in Tasks, tasks[t].step # "none", Failed(t)
  PROVE  /\ tasks' \in [Tasks -> {Idle} \cup Task]
         /\ tasks'[t] = [tasks[t] EXCEPT !.step = IF ForData(t) THEN "done" ELSE "settle",
                                         !.ok = FALSE]
         /\ tasks'[t] \in Task
         /\ \A u \in Tasks : u # t => tasks'[u] = tasks[u]
<1>1. tasks[t] \in Task
  BY BusyTask
<1>2. [tasks[t] EXCEPT !.step = "settle", !.ok = FALSE] \in Task
  BY <1>1 DEF Task, Steps
<1>3. CASE ForData(t)
  BY <1>3, EndsOK DEF Failed
<1>4. CASE ~ForData(t)
  BY <1>2, <1>4, GoesOK DEF Failed
<1>. QED
  BY <1>3, <1>4

\* On to the next file: a data file, or the end of the sync.
LEMMA NextFileOK ==
  ASSUME TypeOK, NEW t \in Tasks, tasks[t].step # "none", NextFile(t)
  PROVE  /\ tasks' \in [Tasks -> {Idle} \cup Task]
         /\ tasks'[t] \in Task
         /\ tasks'[t].kind = tasks[t].kind
         /\ \/ /\ tasks'[t].step = Synced(t)
               /\ tasks'[t].file = tasks[t].file
            \/ tasks'[t].step = "connect" /\ tasks'[t].file \in Data
         /\ \A u \in Tasks : u # t => tasks'[u] = tasks[u]
<1>1. tasks[t] \in Task
  BY BusyTask
<1>2. CASE tasks[t].missing = {}
  <2>1. Synced(t) \in Steps
    BY DEF Synced, Steps
  <2>2. To(t, Synced(t))
    BY <1>2 DEF NextFile
  <2>3. /\ tasks' \in [Tasks -> {Idle} \cup Task]
        /\ tasks'[t] = [tasks[t] EXCEPT !.step = Synced(t)]
        /\ tasks'[t] \in Task
        /\ \A u \in Tasks : u # t => tasks'[u] = tasks[u]
    BY <2>1, <2>2, ToOK
  <2>. QED
    BY <1>1, <2>3 DEF Task
<1>3. CASE tasks[t].missing # {}
  <2>1. PICK d \in tasks[t].missing :
          Goes(t, [tasks[t] EXCEPT !.step = "connect", !.file = d,
                                   !.missing = tasks[t].missing \ {d}, !.seen = {}])
    BY <1>3 DEF NextFile
  <2> DEFINE r == [tasks[t] EXCEPT !.step = "connect", !.file = d,
                                   !.missing = tasks[t].missing \ {d}, !.seen = {}]
  <2>2. d \in Data /\ d \in Files
    BY <1>1, FilesAssumption DEF Task, Data, Files
  <2>3. r \in Task /\ r.step = "connect" /\ r.file = d /\ r.kind = tasks[t].kind
    BY <1>1, <2>2 DEF Task, Steps
  <2> HIDE DEF r
  <2>4. /\ tasks' \in [Tasks -> {Idle} \cup Task]
        /\ tasks'[t] = r
        /\ \A u \in Tasks : u # t => tasks'[u] = tasks[u]
    BY <2>1, <2>3, GoesOK DEF r
  <2>. QED
    BY <2>2, <2>3, <2>4
<1>. QED
  BY <1>2, <1>3

(***************************************************************************)
(* Who works on the card                                                   *)
(***************************************************************************)

\* A load task means an app that loads; an uninstall means that nothing else is
\* at work, and what it will delete is in the manifest and has its size.
Alone ==
  /\ tasks["load"] # Idle => launched = "loading"
  /\ removing # NotRemoving =>
       /\ launched = "no" /\ tasks["install"] = Idle
       /\ \A d \in removing.rest :
            d \in manifest /\ files[d] \in {"twin", "fetched", "broken"}
  /\ ~powered => launched = "no" /\ removing = NotRemoving
                 /\ \A t \in Tasks : tasks[t] = Idle

\* What a task's file can be at its step.
Fits(t, task) ==
  /\ t = "load" <=> task.kind = "stream"
  /\ task.kind = "direct" => task.file = 0
  /\ task.kind = "upload" => task.file # 0
  /\ task.step \in {"stage", "settle"} /\ task.kind = "catalog" => task.file = 0
  /\ task.step \in {"list", "record", "truncate", "write"} => task.kind \in {"catalog", "stream"}
  /\ task.step \in {"record", "truncate", "write"} => task.file \in Data

TasksFit == \A t \in Tasks : tasks[t] = Idle \/ Fits(t, tasks[t])

IInv == TypeOK /\ Alone /\ TasksFit

\* While a task is at work the device is on and nothing is uninstalled.
LEMMA AtWork ==
  ASSUME IInv, NEW t \in Tasks, tasks[t].step # "none"
  PROVE  /\ powered /\ removing = NotRemoving
         /\ tasks[t] \in Task /\ tasks[t] # Idle /\ Fits(t, tasks[t])
<1>1. tasks[t] # Idle
  BY DEF Idle
<1>2. tasks[t] \in Task
  BY BusyTask DEF IInv
<1>3. Fits(t, tasks[t])
  BY <1>1 DEF IInv, TasksFit
<1>4. powered
  BY <1>1 DEF IInv, Alone, TypeOK
<1>5. removing = NotRemoving
  BY <1>1 DEF IInv, Alone, Tasks
<1>. QED
  BY <1>1, <1>2, <1>3, <1>4, <1>5

\* A step of one task that leaves the device alone and fits keeps both parts.
LEMMA TaskStep ==
  ASSUME IInv, NEW t \in Tasks, tasks[t].step # "none",
         tasks' \in [Tasks -> {Idle} \cup Task], tasks'[t] \in Task,
         \A u \in Tasks : u # t => tasks'[u] = tasks[u],
         Fits(t, tasks'[t]),
         UNCHANGED <<device, removing>>
  PROVE  Alone' /\ TasksFit'
<1>1. /\ powered /\ removing = NotRemoving /\ tasks[t] # Idle
  BY AtWork
<1>2. Alone'
  BY <1>1 DEF IInv, Alone, TypeOK, Tasks, device
<1>3. TasksFit'
  BY DEF IInv, TasksFit
<1>. QED
  BY <1>2, <1>3

(***************************************************************************)
(* The invariant                                                           *)
(***************************************************************************)

LEMMA InitOK == Init => IInv
<1>. SUFFICES ASSUME Init PROVE IInv
  OBVIOUS
<1>1. 0 \in Files
  BY FilesAssumption DEF Files
<1>2. /\ files \in [Files -> Contents]
      /\ backups \in [Files -> Contents]
      /\ parts \in [Files -> PartContents]
      /\ listing \in {"absent", "own", "fetched"}
  BY <1>1 DEF Init, Contents, Mine, PartContents
<1>3. tasks \in [Tasks -> {Idle} \cup Task] /\ \A t \in Tasks : tasks[t] = Idle
  BY DEF Init
<1>4. TypeOK
  BY <1>2, <1>3 DEF Init, TypeOK
<1>. QED
  BY <1>3, <1>4 DEF Init, IInv, Alone, TasksFit, Tasks

\* Requests and polls.
LEMMA RequestsOK == IInv /\ Requests => IInv'
<1>. SUFFICES ASSUME IInv, Requests PROVE IInv'
  OBVIOUS
<1>. USE FilesAssumption
<1>1. ASSUME NEW kind \in {"catalog", "direct", "upload"}, NEW f \in Files, StartInstall(kind, f)
      PROVE IInv'
  <2> DEFINE r == [step |-> "stage", kind |-> kind, file |-> f, ok |-> TRUE,
                   backedUp |-> FALSE, listed |-> FALSE, missing |-> {}, seen |-> {}]
  <2>1. r \in Task /\ Fits("install", r)
    BY <1>1 DEF Task, Fits, StartInstall, Steps, Kinds
  <2>2. Goes("install", r) /\ UNCHANGED <<device, card, removing, past>>
    BY <1>1 DEF StartInstall, NewTask
  <2> HIDE DEF r
  <2>3. /\ tasks' \in [Tasks -> {Idle} \cup Task] /\ tasks'["install"] = r
        /\ tasks'["load"] = tasks["load"]
    BY <2>1, <2>2, GoesOK DEF IInv, Tasks
  <2>4. TypeOK'
    BY <2>2, <2>3 DEF IInv, TypeOK, device, card
  <2>5. Alone'
    BY <1>1, <2>2, <2>3 DEF IInv, Alone, StartInstall, LoopIsFree, NotRemoving, TypeOK, device, card
  <2>6. TasksFit'
    BY <2>1, <2>3 DEF IInv, TasksFit, Tasks
  <2>. QED
    BY <2>4, <2>5, <2>6 DEF IInv
<1>2. CASE Launch
  <2> DEFINE r == [step |-> "list", kind |-> "stream", file |-> 0, ok |-> TRUE,
                   backedUp |-> FALSE, listed |-> FALSE, missing |-> {}, seen |-> {}]
  <2>1. r \in Task /\ Fits("load", r)
    BY DEF Task, Fits, Steps, Kinds, Files
  <2>2. Goes("load", r) /\ UNCHANGED <<powered, card, removing, past>>
    BY <1>2 DEF Launch, NewTask
  <2> HIDE DEF r
  <2>3. /\ tasks' \in [Tasks -> {Idle} \cup Task] /\ tasks'["load"] = r
        /\ tasks'["install"] = tasks["install"]
    BY <2>1, <2>2, GoesOK DEF IInv, Tasks
  <2>4. TypeOK'
    BY <1>2, <2>2, <2>3 DEF IInv, TypeOK, Launch, card
  <2>5. Alone'
    BY <1>2, <2>2, <2>3 DEF IInv, Alone, Launch, LoopIsFree, NotRemoving, TypeOK, card
  <2>6. TasksFit'
    BY <2>1, <2>3 DEF IInv, TasksFit, Tasks
  <2>. QED
    BY <2>4, <2>5, <2>6 DEF IInv
<1>3. CASE PollLoad
  <2>1. /\ tasks' \in [Tasks -> {Idle} \cup Task] /\ tasks'["load"] = Idle
        /\ tasks'["install"] = tasks["install"]
    BY <1>3, GoesOK DEF PollLoad, IInv, Tasks
  <2>2. TypeOK'
    BY <1>3, <2>1 DEF IInv, TypeOK, PollLoad, card
  <2>3. Alone'
    BY <1>3, <2>1 DEF IInv, Alone, PollLoad, LoopIsFree, NotRemoving, TypeOK, card
  <2>4. TasksFit'
    BY <2>1 DEF IInv, TasksFit, Tasks
  <2>. QED
    BY <2>2, <2>3, <2>4 DEF IInv
<1>4. CASE PollInstall
  <2>1. /\ tasks' \in [Tasks -> {Idle} \cup Task] /\ tasks'["install"] = Idle
        /\ tasks'["load"] = tasks["load"]
    BY <1>4, GoesOK DEF PollInstall, IInv, Tasks
  <2>2. TypeOK'
    BY <1>4, <2>1 DEF IInv, TypeOK, PollInstall, card, device
  <2>3. Alone'
    BY <1>4, <2>1 DEF IInv, Alone, PollInstall, LoopIsFree, NotRemoving, TypeOK, card, device
  <2>4. TasksFit'
    BY <2>1 DEF IInv, TasksFit, Tasks
  <2>. QED
    BY <2>2, <2>3, <2>4 DEF IInv
<1>5. CASE RequestClose
  BY <1>5 DEF IInv, TypeOK, Alone, TasksFit, RequestClose, LoopIsFree, NotRemoving, card
<1>6. CASE AppEnds
  BY <1>6 DEF IInv, TypeOK, Alone, TasksFit, AppEnds, LoopIsFree, NotRemoving, card
<1>7. ASSUME NEW d \in Data, OwnCopy(d) PROVE IInv'
  <2>1. removing = NotRemoving
    BY <1>7 DEF OwnCopy, IInv, Alone, TypeOK
  <2>2. PICK c \in Mine : files' = [files EXCEPT ![d] = c]
    BY <1>7 DEF OwnCopy
  <2>3. TypeOK'
    BY <1>7, <2>2 DEF OwnCopy, IInv, TypeOK, Contents, Mine, device
  <2>. QED
    BY <1>7, <2>1, <2>3 DEF OwnCopy, IInv, Alone, TasksFit, device
<1>8. CASE LaunchCopy
  <2>1. tasks["load"] = Idle /\ removing = NotRemoving /\ powered
    BY <1>8 DEF LaunchCopy, LoopIsFree, NotRemoving, IInv, TypeOK, Alone
  <2>. QED
    BY <1>8, <2>1 DEF IInv, TypeOK, Alone, TasksFit, LaunchCopy, card
<1>9. CASE LaunchFails
  BY <1>9 DEF IInv, TypeOK, Alone, TasksFit, LaunchFails, LoopIsFree, NotRemoving, card
<1>. QED
  BY <1>1, <1>2, <1>3, <1>4, <1>5, <1>6, <1>7, <1>8, <1>9 DEF Requests

\* uninstall_app.
LEMMA RemovalOK == IInv /\ Removal => IInv'
<1>. SUFFICES ASSUME IInv, Removal PROVE IInv'
  OBVIOUS
<1>. USE FilesAssumption
<1>1. CASE Uninstall \/ \E records \in {{}, manifest} : UninstallWithData(records)
  <2>2. PICK b \in BOOLEAN, rest \in SUBSET Data :
          /\ \A d \in rest : d \in manifest /\ files[d] \in {"twin", "fetched", "broken"}
          /\ Removes(b, rest)
    BY <1>1 DEF Uninstall, UninstallWithData, DownloadedFiles, IInv, TypeOK
  <2>3. removing' = [step |-> "papp", deleteData |-> b, rest |-> rest]
    BY <2>2 DEF Removes
  <2>4. mishaps' \subseteq {"cut", "full", "unread", "stuck", "kept"}
    BY <1>1 DEF Uninstall, UninstallWithData, Reading, IInv, TypeOK
  <2>5. powered /\ launched = "no" /\ tasks["install"] = Idle
    BY <2>2 DEF Removes, LoopIsFree
  <2>6. UNCHANGED <<device, card, tasks, had>>
    BY <2>2 DEF Removes
  <2>7. TypeOK'
    BY <2>2, <2>3, <2>4, <2>6 DEF IInv, TypeOK, device, card
  <2>8. Alone'
    BY <2>2, <2>3, <2>5, <2>6 DEF IInv, Alone, device, card
  <2>. QED
    BY <2>6, <2>7, <2>8 DEF IInv, TasksFit
<1>2. CASE RemovePapp
  <2>1. removing # NotRemoving /\ removing.rest \subseteq Data
    BY <1>2 DEF RemovePapp, Removing, NotRemoving, IInv, TypeOK
  <2>2. TypeOK'
    BY <1>2, <2>1 DEF RemovePapp, Removing, NotRemoving, IInv, TypeOK, Contents, device
  <2>3. Alone'
    BY <1>2, <2>1 DEF RemovePapp, Removing, NotRemoving, IInv, TypeOK, Alone, device, Data, Files
  <2>. QED
    BY <1>2, <2>2, <2>3 DEF RemovePapp, IInv, TasksFit
<1>3. CASE RemoveListing
  BY <1>3 DEF IInv, TypeOK, Alone, TasksFit, RemoveListing, Removing, NotRemoving, device
<1>4. CASE RemoveManifest
  BY <1>4 DEF IInv, TypeOK, Alone, TasksFit, RemoveManifest, Removing, NotRemoving, device
<1>5. ASSUME NEW d \in Data, RemoveData(d) PROVE IInv'
  <2>1. removing # NotRemoving /\ removing.rest \subseteq Data
    BY <1>5 DEF RemoveData, Removing, NotRemoving, IInv, TypeOK
  <2>2. TypeOK'
    BY <1>5, <2>1 DEF RemoveData, Removing, NotRemoving, IInv, TypeOK, Contents, device
  <2>3. Alone'
    BY <1>5, <2>1 DEF RemoveData, Removing, NotRemoving, IInv, TypeOK, Alone, device, Data, Files
  <2>. QED
    BY <1>5, <2>2, <2>3 DEF RemoveData, IInv, TasksFit
<1>6. CASE RemovePappFails
  BY <1>6 DEF IInv, TypeOK, Alone, TasksFit, RemovePappFails, Removing, NotRemoving,
              device, card
<1>7. ASSUME NEW d \in Data, RemoveDataFails(d) PROVE IInv'
  <2>1. removing # NotRemoving /\ removing.rest \subseteq Data
    BY <1>7 DEF RemoveDataFails, Removing, NotRemoving, IInv, TypeOK
  <2>2. TypeOK'
    BY <1>7, <2>1 DEF RemoveDataFails, Removing, NotRemoving, IInv, TypeOK, device, card
  <2>3. Alone'
    BY <1>7, <2>1 DEF RemoveDataFails, Removing, NotRemoving, IInv, TypeOK, Alone, device, card
  <2>. QED
    BY <1>7, <2>2, <2>3 DEF RemoveDataFails, IInv, TasksFit
<1>. QED
  BY <1>1, <1>2, <1>3, <1>4, <1>5, <1>6, <1>7 DEF Removal

\* The install task around its download.
LEMMA InstallsOK == IInv /\ Installs => IInv'
<1>. SUFFICES ASSUME IInv, Installs PROVE IInv'
  OBVIOUS
<1>. DEFINE i == tasks["install"]
<1>. "install" \in Tasks
  BY DEF Tasks
<1>1. CASE Stage
  <2>1. i.step = "stage" /\ i \in Task /\ Fits("install", i) /\ i.file \in Files
    BY <1>1, AtWork DEF Stage, Working, Is, Task
  <2>2. PICK b \in BOOLEAN : Goes("install", [i EXCEPT !.step = "connect", !.backedUp = b])
    BY <1>1 DEF Stage
  <2> DEFINE r == [i EXCEPT !.step = "connect", !.backedUp = b]
  <2>3. /\ r \in Task /\ r.step = "connect" /\ r.kind = i.kind /\ r.file = i.file
        /\ Goes("install", r)
    BY <2>1, <2>2 DEF Task, Steps
  <2> HIDE DEF r
  <2>4. /\ tasks' \in [Tasks -> {Idle} \cup Task] /\ tasks'["install"] = r
        /\ \A u \in Tasks : u # "install" => tasks'[u] = tasks[u]
    BY <2>3, GoesOK DEF IInv
  <2>5. TypeOK'
    BY <1>1, <2>1, <2>4 DEF Stage, IInv, TypeOK, Contents, device
  <2>6. Fits("install", r)
    BY <2>1, <2>3 DEF Fits
  <2>7. UNCHANGED <<device, removing>>
    BY <1>1 DEF Stage
  <2>. QED
    BY <2>1, <2>3, <2>4, <2>5, <2>6, <2>7, TaskStep DEF IInv
<1>2. CASE StageFails
  <2>1. i.step = "stage" /\ i \in Task /\ Fits("install", i) /\ i.file \in Files
    BY <1>2, AtWork DEF StageFails, Working, Is, Task
  <2>2. /\ tasks' \in [Tasks -> {Idle} \cup Task] /\ tasks'["install"] \in Task
        /\ tasks'["install"] = [i EXCEPT !.step = "done", !.ok = FALSE]
        /\ \A u \in Tasks : u # "install" => tasks'[u] = tasks[u]
    BY <1>2, <2>1, EndsOK DEF StageFails, IInv
  <2>3. TypeOK'
    BY <1>2, <2>1, <2>2 DEF StageFails, IInv, TypeOK, Contents, device
  <2>4. Fits("install", tasks'["install"])
    BY <2>1, <2>2 DEF Fits, Task
  <2>5. UNCHANGED <<device, removing>>
    BY <1>2 DEF StageFails
  <2>. QED
    BY <2>1, <2>2, <2>3, <2>4, <2>5, TaskStep DEF IInv
<1>3. CASE Settle
  <2>1. i.step = "settle" /\ i \in Task /\ Fits("install", i) /\ i.file \in Files
    BY <1>3, AtWork DEF Settle, Working, Is, Task
  <2>2. /\ tasks' \in [Tasks -> {Idle} \cup Task] /\ tasks'["install"] \in Task
        /\ Fits("install", tasks'["install"])
        /\ \A u \in Tasks : u # "install" => tasks'[u] = tasks[u]
    <3>1. CASE ~i.ok \/ i.kind = "upload"
      <4>1. Ends("install", i.ok) /\ i.ok \in BOOLEAN
        BY <1>3, <2>1, <3>1 DEF Settle, Task
      <4>2. /\ tasks' \in [Tasks -> {Idle} \cup Task] /\ tasks'["install"] \in Task
            /\ tasks'["install"] = [i EXCEPT !.step = "done", !.ok = i.ok]
            /\ \A u \in Tasks : u # "install" => tasks'[u] = tasks[u]
        BY <2>1, <4>1, EndsOK DEF IInv
      <4>. QED
        BY <2>1, <4>2 DEF Fits, Task
    <3>2. CASE ~(~i.ok \/ i.kind = "upload")
      <4>1. PICK s \in Steps : /\ To("install", s) /\ s \in {"list", "mark"}
                             /\ (s = "list" => i.kind = "catalog")
        BY <1>3, <3>2 DEF Settle, Steps
      <4>2. /\ tasks' \in [Tasks -> {Idle} \cup Task] /\ tasks'["install"] \in Task
            /\ tasks'["install"] = [i EXCEPT !.step = s]
            /\ \A u \in Tasks : u # "install" => tasks'[u] = tasks[u]
        BY <2>1, <4>1, ToOK DEF IInv
      <4>. QED
        BY <2>1, <4>1, <4>2 DEF Fits, Task
    <3>. QED
      BY <3>1, <3>2
  <2>3. TypeOK'
    BY <1>3, <2>1, <2>2 DEF Settle, IInv, TypeOK, Contents, device
  <2>4. UNCHANGED <<device, removing>>
    BY <1>3 DEF Settle
  <2>. QED
    BY <2>1, <2>2, <2>3, <2>4, TaskStep DEF IInv
<1>4. CASE Mark
  <2>1. i.step = "mark" /\ i \in Task /\ Fits("install", i)
    BY <1>4, AtWork DEF Mark, Working, Is
  <2>2. /\ tasks' \in [Tasks -> {Idle} \cup Task] /\ tasks'["install"] \in Task
        /\ tasks'["install"] = [i EXCEPT !.step = "marking"]
        /\ \A u \in Tasks : u # "install" => tasks'[u] = tasks[u]
    <3>1. "marking" \in Steps /\ To("install", "marking")
      BY <1>4 DEF Mark, Steps
    <3>. QED
      BY <2>1, <3>1, ToOK DEF IInv
  <2>3. TypeOK'
    BY <1>4, <2>2 DEF Mark, IInv, TypeOK, device
  <2>4. Fits("install", tasks'["install"])
    BY <2>1, <2>2 DEF Fits, Task
  <2>5. UNCHANGED <<device, removing>>
    BY <1>4 DEF Mark
  <2>. QED
    BY <2>1, <2>2, <2>3, <2>4, <2>5, TaskStep DEF IInv
<1>5. CASE MarkFails \/ MarkWrites
  <2>1. i.step \in {"mark", "marking"} /\ i \in Task /\ Fits("install", i)
    BY <1>5, AtWork DEF MarkFails, MarkWrites, Working, Is
  <2>2. /\ tasks' \in [Tasks -> {Idle} \cup Task] /\ tasks'["install"] \in Task
        /\ tasks'["install"] = [i EXCEPT !.step = "done", !.ok = TRUE]
        /\ \A u \in Tasks : u # "install" => tasks'[u] = tasks[u]
    BY <1>5, <2>1, EndsOK DEF MarkFails, MarkWrites, IInv
  <2>3. TypeOK'
    BY <1>5, <2>2 DEF MarkFails, MarkWrites, IInv, TypeOK, device, card
  <2>4. Fits("install", tasks'["install"])
    BY <2>1, <2>2 DEF Fits, Task
  <2>5. UNCHANGED <<device, removing>>
    BY <1>5 DEF MarkFails, MarkWrites
  <2>. QED
    BY <2>1, <2>2, <2>3, <2>4, <2>5, TaskStep DEF IInv
<1>6. CASE SettleFails
  <2>1. i.step = "settle" /\ i \in Task /\ Fits("install", i) /\ i.file \in Files
    BY <1>6, AtWork DEF SettleFails, Working, Is, Task
  <2>2. /\ tasks' \in [Tasks -> {Idle} \cup Task] /\ tasks'["install"] \in Task
        /\ tasks'["install"] = [i EXCEPT !.step = "done", !.ok = FALSE]
        /\ \A u \in Tasks : u # "install" => tasks'[u] = tasks[u]
    BY <1>6, <2>1, EndsOK DEF SettleFails, IInv
  <2>3. files' \in [Files -> Contents]
    BY <1>6, <2>1 DEF SettleFails, IInv, TypeOK, Contents
  <2>4. TypeOK'
    BY <1>6, <2>2, <2>3 DEF SettleFails, IInv, TypeOK, device
  <2>5. Fits("install", tasks'["install"])
    BY <2>1, <2>2 DEF Fits, Task
  <2>6. UNCHANGED <<device, removing>>
    BY <1>6 DEF SettleFails
  <2>. QED
    BY <2>1, <2>2, <2>4, <2>5, <2>6, TaskStep DEF IInv
<1>. QED
  BY <1>1, <1>2, <1>3, <1>4, <1>5, <1>6 DEF Installs

\* A download, by either task.
LEMMA DownloadOK == ASSUME IInv, NEW t \in Tasks, Download(t) PROVE IInv'
<1>. DEFINE k == tasks[t]
<1>1. /\ k.step # "none" /\ k \in Task /\ Fits(t, k) /\ k.file \in Files
      /\ k.step \in {"connect", "receive", "publish", "drop"}
  <2>1. k.step \in {"connect", "receive", "publish", "drop"}
    BY DEF Download, Connect, ConnectFails, Receive, ReceiveFails, ReceiveCancelled,
           Publish, PublishFails, Drop, Working, Is
  <2>. QED
    BY <2>1, AtWork DEF Task
<1>2. TypeOK
  BY DEF IInv
<1>3. /\ files' \in [Files -> Contents] /\ parts' \in [Files -> PartContents]
      /\ UNCHANGED <<device, backups, listing, manifest, removing, past>>
  <2>1. parts[k.file] \in PartContents
    BY <1>1, <1>2 DEF TypeOK
  <2>2. CASE Connect(t)
    BY <1>1, <1>2, <2>2 DEF Connect, TypeOK, PartContents
  <2>3. CASE Receive(t)
    BY <1>1, <1>2, <2>1, <2>3 DEF Receive, TypeOK, PartContents
  <2>4. CASE Publish(t)
    <3>1. PICK c \in Contents : files' = [files EXCEPT ![k.file] = c]
      BY <2>4 DEF Publish, Mine, Contents
    <3>. QED
      BY <1>1, <1>2, <2>4, <3>1 DEF Publish, TypeOK, PartContents
  <2>5. CASE Drop(t)
    BY <1>1, <1>2, <2>5 DEF Drop, TypeOK, PartContents
  <2>6. CASE ConnectFails(t) \/ ReceiveFails(t) \/ ReceiveCancelled(t) \/ PublishFails(t)
    BY <1>2, <2>6 DEF ConnectFails, ReceiveFails, ReceiveCancelled, PublishFails, TypeOK, card
  <2>. QED
    BY <2>2, <2>3, <2>4, <2>5, <2>6 DEF Download
<1>4. /\ tasks' \in [Tasks -> {Idle} \cup Task] /\ tasks'[t] \in Task
      /\ \A u \in Tasks : u # t => tasks'[u] = tasks[u]
      /\ Fits(t, tasks'[t])
  <2>1. CASE ConnectFails(t) \/ Drop(t)
    <3>1. Failed(t)
      BY <2>1 DEF ConnectFails, Drop
    <3>2. /\ tasks' \in [Tasks -> {Idle} \cup Task] /\ tasks'[t] \in Task
          /\ tasks'[t] = [k EXCEPT !.step = IF ForData(t) THEN "done" ELSE "settle",
                                   !.ok = FALSE]
          /\ \A u \in Tasks : u # t => tasks'[u] = tasks[u]
      BY <1>1, <1>2, <3>1, FailedOK
    <3>3. CASE ForData(t)
      BY <1>1, <3>2, <3>3 DEF Fits, Task
    <3>4. CASE ~ForData(t)
      BY <1>1, <3>2, <3>4 DEF Fits, Task, ForData
    <3>. QED
      BY <3>2, <3>3, <3>4
  <2>2. CASE ~(ConnectFails(t) \/ Drop(t))
    <3>1. PICK s \in {"drop", "receive", "publish", "record", "settle"} :
            /\ To(t, s)
            /\ s = "record" => ForData(t)
            /\ s = "settle" => ~ForData(t)
      BY <2>2 DEF Download, Connect, Receive, ReceiveFails, ReceiveCancelled,
                  Publish, PublishFails
    <3>2. s \in Steps
      BY DEF Steps
    <3>3. /\ tasks' \in [Tasks -> {Idle} \cup Task] /\ tasks'[t] \in Task
          /\ tasks'[t] = [k EXCEPT !.step = s]
          /\ \A u \in Tasks : u # t => tasks'[u] = tasks[u]
      BY <1>1, <1>2, <3>1, <3>2, ToOK
    <3>4. ForData(t) => k.file \in Data
      BY <1>1, FilesAssumption DEF ForData, Files, Data
    <3>5. tasks'[t].step = s /\ tasks'[t].kind = k.kind /\ tasks'[t].file = k.file
      BY <1>1, <3>3 DEF Task
    <3>6. s = "record" => k.kind \in {"catalog", "stream"}
      BY <3>1 DEF ForData
    <3>7. s = "settle" => k.kind \notin {"catalog", "stream"} \/ k.file = 0
      BY <3>1 DEF ForData
    <3>8. Fits(t, tasks'[t])
      BY <1>1, <3>1, <3>4, <3>5, <3>6, <3>7 DEF Fits
    <3>. QED
      BY <3>3, <3>8
  <2>. QED
    BY <2>1, <2>2
<1>5. TypeOK'
  BY <1>2, <1>3, <1>4 DEF TypeOK, device
<1>6. UNCHANGED <<device, removing>>
  BY <1>3
<1>. QED
  BY <1>1, <1>4, <1>5, <1>6, TaskStep DEF IInv

\* The sync of the data, by either task.
LEMMA SyncOK == ASSUME IInv, NEW t \in Tasks, Sync(t) PROVE IInv'
<1>. DEFINE k == tasks[t]
<1>1. /\ k.step # "none" /\ k \in Task /\ Fits(t, k) /\ k.file \in Files
      /\ k.kind \in {"catalog", "stream"}
  <2>1. k.step \in {"list", "record", "truncate", "write"}
    BY DEF Sync, ReadList, NoList, ListFails, ReadManifest, TruncateManifest,
           WriteManifest, WriteFails, Working, Is
  <2>2. k.step # "none" /\ k \in Task /\ Fits(t, k)
    BY <2>1, AtWork
  <2>. QED
    BY <2>1, <2>2 DEF Fits, Task
<1>2. TypeOK
  BY DEF IInv
<1>3. Synced(t) \in Steps /\ Synced(t) \in {"mark", "image"}
  BY DEF Synced, Steps
<1>4. /\ manifest' \subseteq Data
      /\ mishaps' \subseteq {"cut", "full", "unread", "stuck", "kept"}
      /\ UNCHANGED <<device, files, backups, parts, listing, removing, had>>
  <2>1. CASE WriteManifest(t)
    <3>1. k.file \in Data /\ k.seen \subseteq Data
      BY <1>1, <2>1 DEF WriteManifest, Working, Is, Fits, Task
    <3>. QED
      BY <1>2, <2>1, <3>1 DEF WriteManifest, TypeOK
  <2>2. CASE ~WriteManifest(t)
    BY <1>2, <2>2 DEF Sync, ReadList, NoList, ListFails, ReadManifest, Reading,
                      TruncateManifest, WriteFails, TypeOK, card
  <2>. QED
    BY <2>1, <2>2
<1>5. /\ tasks' \in [Tasks -> {Idle} \cup Task] /\ tasks'[t] \in Task
      /\ \A u \in Tasks : u # t => tasks'[u] = tasks[u]
      /\ Fits(t, tasks'[t])
  <2>1. CASE ReadList(t)
    <3> DEFINE missing == {d \in Data : files[d] = "absent"}
    <3>1. CASE missing = {}
      <4> DEFINE r == [k EXCEPT !.step = Synced(t), !.listed = TRUE]
      <4>1. r \in Task /\ r.step = Synced(t) /\ r.kind = k.kind /\ r.file = k.file
        BY <1>1, <1>3 DEF Task
      <4>2. Goes(t, r)
        BY <2>1, <3>1 DEF ReadList
      <4> HIDE DEF r
      <4>3. /\ tasks' \in [Tasks -> {Idle} \cup Task] /\ tasks'[t] = r
            /\ \A u \in Tasks : u # t => tasks'[u] = tasks[u]
        BY <1>2, <4>1, <4>2, GoesOK
      <4>. QED
        BY <1>1, <1>3, <4>1, <4>3 DEF Fits
    <3>2. CASE missing # {}
      <4>1. PICK d \in Data :
              Goes(t, [k EXCEPT !.step = "connect", !.file = d, !.listed = TRUE,
                                !.missing = missing \ {d}])
        BY <2>1, <3>2 DEF ReadList
      <4> DEFINE r == [k EXCEPT !.step = "connect", !.file = d, !.listed = TRUE,
                                !.missing = missing \ {d}]
      <4>2. d \in Files /\ d # 0
        BY FilesAssumption DEF Data, Files
      <4>3. r \in Task /\ r.step = "connect" /\ r.kind = k.kind /\ r.file = d
        BY <1>1, <4>2 DEF Task, Steps
      <4> HIDE DEF r
      <4>4. /\ tasks' \in [Tasks -> {Idle} \cup Task] /\ tasks'[t] = r
            /\ \A u \in Tasks : u # t => tasks'[u] = tasks[u]
        BY <1>2, <4>1, <4>3, GoesOK DEF r
      <4>. QED
        BY <1>1, <4>2, <4>3, <4>4 DEF Fits
    <3>. QED
      BY <3>1, <3>2
  <2>2. CASE ListFails(t)
    <3>1. /\ tasks' \in [Tasks -> {Idle} \cup Task] /\ tasks'[t] \in Task
          /\ tasks'[t] = [k EXCEPT !.step = "done", !.ok = FALSE]
          /\ \A u \in Tasks : u # t => tasks'[u] = tasks[u]
      BY <1>1, <1>2, <2>2, EndsOK DEF ListFails
    <3>. QED
      BY <1>1, <3>1 DEF Fits, Task
  <2>3. CASE ReadManifest(t)
    <3>1. PICK records \in {{}, manifest} :
            Working(t, "record") /\ Goes(t, [k EXCEPT !.step = "truncate", !.seen = records])
      BY <2>3 DEF ReadManifest
    <3> DEFINE r == [k EXCEPT !.step = "truncate", !.seen = records]
    <3>4. records \subseteq Data
      BY <1>2 DEF TypeOK
    <3>. r \in Task /\ r.step = "truncate" /\ r.kind = k.kind /\ r.file = k.file
      BY <1>1, <3>4 DEF Task, Steps
    <3>2. Goes(t, r) /\ k.step = "record"
      BY <3>1 DEF Working, Is
    <3> HIDE DEF r
    <3>3. /\ tasks' \in [Tasks -> {Idle} \cup Task] /\ tasks'[t] = r
          /\ \A u \in Tasks : u # t => tasks'[u] = tasks[u]
      BY <1>2, <3>2, GoesOK
    <3>. QED
      BY <1>1, <3>2, <3>3 DEF Fits
  <2>4. CASE TruncateManifest(t)
    <3>1. "write" \in Steps /\ To(t, "write") /\ k.step = "truncate"
      BY <2>4 DEF TruncateManifest, Steps, Working, Is
    <3>2. /\ tasks' \in [Tasks -> {Idle} \cup Task] /\ tasks'[t] \in Task
          /\ tasks'[t] = [k EXCEPT !.step = "write"]
          /\ \A u \in Tasks : u # t => tasks'[u] = tasks[u]
      BY <1>1, <1>2, <3>1, ToOK
    <3>. QED
      BY <1>1, <3>1, <3>2 DEF Fits, Task
  <2>5. CASE WriteManifest(t) \/ WriteFails(t)
    <3>1. NextFile(t) /\ k.step \in {"truncate", "write"}
      BY <2>5 DEF WriteManifest, WriteFails, Working, Is
    <3>2. k.file \in Data
      BY <1>1, <3>1 DEF Fits
    <3>3. \A d \in Data : d # 0
      BY FilesAssumption DEF Data
    <3>4. /\ tasks' \in [Tasks -> {Idle} \cup Task] /\ tasks'[t] \in Task
          /\ tasks'[t].kind = k.kind
          /\ tasks'[t].step \in {"mark", "image", "connect"} /\ tasks'[t].file \in Data
          /\ \A u \in Tasks : u # t => tasks'[u] = tasks[u]
      BY <1>1, <1>2, <1>3, <3>1, <3>2, NextFileOK
    <3>. QED
      BY <1>1, <3>3, <3>4 DEF Fits
  <2>6. CASE NoList(t)
    <3>1. /\ tasks' \in [Tasks -> {Idle} \cup Task] /\ tasks'[t] \in Task
          /\ tasks'[t] = [k EXCEPT !.step = Synced(t)]
          /\ \A u \in Tasks : u # t => tasks'[u] = tasks[u]
      BY <1>1, <1>2, <1>3, <2>6, ToOK DEF NoList
    <3>. QED
      BY <1>1, <1>3, <3>1 DEF Fits, Task
  <2>. QED
    BY <2>1, <2>2, <2>3, <2>4, <2>5, <2>6 DEF Sync
<1>6. TypeOK'
  BY <1>2, <1>4, <1>5 DEF TypeOK, device
<1>7. UNCHANGED <<device, removing>>
  BY <1>4
<1>. QED
  BY <1>1, <1>5, <1>6, <1>7, TaskStep DEF IInv

\* The image of the app.
LEMMA LoadsOK == IInv /\ Loads => IInv'
<1>. SUFFICES ASSUME IInv, NEW ok \in BOOLEAN, LoadImage(ok) PROVE IInv'
  BY DEF Loads
<1>. DEFINE k == tasks["load"]
<1>1. k.step # "none" /\ "load" \in Tasks
  BY DEF LoadImage, Working, Is, Tasks
<1>2. k \in Task /\ Fits("load", k)
  BY <1>1, AtWork
<1>3. /\ tasks' \in [Tasks -> {Idle} \cup Task] /\ tasks'["load"] \in Task
      /\ tasks'["load"] = [k EXCEPT !.step = "done", !.ok = ok]
      /\ \A u \in Tasks : u # "load" => tasks'[u] = tasks[u]
  BY <1>1, EndsOK DEF LoadImage, IInv
<1>4. Fits("load", tasks'["load"])
  BY <1>2, <1>3 DEF Fits, Task
<1>5. TypeOK' /\ UNCHANGED <<device, removing>>
  BY <1>3 DEF LoadImage, IInv, TypeOK, device, card
<1>. QED
  BY <1>1, <1>3, <1>4, <1>5, TaskStep DEF IInv

\* Every step keeps the invariant.
LEMMA NextOK == IInv /\ [Next]_vars => IInv'
<1>. SUFFICES ASSUME IInv, [Next]_vars PROVE IInv'
  OBVIOUS
<1>1. CASE PowerCut
  <2>1. tasks' \in [Tasks -> {Idle} \cup Task] /\ \A t \in Tasks : tasks'[t] = Idle
    BY <1>1 DEF PowerCut
  <2>2. tasks'["load"] = Idle /\ tasks'["install"] = Idle
    BY <2>1 DEF Tasks
  <2>3. TypeOK'
    BY <1>1, <2>1 DEF PowerCut, IInv, TypeOK, card
  <2>. QED
    BY <1>1, <2>1, <2>2, <2>3 DEF PowerCut, IInv, Alone, TasksFit
<1>2. CASE Boot
  BY <1>2 DEF Boot, IInv, TypeOK, Alone, TasksFit, card
<1>3. CASE UNCHANGED vars
  BY <1>3 DEF vars, device, card, IInv, TypeOK, Alone, TasksFit
<1>. QED
  BY <1>1, <1>2, <1>3, RequestsOK, RemovalOK, InstallsOK, DownloadOK, SyncOK, LoadsOK DEF Next

THEOREM Invariant == Spec => []IInv
  BY InitOK, NextOK, PTL DEF Spec

\* Every variable keeps its type.
THEOREM TypeCorrect == Spec => []TypeOK
<1>1. IInv => TypeOK
  BY DEF IInv
<1>. QED
  BY <1>1, Invariant, PTL

(***************************************************************************)
(* The user's own data                                                     *)
(***************************************************************************)

\* What may become of the user's own copy of d in one step: it stays, an upload of
\* that very file touches it, or it has the size the manifest gives and an
\* uninstall deletes it.
Respected(d) == files'[d] \in Mine \/ Uploading(d)
TwinGoes(d) == files[d] = "twin" /\ Removing("data") /\ d \in manifest

\* Whatever happens on the card, with launches during installs, power cuts and
\* failures.
LEMMA OwnDataStep ==
  ASSUME IInv, [Next]_vars, NEW d \in Data, files[d] \in Mine
  PROVE  Respected(d) \/ TwinGoes(d)
<1>. DEFINE i == tasks["install"]
<1>. USE DEF Respected
<1>1. /\ files \in [Files -> Contents] /\ d \in Files /\ d # 0
      /\ files[d] \in {"own", "twin"}
  BY FilesAssumption DEF IInv, TypeOK, Data, Files, Mine
<1>2. CASE UNCHANGED files
  BY <1>2
<1>3. ASSUME NEW e \in Data, OwnCopy(e) PROVE Respected(d)
  BY <1>1, <1>3 DEF OwnCopy
<1>4. CASE RemovePapp
  BY <1>1, <1>4 DEF RemovePapp
<1>5. ASSUME NEW e \in Data, RemoveData(e) PROVE Respected(d) \/ TwinGoes(d)
  <2>1. files[e] \in {"twin", "fetched", "broken"} /\ e \in manifest
    BY <1>5 DEF RemoveData, Removing, NotRemoving, IInv, Alone
  <2>2. CASE e = d
    BY <1>1, <1>5, <2>1, <2>2 DEF RemoveData, TwinGoes
  <2>3. CASE e # d
    BY <1>1, <1>5, <2>3 DEF RemoveData
  <2>. QED
    BY <2>2, <2>3
<1>6. CASE Stage \/ Settle \/ SettleFails
  <2>1. i.step \in {"stage", "settle"} /\ "install" \in Tasks
    BY <1>6 DEF Stage, Settle, SettleFails, Working, Is, Tasks
  <2>2. i # Idle /\ i \in Task /\ Fits("install", i)
    BY <2>1, AtWork
  <2>3. CASE i.file = d
    <3>1. i.kind = "upload"
      BY <1>1, <2>1, <2>2, <2>3 DEF Fits, Task, Kinds
    <3>. QED
      BY <2>2, <2>3, <3>1 DEF Uploading
  <2>4. CASE i.file # d
    BY <1>1, <1>6, <2>4 DEF Stage, Settle, SettleFails
  <2>. QED
    BY <2>3, <2>4
<1>7. ASSUME NEW t \in Tasks, Publish(t) PROVE Respected(d)
  <2>1. tasks[t].file # d
    BY <1>1, <1>7 DEF Publish, CanRename
  <2>. QED
    BY <1>1, <1>7, <2>1 DEF Publish
<1>8. CASE Next
  <2>1. CASE Requests
    BY <1>2, <1>3, <2>1 DEF Requests, StartInstall, NewTask, Launch, LaunchCopy,
                            LaunchFails, PollLoad, PollInstall, RequestClose, AppEnds, card
  <2>2. CASE Removal
    BY <1>2, <1>4, <1>5, <2>2 DEF Removal, Uninstall, UninstallWithData, Removes,
                                  RemovePappFails, RemoveListing,
                                  RemoveDataFails, RemoveManifest, card
  <2>3. CASE Installs
    BY <1>2, <1>6, <2>3 DEF Installs, StageFails, Mark, MarkFails, MarkWrites, card
  <2>4. ASSUME NEW t \in Tasks, Download(t) PROVE Respected(d)
    BY <1>2, <1>7, <2>4 DEF Download, Connect, ConnectFails, Receive, ReceiveFails,
                            ReceiveCancelled, PublishFails, Drop, card
  <2>5. ASSUME NEW t \in Tasks, Sync(t) PROVE UNCHANGED files
    BY <2>5 DEF Sync, ReadList, NoList, ListFails, ReadManifest, TruncateManifest,
                WriteManifest, WriteFails, card
  <2>6. CASE Loads \/ PowerCut \/ Boot
    BY <1>2, <2>6 DEF Loads, LoadImage, PowerCut, Boot, card
  <2>. QED
    BY <1>2, <1>8, <2>1, <2>2, <2>3, <2>4, <2>5, <2>6 DEF Next
<1>. QED
  BY <1>2, <1>8 DEF vars, card

THEOREM OwnDataIsSafe == Spec => OwnDataStays
<1> DEFINE Keeps == \A d \in Data :
                      /\ files[d] = "own" => files'[d] \in Mine \/ Uploading(d)
                      /\ files[d] = "twin" =>
                           \/ files'[d] \in Mine \/ Uploading(d)
                           \/ Removing("data") /\ d \in manifest
<1>1. IInv /\ [Next]_vars => [Keeps]_vars
  BY OwnDataStep DEF Respected, TwinGoes, Mine
<1>. QED
  BY <1>1, Invariant, PTL DEF Spec, OwnDataStays

(***************************************************************************)
(* What one step of a task makes of the task                               *)
(***************************************************************************)

DownloadSteps == {"connect", "receive", "publish", "drop"}

\* A download leaves the task where it is, at the end of a failure, or past the
\* rename of a data file or of its target.
LEMMA DownloadTask ==
  ASSUME IInv, NEW t \in Tasks, Download(t)
  PROVE  /\ tasks[t].step \in DownloadSteps
         /\ \A u \in Tasks : u # t => tasks'[u] = tasks[u]
         /\ tasks[t] \in Task /\ tasks'[t] \in Task /\ Fits(t, tasks[t])
         /\ tasks'[t].kind = tasks[t].kind /\ tasks'[t].file = tasks[t].file
         /\ tasks'[t].missing = tasks[t].missing /\ tasks'[t].backedUp = tasks[t].backedUp
         /\ tasks'[t].step \in DownloadSteps \cup {"record", "settle", "done"}
         /\ tasks'[t].step = "record" => ForData(t) /\ Publish(t)
         /\ tasks'[t].step = "settle" => ~ForData(t)
         /\ tasks'[t].step = "done" => ForData(t) /\ ~tasks'[t].ok
         /\ Publish(t) => tasks'[t].step \in {"record", "settle"}
         /\ ~Publish(t) => UNCHANGED files
         /\ UNCHANGED <<backups, manifest, removing, past>>
<1>. DEFINE k == tasks[t]
<1>1. k.step \in DownloadSteps
  BY DEF Download, Connect, ConnectFails, Receive, ReceiveFails, ReceiveCancelled,
         Publish, PublishFails, Drop, Working, Is, DownloadSteps
<1>2. k.step # "none" /\ k \in Task /\ Fits(t, k) /\ TypeOK
  BY <1>1, AtWork DEF DownloadSteps, IInv
<1>3. /\ ~Publish(t) => UNCHANGED files
      /\ UNCHANGED <<backups, manifest, removing, past>>
  BY DEF Download, Connect, ConnectFails, Receive, ReceiveFails, ReceiveCancelled,
         Publish, PublishFails, Drop, card
<1>4. CASE ConnectFails(t) \/ Drop(t)
  <2>1. Failed(t) /\ ~Publish(t)
    BY <1>4 DEF ConnectFails, Drop, Publish, Working, Is
  <2>2. /\ tasks'[t] = [k EXCEPT !.step = IF ForData(t) THEN "done" ELSE "settle", !.ok = FALSE]
        /\ tasks'[t] \in Task /\ \A u \in Tasks : u # t => tasks'[u] = tasks[u]
    BY <1>2, <2>1, FailedOK
  <2>3. CASE ForData(t)
    BY <1>1, <1>2, <1>3, <2>1, <2>2, <2>3 DEF Task
  <2>4. CASE ~ForData(t)
    BY <1>1, <1>2, <1>3, <2>1, <2>2, <2>4 DEF Task
  <2>. QED
    BY <2>3, <2>4
<1>5. CASE ~(ConnectFails(t) \/ Drop(t))
  <2>1. PICK s \in {"drop", "receive", "publish", "record", "settle"} :
          /\ To(t, s)
          /\ s = "record" => ForData(t) /\ Publish(t)
          /\ s = "settle" => ~ForData(t)
          /\ Publish(t) => s \in {"record", "settle"}
    BY <1>5 DEF Download, Connect, Receive, ReceiveFails, ReceiveCancelled, Publish,
                PublishFails, Working, Is
  <2>2. s \in Steps
    BY DEF Steps
  <2>3. /\ tasks'[t] = [k EXCEPT !.step = s] /\ tasks'[t] \in Task
        /\ \A u \in Tasks : u # t => tasks'[u] = tasks[u]
    BY <1>2, <2>1, <2>2, ToOK
  <2>4. /\ tasks'[t].step = s /\ tasks'[t].kind = k.kind /\ tasks'[t].file = k.file
        /\ tasks'[t].missing = k.missing /\ tasks'[t].backedUp = k.backedUp
    BY <1>2, <2>3 DEF Task
  <2>. QED
    BY <1>1, <1>2, <1>3, <2>1, <2>3, <2>4 DEF DownloadSteps
<1>. QED
  BY <1>4, <1>5

\* The data files that are not there.
Gone == {d \in Data : files[d] = "absent"}

\* On to the next of the missing files, or past the sync.
GoesOn(t, missing) ==
  \/ missing = {} /\ tasks'[t].step = Synced(t)
  \/ /\ tasks'[t].step = "connect" /\ tasks'[t].file \in Data
     /\ missing \subseteq tasks'[t].missing \cup {tasks'[t].file}

\* A sync reads the list, records a download step by step, and goes on.
LEMMA SyncTask ==
  ASSUME IInv, NEW t \in Tasks, Sync(t)
  PROVE  /\ \A u \in Tasks : u # t => tasks'[u] = tasks[u]
         /\ tasks[t] \in Task /\ tasks'[t] \in Task /\ Fits(t, tasks[t])
         /\ tasks'[t].kind = tasks[t].kind
         /\ UNCHANGED <<files, backups, parts, removing, had>>
         /\ \/ ListFails(t) /\ tasks'[t].step = "done" /\ ~tasks'[t].ok
            \/ ReadList(t) /\ GoesOn(t, Gone)
            \/ /\ NoList(t) /\ tasks'[t].step = Synced(t)
               /\ tasks'[t].listed = tasks[t].listed
            \/ /\ ReadManifest(t) /\ tasks'[t].step = "truncate" /\ Reading(tasks'[t].seen)
               /\ tasks'[t].file = tasks[t].file /\ tasks'[t].missing = tasks[t].missing
            \/ /\ TruncateManifest(t) /\ tasks'[t].step = "write"
               /\ tasks'[t].seen = tasks[t].seen
               /\ tasks'[t].file = tasks[t].file /\ tasks'[t].missing = tasks[t].missing
            \/ (WriteManifest(t) \/ WriteFails(t)) /\ GoesOn(t, tasks[t].missing)
<1>. DEFINE k == tasks[t]
<1>1. k.step # "none" /\ k \in Task /\ Fits(t, k) /\ TypeOK
  <2>1. k.step # "none"
    BY DEF Sync, ReadList, NoList, ListFails, ReadManifest, TruncateManifest, WriteManifest,
           WriteFails, Working, Is
  <2>. QED
    BY <2>1, AtWork DEF IInv
<1>2. UNCHANGED <<files, backups, parts, removing, had>>
  BY DEF Sync, ReadList, NoList, ListFails, ReadManifest, TruncateManifest, WriteManifest,
         WriteFails, card
<1>3. ASSUME NEW s \in {"write", "mark", "image"}, To(t, s)
      PROVE  /\ tasks'[t] = [k EXCEPT !.step = s] /\ tasks'[t] \in Task
             /\ \A u \in Tasks : u # t => tasks'[u] = tasks[u]
  <2>1. s \in Steps
    BY DEF Steps
  <2>. QED
    BY <1>1, <1>3, <2>1, ToOK
<1>4. Synced(t) \in {"mark", "image"}
  BY DEF Synced
<1>5. ASSUME NEW missing, missing \subseteq Data, NEW d \in missing, NEW r,
             r.step = "connect", r.file = d, r.missing = missing \ {d}, r.kind = k.kind,
             r \in Task, Goes(t, r)
      PROVE  /\ tasks'[t] \in Task /\ tasks'[t].kind = k.kind /\ GoesOn(t, missing)
             /\ \A u \in Tasks : u # t => tasks'[u] = tasks[u]
  <2>1. tasks'[t] = r /\ \A u \in Tasks : u # t => tasks'[u] = tasks[u]
    BY <1>1, <1>5, GoesOK
  <2>. QED
    BY <1>5, <2>1 DEF GoesOn
<1>6. Data \subseteq Files
  BY FilesAssumption DEF Data, Files
<1>7. CASE ListFails(t)
  <2>1. /\ tasks'[t] = [k EXCEPT !.step = "done", !.ok = FALSE] /\ tasks'[t] \in Task
        /\ \A u \in Tasks : u # t => tasks'[u] = tasks[u]
    BY <1>1, <1>7, EndsOK DEF ListFails
  <2>2. tasks'[t].step = "done" /\ ~tasks'[t].ok /\ tasks'[t].kind = k.kind
    BY <1>1, <2>1 DEF Task
  <2>. QED
    BY <1>1, <1>2, <1>7, <2>1, <2>2
<1>8. CASE ReadList(t)
  <2>1. CASE Gone = {}
    <3> DEFINE r == [k EXCEPT !.step = Synced(t), !.listed = TRUE]
    <3>1. Goes(t, r)
      BY <1>8, <2>1 DEF ReadList, Gone
    <3>2. Synced(t) \in Steps
      BY <1>4 DEF Steps
    <3>3. r \in Task /\ r.step = Synced(t) /\ r.kind = k.kind
      BY <1>1, <3>2 DEF Task
    <3> HIDE DEF r
    <3>4. tasks'[t] = r /\ \A u \in Tasks : u # t => tasks'[u] = tasks[u]
      BY <1>1, <3>1, <3>3, GoesOK
    <3>. QED
      BY <1>1, <1>2, <1>8, <2>1, <3>3, <3>4 DEF GoesOn
  <2>2. CASE Gone # {}
    <3>1. PICK d \in Gone :
            Goes(t, [k EXCEPT !.step = "connect", !.file = d, !.listed = TRUE,
                              !.missing = Gone \ {d}])
      BY <1>8, <2>2 DEF ReadList, Gone
    <3> DEFINE r == [k EXCEPT !.step = "connect", !.file = d, !.listed = TRUE,
                              !.missing = Gone \ {d}]
    <3>2. Gone \subseteq Data /\ d \in Data
      BY DEF Gone
    <3>3. /\ r \in Task /\ r.step = "connect" /\ r.file = d /\ r.missing = Gone \ {d}
          /\ r.kind = k.kind
      BY <1>1, <1>6, <3>2 DEF Task, Steps
    <3>4. Goes(t, r)
      BY <3>1
    <3> HIDE DEF r
    <3>5. /\ tasks'[t] \in Task /\ tasks'[t].kind = k.kind /\ GoesOn(t, Gone)
          /\ \A u \in Tasks : u # t => tasks'[u] = tasks[u]
      BY <1>5, <3>2, <3>3, <3>4
    <3>. QED
      BY <1>1, <1>2, <1>8, <3>5
  <2>. QED
    BY <2>1, <2>2
<1>9. CASE ReadManifest(t)
  <2>5. PICK records \in {{}, manifest} :
          Reading(records) /\ Goes(t, [k EXCEPT !.step = "truncate", !.seen = records])
    BY <1>9 DEF ReadManifest
  <2> DEFINE r == [k EXCEPT !.step = "truncate", !.seen = records]
  <2>4. records \subseteq Data
    BY <1>1 DEF TypeOK
  <2>1. /\ r \in Task /\ r.step = "truncate" /\ r.seen = records /\ r.file = k.file
        /\ r.missing = k.missing /\ r.kind = k.kind
    BY <1>1, <2>4 DEF Task, Steps
  <2>2. Goes(t, r) /\ Reading(records)
    BY <2>5
  <2> HIDE DEF r
  <2>3. tasks'[t] = r /\ \A u \in Tasks : u # t => tasks'[u] = tasks[u]
    BY <1>1, <2>1, <2>2, GoesOK
  <2>6. Reading(tasks'[t].seen)
    BY <2>1, <2>2, <2>3 DEF Reading
  <2>. QED
    BY <1>1, <1>2, <1>9, <2>1, <2>3, <2>6
<1>10. CASE TruncateManifest(t)
  <2>1. /\ tasks'[t] = [k EXCEPT !.step = "write"] /\ tasks'[t] \in Task
        /\ \A u \in Tasks : u # t => tasks'[u] = tasks[u]
    BY <1>3, <1>10 DEF TruncateManifest
  <2>2. /\ tasks'[t].step = "write" /\ tasks'[t].seen = k.seen /\ tasks'[t].file = k.file
        /\ tasks'[t].missing = k.missing /\ tasks'[t].kind = k.kind
    BY <1>1, <2>1 DEF Task
  <2>. QED
    BY <1>1, <1>2, <1>10, <2>1, <2>2
<1>11. CASE WriteManifest(t) \/ WriteFails(t)
  <2>1. NextFile(t)
    BY <1>11 DEF WriteManifest, WriteFails
  <2>2. CASE k.missing = {}
    <3>1. To(t, Synced(t))
      BY <2>1, <2>2 DEF NextFile
    <3>2. /\ tasks'[t] = [k EXCEPT !.step = Synced(t)] /\ tasks'[t] \in Task
          /\ \A u \in Tasks : u # t => tasks'[u] = tasks[u]
      BY <1>3, <1>4, <3>1
    <3>3. tasks'[t].step = Synced(t) /\ tasks'[t].kind = k.kind
      BY <1>1, <3>2 DEF Task
    <3>. QED
      BY <1>1, <1>2, <1>11, <2>2, <3>2, <3>3 DEF GoesOn
  <2>3. CASE k.missing # {}
    <3>1. PICK d \in k.missing :
            Goes(t, [k EXCEPT !.step = "connect", !.file = d, !.missing = k.missing \ {d},
                              !.seen = {}])
      BY <2>1, <2>3 DEF NextFile
    <3> DEFINE r == [k EXCEPT !.step = "connect", !.file = d, !.missing = k.missing \ {d},
                              !.seen = {}]
    <3>2. k.missing \subseteq Data
      BY <1>1 DEF Task
    <3>3. /\ r \in Task /\ r.step = "connect" /\ r.file = d /\ r.missing = k.missing \ {d}
          /\ r.kind = k.kind
      BY <1>1, <1>6, <3>2 DEF Task, Steps
    <3>4. Goes(t, r)
      BY <3>1
    <3> HIDE DEF r
    <3>5. /\ tasks'[t] \in Task /\ tasks'[t].kind = k.kind /\ GoesOn(t, k.missing)
          /\ \A u \in Tasks : u # t => tasks'[u] = tasks[u]
      BY <1>5, <3>2, <3>3, <3>4
    <3>. QED
      BY <1>1, <1>2, <1>11, <3>3, <3>5
  <2>. QED
    BY <2>2, <2>3
<1>12. CASE NoList(t)
  <2>1. /\ tasks'[t] = [k EXCEPT !.step = Synced(t)] /\ tasks'[t] \in Task
        /\ \A u \in Tasks : u # t => tasks'[u] = tasks[u]
    BY <1>3, <1>4, <1>12 DEF NoList
  <2>2. /\ tasks'[t].step = Synced(t) /\ tasks'[t].kind = k.kind
        /\ tasks'[t].listed = k.listed
    BY <1>1, <2>1 DEF Task
  <2>. QED
    BY <1>1, <1>2, <1>12, <2>1, <2>2
<1>. QED
  BY <1>7, <1>8, <1>9, <1>10, <1>11, <1>12 DEF Sync

(***************************************************************************)
(* No broken file, as long as no two downloads of one file meet            *)
(***************************************************************************)

\* Task t has the .part of file f: it fills it, or is about to rename or remove it.
Has(t, f) == tasks[t].step \in {"receive", "publish", "drop"} /\ tasks[t].file = f

\* Both tasks have the same .part: the launch of an app and its install or update, or
\* an upload of one of its data files, at the same file at the same time.
Meet == \E f \in Files : \A t \in Tasks : Has(t, f)

\* What a task has received is what its .part holds.
Whole ==
  /\ \A f \in Files : files[f] # "broken" /\ backups[f] # "broken" /\ parts[f] # "broken"
  /\ \A t \in Tasks : /\ Is(t, "receive") => parts[tasks[t].file] = "partial"
                      /\ Is(t, "publish") => parts[tasks[t].file] = "fetched"

\* The other task has nothing open of what a task has.
LEMMA NotElsewhere ==
  ASSUME ~Meet, NEW t \in Tasks, NEW f \in Files, Has(t, f)
  PROVE  ~OpenElsewhere(t, f)
<1>1. \E u \in Tasks : u # t
  BY DEF Tasks
<1>2. Other(t) \in Tasks /\ Other(t) # t
  BY <1>1 DEF Other
<1>3. \A u \in Tasks : u = t \/ u = Other(t)
  BY <1>2 DEF Tasks
<1>. QED
  BY <1>3 DEF Meet, Has, OpenElsewhere, Is

\* A step of one task that changes only the .part it has, and breaks nothing.
LEMMA WholeKept ==
  ASSUME IInv, Whole, ~Meet, ~Meet', NEW t \in Tasks,
         \A u \in Tasks : u # t => tasks'[u] = tasks[u],
         NEW g \in Files, \A f \in Files : f # g => parts'[f] = parts[f],
         parts'[g] # parts[g] => Has(t, g) \/ Has(t, g)',
         \A f \in Files : files'[f] # "broken" /\ backups'[f] # "broken" /\ parts'[f] # "broken",
         Is(t, "receive")' => parts'[tasks'[t].file] = "partial",
         Is(t, "publish")' => parts'[tasks'[t].file] = "fetched"
  PROVE  Whole'
<1>1. ASSUME NEW u \in Tasks, u # t, tasks[u].step \in {"receive", "publish"}
      PROVE  parts'[tasks[u].file] = parts[tasks[u].file]
  <2>1. tasks[u].file \in Files
    BY <1>1, AtWork DEF Task
  <2>2. Has(u, tasks[u].file) /\ (tasks[u].file = g => Has(u, g)')
    BY <1>1 DEF Has
  <2>3. \A v \in Tasks : v = t \/ v = u
    BY <1>1 DEF Tasks
  <2>4. tasks[u].file = g => parts'[g] = parts[g]
    BY <2>2, <2>3 DEF Meet
  <2>. QED
    BY <2>1, <2>4
<1>2. ASSUME NEW u \in Tasks, u # t
      PROVE  /\ Is(u, "receive")' => parts'[tasks'[u].file] = "partial"
             /\ Is(u, "publish")' => parts'[tasks'[u].file] = "fetched"
  BY <1>1, <1>2 DEF Whole, Is
<1>. QED
  BY <1>2 DEF Whole

\* A step of one task that leaves every .part alone, and breaks nothing.
LEMMA PartsKept ==
  ASSUME IInv, Whole, ~Meet, ~Meet', NEW t \in Tasks,
         \A u \in Tasks : u # t => tasks'[u] = tasks[u],
         \A f \in Files : parts'[f] = parts[f] /\ files'[f] # "broken" /\ backups'[f] # "broken",
         tasks'[t].step \notin {"receive", "publish"}
  PROVE  Whole'
<1>1. 0 \in Files
  BY FilesAssumption DEF Files
<1>2. \A f \in Files : parts'[f] # "broken"
  BY DEF Whole
<1>. QED
  BY <1>1, <1>2, WholeKept DEF Is

LEMMA WholeDownload ==
  ASSUME IInv, Whole, ~Meet, ~Meet', NEW t \in Tasks, Download(t) PROVE Whole'
<1>. DEFINE k == tasks[t]
<1>1. /\ k.step # "none" /\ k \in Task /\ k.file \in Files /\ TypeOK
  <2>1. k.step \in {"connect", "receive", "publish", "drop"}
    BY DEF Download, Connect, ConnectFails, Receive, ReceiveFails, ReceiveCancelled,
           Publish, PublishFails, Drop, Working, Is
  <2>. QED
    BY <2>1, AtWork DEF Task, IInv
<1>3. files \in [Files -> Contents] /\ parts \in [Files -> PartContents]
  BY <1>1 DEF TypeOK
<1>4. \A f \in Files : files[f] # "broken" /\ backups[f] # "broken" /\ parts[f] # "broken"
  BY DEF Whole
<1>5. ASSUME NEW s \in Steps, To(t, s)
      PROVE  /\ tasks'[t].step = s /\ tasks'[t].file = k.file
             /\ \A u \in Tasks : u # t => tasks'[u] = tasks[u]
  <2>1. tasks'[t] = [k EXCEPT !.step = s] /\ \A u \in Tasks : u # t => tasks'[u] = tasks[u]
    BY <1>1, <1>5, ToOK
  <2>. QED
    BY <1>1, <2>1 DEF Task
<1>6. CASE Connect(t)
  <2>1. PICK s \in {"drop", "receive"} : To(t, s)
    BY <1>6 DEF Connect
  <2>2. s \in Steps
    BY DEF Steps
  <2>3. /\ tasks'[t].step = s /\ tasks'[t].file = k.file
        /\ \A u \in Tasks : u # t => tasks'[u] = tasks[u]
    BY <1>5, <2>1, <2>2
  <2>4. Has(t, k.file)'
    BY <2>1, <2>3 DEF Has
  <2>5. ~OpenElsewhere(t, k.file)
    <3>1. \E u \in Tasks : u # t
      BY DEF Tasks
    <3>2. Other(t) \in Tasks /\ Other(t) # t
      BY <3>1 DEF Other
    <3>3. \A u \in Tasks : u = t \/ u = Other(t)
      BY <3>2 DEF Tasks
    <3>. QED
      BY <1>1, <2>3, <2>4, <3>2, <3>3 DEF OpenElsewhere, Is, Meet, Has
  <2>6. parts' = [parts EXCEPT ![k.file] = "partial"] /\ UNCHANGED <<files, backups>>
    BY <1>6, <2>5 DEF Connect
  <2>. QED
    BY <1>1, <1>3, <1>4, <2>1, <2>3, <2>4, <2>6, WholeKept DEF Is
<1>7. CASE Receive(t)
  <2>1. parts[k.file] = "partial" /\ To(t, "publish") /\ "publish" \in Steps
    BY <1>7 DEF Receive, Working, Whole, Steps
  <2>2. parts' = [parts EXCEPT ![k.file] = "fetched"] /\ UNCHANGED <<files, backups>>
    BY <1>7, <2>1 DEF Receive
  <2>3. /\ tasks'[t].step = "publish" /\ tasks'[t].file = k.file
        /\ \A u \in Tasks : u # t => tasks'[u] = tasks[u]
    BY <1>5, <2>1
  <2>4. Has(t, k.file)
    BY <1>7 DEF Receive, Working, Is, Has
  <2>. QED
    BY <1>1, <1>3, <1>4, <2>2, <2>3, <2>4, WholeKept DEF Is
<1>8. CASE ReceiveFails(t) \/ ReceiveCancelled(t) \/ PublishFails(t)
  <2>1. To(t, "drop") /\ "drop" \in Steps /\ UNCHANGED <<files, backups, parts>>
    BY <1>8 DEF ReceiveFails, ReceiveCancelled, PublishFails, Steps, card
  <2>2. tasks'[t].step = "drop" /\ \A u \in Tasks : u # t => tasks'[u] = tasks[u]
    BY <1>5, <2>1
  <2>. QED
    BY <1>1, <1>4, <2>1, <2>2, WholeKept DEF Is
<1>9. CASE Publish(t)
  <2>1. PICK s \in {"record", "settle"} : To(t, s)
    BY <1>9 DEF Publish
  <2>2. s \in Steps
    BY DEF Steps
  <2>3. parts[k.file] = "fetched"
    BY <1>9 DEF Publish, Working, Whole
  <2>6. Has(t, k.file)
    BY <1>9 DEF Publish, Working, Is, Has
  <2>4. /\ \E c \in Mine \cup {"fetched"} : files' = [files EXCEPT ![k.file] = c]
        /\ parts' = [parts EXCEPT ![k.file] = "absent"] /\ UNCHANGED backups
    BY <1>1, <1>9, <2>3, <2>6, NotElsewhere DEF Publish
  <2>5. tasks'[t].step = s /\ \A u \in Tasks : u # t => tasks'[u] = tasks[u]
    BY <1>5, <2>1, <2>2
  <2>. QED
    BY <1>1, <1>3, <1>4, <2>4, <2>5, <2>6, WholeKept DEF Is, Mine
<1>10. CASE ConnectFails(t) \/ Drop(t)
  <2>1. Failed(t) /\ UNCHANGED <<files, backups>>
        /\ \/ parts' = parts
           \/ Has(t, k.file) /\ parts' = [parts EXCEPT ![k.file] = "absent"]
    BY <1>10 DEF ConnectFails, Drop, card, Working, Is, Has
  <2>2. /\ tasks'[t] = [k EXCEPT !.step = IF ForData(t) THEN "done" ELSE "settle", !.ok = FALSE]
        /\ \A u \in Tasks : u # t => tasks'[u] = tasks[u]
    BY <1>1, <2>1, FailedOK
  <2>3. tasks'[t].step \in {"done", "settle"}
    BY <1>1, <2>2 DEF Task
  <2>. QED
    <3>1. CASE UNCHANGED parts
      BY <1>1, <1>4, <2>1, <2>2, <2>3, <3>1, PartsKept
    <3>2. CASE Has(t, k.file) /\ parts' = [parts EXCEPT ![k.file] = "absent"]
      <4>1. \A f \in Files : f # k.file => parts'[f] = parts[f]
        BY <1>1, <1>3, <3>2
      <4>2. \A f \in Files : files'[f] # "broken" /\ backups'[f] # "broken" /\ parts'[f] # "broken"
        BY <1>1, <1>3, <1>4, <2>1, <3>2
      <4>. QED
        BY <1>1, <2>2, <2>3, <3>2, <4>1, <4>2, WholeKept DEF Is
    <3>. QED
      BY <2>1, <3>1, <3>2
<1>. QED
  BY <1>6, <1>7, <1>8, <1>9, <1>10 DEF Download

\* Settling, listing, recording and loading leave no download under way.
LEMMA WholeElse ==
  ASSUME IInv, Whole, ~Meet, ~Meet', Installs \/ Loads \/ \E t \in Tasks : Sync(t)
  PROVE  Whole'
<1>. USE FilesAssumption
<1>1. TypeOK /\ \A f \in Files : files[f] # "broken" /\ backups[f] # "broken" /\ parts[f] # "broken"
  BY DEF IInv, Whole
<1>2. ASSUME NEW t \in Tasks, Sync(t) PROVE Whole'
  <2>1. /\ tasks'[t].step \notin {"receive", "publish"}
        /\ \A u \in Tasks : u # t => tasks'[u] = tasks[u]
        /\ UNCHANGED <<files, backups, parts>>
    BY <1>2, SyncTask DEF GoesOn, Synced
  <2>. QED
    BY <1>1, <2>1, PartsKept
<1>3. CASE Loads
  <2>1. PICK ok \in BOOLEAN : LoadImage(ok)
    BY <1>3 DEF Loads
  <2>2. /\ tasks["load"].step # "none" /\ "load" \in Tasks
        /\ Ends("load", ok) /\ UNCHANGED <<files, backups, parts>>
    BY <2>1 DEF LoadImage, Working, Is, Tasks, card
  <2>3. tasks["load"] \in Task
    BY <2>2, AtWork
  <2>4. /\ tasks'["load"] = [tasks["load"] EXCEPT !.step = "done", !.ok = ok]
        /\ \A u \in Tasks : u # "load" => tasks'[u] = tasks[u]
    BY <1>1, <2>2, EndsOK
  <2>5. tasks'["load"].step = "done"
    BY <2>3, <2>4 DEF Task
  <2>. QED
    BY <1>1, <2>2, <2>4, <2>5, PartsKept
<1>4. CASE Installs
  <2> DEFINE i == tasks["install"]
  <2>1. i.step # "none" /\ "install" \in Tasks
    BY <1>4 DEF Installs, Stage, StageFails, Settle, SettleFails, Mark, MarkFails, MarkWrites,
                Working, Is, Tasks
  <2>2. i \in Task /\ i.file \in Files
    BY <2>1, AtWork DEF Task
  <2>3. \A f \in Files : files'[f] # "broken" /\ backups'[f] # "broken" /\ parts'[f] # "broken"
    <3>1. CASE Stage
      BY <1>1, <2>2, <3>1 DEF Stage, TypeOK
    <3>2. CASE StageFails
      BY <1>1, <2>2, <3>2 DEF StageFails, TypeOK
    <3>3. CASE Settle \/ SettleFails
      BY <1>1, <2>2, <3>3 DEF Settle, SettleFails, TypeOK
    <3>4. CASE Mark \/ MarkFails \/ MarkWrites
      BY <1>1, <3>4 DEF Mark, MarkFails, MarkWrites, card
    <3>. QED
      BY <1>4, <3>1, <3>2, <3>3, <3>4 DEF Installs
  <2>5. UNCHANGED parts
    BY <1>4 DEF Installs, Stage, StageFails, Settle, SettleFails, Mark, MarkFails, MarkWrites, card
  <2>4. /\ tasks'["install"].step \notin {"receive", "publish"}
        /\ \A u \in Tasks : u # "install" => tasks'[u] = tasks[u]
    <3>1. ASSUME NEW s \in Steps \ {"receive", "publish"}, To("install", s)
          PROVE  /\ tasks'["install"].step \notin {"receive", "publish"}
                 /\ \A u \in Tasks : u # "install" => tasks'[u] = tasks[u]
      <4>1. tasks'["install"] = [i EXCEPT !.step = s]
            /\ \A u \in Tasks : u # "install" => tasks'[u] = tasks[u]
        BY <1>1, <2>1, <3>1, ToOK
      <4>. QED
        BY <2>2, <4>1 DEF Task
    <3>2. ASSUME NEW b \in BOOLEAN, Ends("install", b)
          PROVE  /\ tasks'["install"].step \notin {"receive", "publish"}
                 /\ \A u \in Tasks : u # "install" => tasks'[u] = tasks[u]
      <4>1. tasks'["install"] = [i EXCEPT !.step = "done", !.ok = b]
            /\ \A u \in Tasks : u # "install" => tasks'[u] = tasks[u]
        BY <1>1, <2>1, <3>2, EndsOK
      <4>. QED
        BY <2>2, <4>1 DEF Task
    <3>3. CASE Stage
      <4>1. PICK b \in BOOLEAN : Goes("install", [i EXCEPT !.step = "connect", !.backedUp = b])
        BY <3>3 DEF Stage
      <4> DEFINE r == [i EXCEPT !.step = "connect", !.backedUp = b]
      <4>2. r \in Task /\ r.step = "connect" /\ Goes("install", r)
        BY <2>2, <4>1 DEF Task, Steps
      <4> HIDE DEF r
      <4>. QED
        BY <1>1, <2>1, <4>2, GoesOK
    <3>4. CASE Settle
      BY <2>2, <3>1, <3>2, <3>4 DEF Settle, Steps, Task
    <3>5. CASE Mark
      BY <3>1, <3>5 DEF Mark, Steps
    <3>6. CASE StageFails \/ SettleFails \/ MarkFails \/ MarkWrites
      BY <3>2, <3>6 DEF StageFails, SettleFails, MarkFails, MarkWrites
    <3>. QED
      BY <1>4, <3>3, <3>4, <3>5, <3>6 DEF Installs
  <2>. QED
    BY <2>1, <2>3, <2>4, <2>5, PartsKept
<1>. QED
  BY <1>2, <1>3, <1>4

\* Without a launch during an install, no step leaves a broken file.
LEMMA WholeStep == IInv /\ Whole /\ ~Meet /\ ~Meet' /\ [Next]_vars => Whole'
<1>. SUFFICES ASSUME IInv, Whole, ~Meet, ~Meet', [Next]_vars PROVE Whole'
  OBVIOUS
<1>. USE FilesAssumption
<1>1. TypeOK /\ \A f \in Files : files[f] # "broken" /\ backups[f] # "broken" /\ parts[f] # "broken"
  BY DEF IInv, Whole
<1>2. ASSUME NEW t \in Tasks, NEW r,
             r = Idle \/ (r.step \notin {"receive", "publish"} /\ r \in Task),
             Goes(t, r), UNCHANGED <<files, backups, parts>>
      PROVE  Whole'
  <2>1. tasks'[t] = r /\ \A u \in Tasks : u # t => tasks'[u] = tasks[u]
    BY <1>1, <1>2, GoesOK
  <2>2. ~Is(t, "receive")' /\ ~Is(t, "publish")'
    BY <1>2, <2>1 DEF Is, Idle
  <2>. QED
    BY <1>1, <1>2, <2>1, <2>2 DEF Whole, Is
<1>3. ASSUME NEW kind \in {"catalog", "direct", "upload"}, NEW f \in Files, StartInstall(kind, f)
      PROVE Whole'
  <2> DEFINE r == [step |-> "stage", kind |-> kind, file |-> f, ok |-> TRUE,
                   backedUp |-> FALSE, listed |-> FALSE, missing |-> {}, seen |-> {}]
  <2>1. r \in Task /\ r.step = "stage"
    BY DEF Task, Steps, Kinds
  <2>2. Goes("install", r) /\ UNCHANGED <<files, backups, parts>>
    BY <1>3 DEF StartInstall, NewTask, card
  <2> HIDE DEF r
  <2>. QED
    BY <1>2, <2>1, <2>2 DEF Tasks
<1>4. CASE Launch
  <2> DEFINE r == [step |-> "list", kind |-> "stream", file |-> 0, ok |-> TRUE,
                   backedUp |-> FALSE, listed |-> FALSE, missing |-> {}, seen |-> {}]
  <2>1. r \in Task /\ r.step = "list"
    BY DEF Task, Steps, Kinds, Files
  <2>2. Goes("load", r) /\ UNCHANGED <<files, backups, parts>>
    BY <1>4 DEF Launch, NewTask, card
  <2> HIDE DEF r
  <2>. QED
    BY <1>2, <2>1, <2>2 DEF Tasks
<1>5. CASE PollLoad \/ PollInstall
  BY <1>2, <1>5 DEF PollLoad, PollInstall, card, Tasks
<1>6. ASSUME UNCHANGED tasks, UNCHANGED <<backups, parts>>,
             \A f \in Files : files'[f] # "broken"
      PROVE Whole'
  BY <1>1, <1>6 DEF Whole, Is
<1>7. CASE LaunchCopy \/ LaunchFails \/ RequestClose \/ AppEnds \/ \E d \in Data : OwnCopy(d)
  BY <1>1, <1>6, <1>7
     DEF LaunchCopy, LaunchFails, RequestClose, AppEnds, OwnCopy, Mine, card, TypeOK
<1>8. CASE Removal
  BY <1>1, <1>6, <1>8 DEF Removal, Uninstall, UninstallWithData, Removes, RemovePapp,
                          RemovePappFails, RemoveListing, RemoveData, RemoveDataFails,
                          RemoveManifest, card, TypeOK
<1>9. CASE PowerCut
  <2>1. \A t \in Tasks : tasks'[t] = Idle
    BY <1>9 DEF PowerCut
  <2>2. \A t \in Tasks : ~Is(t, "receive")' /\ ~Is(t, "publish")'
    BY <2>1 DEF Is, Idle
  <2>. QED
    BY <1>1, <1>9, <2>1, <2>2 DEF PowerCut, card, Whole
<1>10. CASE Boot \/ UNCHANGED vars
  BY <1>1, <1>6, <1>10 DEF Boot, vars, card
<1>. QED
  BY <1>3, <1>4, <1>5, <1>7, <1>8, <1>9, <1>10, WholeDownload, WholeElse DEF Next, Requests

\* Launches may overlap installs: as long as the two tasks are never at the same file
\* at the same time, no file under its real name is ever broken, whatever fails and
\* whenever the power goes.
THEOREM NoBrokenFileApart == Spec /\ []~Meet => []NoBrokenFile
<1>1. Init => Whole
  BY DEF Init, Whole, Mine, Is, Idle, Tasks
<1>2. IInv /\ Whole /\ ~Meet /\ ~Meet' /\ [Next]_vars => Whole'
  BY WholeStep
<1>3. Whole => NoBrokenFile
  BY DEF Whole, NoBrokenFile
<1>. QED
  BY <1>1, <1>2, <1>3, Invariant, PTL DEF Spec

(***************************************************************************)
(* One task at a time, when no launch overlaps an install                  *)
(***************************************************************************)

OneTask == tasks["install"] = Idle \/ tasks["load"] = Idle

LEMMA OneTaskStep == ~Overlap /\ IInv /\ OneTask /\ [Next]_vars => OneTask'
<1>. SUFFICES ASSUME ~Overlap, IInv, OneTask, [Next]_vars PROVE OneTask'
  OBVIOUS
<1>1. TypeOK /\ {"install", "load"} = Tasks
  BY DEF IInv, Tasks
\* A task that goes on is not idle, and the other one stays idle.
<1>2. ASSUME NEW t \in Tasks, tasks[t].step # "none", \A u \in Tasks : u # t => tasks'[u] = tasks[u]
      PROVE  OneTask'
  BY <1>1, <1>2 DEF OneTask, Idle
<1>3. ASSUME NEW t \in Tasks, NEW r, Goes(t, r) PROVE \A u \in Tasks : u # t => tasks'[u] = tasks[u]
  BY <1>1, <1>3 DEF Goes, TypeOK
<1>4. ASSUME NEW t \in Tasks, Download(t) PROVE OneTask'
  <2>1. tasks[t].step # "none"
    BY <1>4 DEF Download, Connect, ConnectFails, Receive, ReceiveFails, ReceiveCancelled,
           Publish, PublishFails, Drop, Working, Is
  <2>2. \E r : Goes(t, r)
    BY <1>4 DEF Download, Connect, ConnectFails, Receive, ReceiveFails, ReceiveCancelled,
           Publish, PublishFails, Drop, Failed, To, Ends
  <2>. QED
    BY <1>2, <1>3, <2>1, <2>2
<1>5. ASSUME NEW t \in Tasks, Sync(t) PROVE OneTask'
  <2>1. tasks[t].step # "none"
    BY <1>5 DEF Sync, ReadList, NoList, ListFails, ReadManifest, TruncateManifest, WriteManifest,
           WriteFails, Working, Is
  <2>2. \E r : Goes(t, r)
    BY <1>5 DEF Sync, ReadList, NoList, ListFails, ReadManifest, TruncateManifest, WriteManifest,
           WriteFails, NextFile, To, Ends
  <2>. QED
    BY <1>2, <1>3, <2>1, <2>2
<1>6. CASE Installs
  <2>1. tasks["install"].step # "none" /\ \E r : Goes("install", r)
    BY <1>6 DEF Installs, Stage, StageFails, Settle, SettleFails, Mark, MarkFails, MarkWrites,
                Working, Is,
           To, Ends
  <2>. QED
    BY <1>1, <1>2, <1>3, <2>1
<1>7. CASE Loads
  <2>1. tasks["load"].step # "none" /\ \E r : Goes("load", r)
    BY <1>7 DEF Loads, LoadImage, Working, Is, Ends
  <2>. QED
    BY <1>1, <1>2, <1>3, <2>1
<1>8. CASE PollLoad \/ PollInstall \/ PowerCut
  BY <1>1, <1>8 DEF OneTask, PollLoad, PollInstall, PowerCut, Goes, TypeOK
<1>9. ASSUME NEW kind, NEW f, StartInstall(kind, f) PROVE OneTask'
  BY <1>1, <1>9 DEF StartInstall, NewTask, Goes, IInv, Alone, TypeOK, OneTask
<1>10. CASE Launch
  BY <1>1, <1>10 DEF Launch, NewTask, Goes, TypeOK, OneTask
<1>11. CASE UNCHANGED tasks
  BY <1>11 DEF OneTask
<1>12. CASE \/ LaunchCopy \/ LaunchFails \/ RequestClose \/ AppEnds \/ \E d \in Data : OwnCopy(d)
            \/ Removal \/ Boot \/ UNCHANGED vars
  <2>1. CASE Removal
    BY <1>11, <2>1
       DEF Removal, Uninstall, UninstallWithData, Removes, RemovePapp, RemovePappFails,
           RemoveListing, RemoveData, RemoveDataFails, RemoveManifest, past
  <2>2. CASE ~Removal
    BY <1>11, <1>12, <2>2
       DEF LaunchCopy, LaunchFails, RequestClose, AppEnds, OwnCopy, Boot, vars, device
  <2>. QED
    BY <2>1, <2>2
<1>. QED
  BY <1>4, <1>5, <1>6, <1>7, <1>8, <1>9, <1>10, <1>12 DEF Next, Requests

LEMMA OneTaskHolds == ASSUME ~Overlap PROVE Spec => []OneTask
<1>1. Init => OneTask
  BY DEF Init, OneTask, Tasks
<1>2. IInv /\ OneTask /\ [Next]_vars => OneTask'
  BY OneTaskStep
<1>. QED
  BY <1>1, <1>2, Invariant, PTL DEF Spec

\* Without a launch during an install no file under its real name is ever
\* broken, whatever fails and whenever the power goes.
THEOREM NoBrokenFileAlone ==
  ASSUME ~Overlap
  PROVE  Spec => []NoBrokenFile
<1>1. OneTask => ~Meet
  <2>. SUFFICES ASSUME OneTask, NEW f PROVE ~\A t \in Tasks : Has(t, f)
    BY DEF Meet
  <2>. QED
    BY DEF OneTask, Has, Idle, Tasks
<1>. QED
  BY <1>1, OneTaskHolds, NoBrokenFileApart, PTL

(***************************************************************************)
(* An update never loses the app                                           *)
(***************************************************************************)

\* The install task is at the download of its .papp.
AtPapp == /\ tasks["install"].step \in {"connect", "receive", "publish", "drop", "settle"}
          /\ tasks["install"].file = 0

\* A copy of the app is kept: the old one as a backup for as long as it may have
\* to come back, and the new one once it settles.
Held ==
  /\ AppSurvives
  /\ AtPapp /\ tasks["install"].backedUp => backups[0] # "absent"
  /\ AtPapp /\ tasks["install"].step = "settle" /\ tasks["install"].ok => files[0] # "absent"

\* A step that leaves the install task and both copies alone.
LEMMA HeldKept ==
  ASSUME Held, tasks'["install"] = tasks["install"], had' = had,
         backups'[0] = backups[0], files[0] # "absent" => files'[0] # "absent"
  PROVE  Held'
  BY DEF Held, AtPapp, AppSurvives

\* A step away from the download, which leaves a copy.
LEMMA HeldAway == ASSUME ~AtPapp', AppSurvives' PROVE Held'
  BY DEF Held

LEMMA HeldInstalls == ASSUME IInv, Held, Installs PROVE Held'
<1>. USE FilesAssumption
<1>. DEFINE i == tasks["install"]
<1>1. TypeOK /\ "install" \in Tasks /\ 0 \in Files
  BY DEF IInv, Tasks, Files
<1>2. i.step # "none" /\ i \in Task /\ Fits("install", i) /\ i.file \in Files
  <2>1. i.step # "none"
    BY DEF Installs, Stage, StageFails, Settle, SettleFails, Mark, MarkFails, MarkWrites,
           Working, Is
  <2>. QED
    BY <1>1, <2>1, AtWork DEF Task
<1>3. CASE Stage
  <2>1. PICK b \in BOOLEAN : /\ Goes("install", [i EXCEPT !.step = "connect", !.backedUp = b])
                            /\ b = (files[i.file] # "absent")
    BY <1>3 DEF Stage
  <2> DEFINE r == [i EXCEPT !.step = "connect", !.backedUp = b]
  <2>2. /\ r \in Task /\ r.step = "connect" /\ r.file = i.file /\ r.backedUp = b
        /\ Goes("install", r)
    BY <1>2, <2>1 DEF Task, Steps
  <2> HIDE DEF r
  <2>3. tasks'["install"] = r
    BY <1>1, <2>2, GoesOK
  <2>4. CASE i.file = 0
    BY <1>1, <1>2, <1>3, <2>1, <2>2, <2>3, <2>4 DEF Stage, Held, AtPapp, AppSurvives, TypeOK
  <2>5. CASE i.file # 0
    BY <1>1, <1>2, <1>3, <2>1, <2>2, <2>3, <2>5 DEF Stage, Held, AtPapp, AppSurvives, TypeOK
  <2>. QED
    BY <2>4, <2>5
<1>4. ASSUME NEW b \in BOOLEAN, Ends("install", b) PROVE ~AtPapp'
  <2>1. tasks'["install"] = [i EXCEPT !.step = "done", !.ok = b]
    BY <1>1, <1>2, <1>4, EndsOK
  <2>. QED
    BY <1>2, <2>1 DEF AtPapp, Task
<1>5. ASSUME NEW s \in {"list", "mark", "marking"}, To("install", s) PROVE ~AtPapp'
  <2>1. s \in Steps
    BY DEF Steps
  <2>2. tasks'["install"] = [i EXCEPT !.step = s]
    BY <1>1, <1>2, <1>5, <2>1, ToOK
  <2>. QED
    BY <1>2, <2>2 DEF AtPapp, Task
<1>6. CASE StageFails
  <2>1. AppSurvives'
    BY <1>1, <1>2, <1>6 DEF StageFails, Held, AppSurvives, TypeOK
  <2>. QED
    BY <1>4, <1>6, <2>1, HeldAway DEF StageFails
<1>7. CASE Settle
  <2>1. ~AtPapp'
    BY <1>2, <1>4, <1>5, <1>7 DEF Settle, Task
  <2>2. CASE i.file = 0
    <3>1. i.step = "settle" /\ AtPapp
      BY <1>7, <2>2 DEF Settle, Working, Is, AtPapp
    <3>2. i.backedUp => backups[0] # "absent"
      BY <3>1 DEF Held
    <3>3. i.ok => files[0] # "absent"
      BY <3>1 DEF Held
    <3>4. AppSurvives'
      BY <1>1, <1>7, <2>2, <3>2, <3>3 DEF Settle, Held, AppSurvives, TypeOK
    <3>. QED
      BY <2>1, <3>4, HeldAway
  <2>3. CASE i.file # 0
    <3>1. AppSurvives'
      BY <1>1, <1>2, <1>7, <2>3 DEF Settle, Held, AppSurvives, TypeOK
    <3>. QED
      BY <2>1, <3>1, HeldAway
  <2>. QED
    BY <2>2, <2>3
<1>8. CASE Mark \/ MarkFails \/ MarkWrites
  <2>1. AppSurvives'
    BY <1>8 DEF Mark, MarkFails, MarkWrites, card, Held, AppSurvives
  <2>2. ~AtPapp'
    BY <1>4, <1>5, <1>8 DEF Mark, MarkFails, MarkWrites
  <2>. QED
    BY <2>1, <2>2, HeldAway
<1>9. CASE SettleFails
  <2>1. AppSurvives'
    <3>1. CASE i.file = 0
      <4>1. AtPapp /\ i.backedUp
        BY <1>9, <3>1 DEF SettleFails, Working, Is, AtPapp
      <4>. QED
        BY <1>9, <4>1 DEF SettleFails, Held, AppSurvives
    <3>2. CASE i.file # 0
      BY <1>1, <1>2, <1>9, <3>2 DEF SettleFails, Held, AppSurvives, TypeOK
    <3>. QED
      BY <3>1, <3>2
  <2>. QED
    BY <1>4, <1>9, <2>1, HeldAway DEF SettleFails
<1>. QED
  BY <1>3, <1>6, <1>7, <1>8, <1>9 DEF Installs

LEMMA HeldDownload == ASSUME IInv, Held, NEW t \in Tasks, Download(t) PROVE Held'
<1>. USE FilesAssumption
<1>. DEFINE k == tasks[t]
<1>1. TypeOK /\ "install" \in Tasks /\ 0 \in Files
  BY DEF IInv, Tasks, Files
<1>2. /\ k.step \in {"connect", "receive", "publish", "drop"} /\ k.step # "none"
      /\ k \in Task /\ k.file \in Files
  <2>1. k.step \in {"connect", "receive", "publish", "drop"}
    BY DEF Download, Connect, ConnectFails, Receive, ReceiveFails, ReceiveCancelled,
           Publish, PublishFails, Drop, Working, Is
  <2>. QED
    BY <2>1, AtWork DEF Task
<1>3. UNCHANGED <<backups, had>> /\ (files[0] # "absent" => files'[0] # "absent")
  BY <1>1, <1>2 DEF Download, Connect, ConnectFails, Receive, ReceiveFails,
                    ReceiveCancelled, Publish, PublishFails, Drop, Mine, card, TypeOK
<1>4. AppSurvives'
  BY <1>3 DEF Held, AppSurvives
<1>5. \/ /\ tasks'[t] = [k EXCEPT !.step = IF ForData(t) THEN "done" ELSE "settle", !.ok = FALSE]
         /\ \A u \in Tasks : u # t => tasks'[u] = tasks[u]
      \/ \E s \in {"drop", "receive", "publish", "record", "settle"} :
           /\ tasks'[t] = [k EXCEPT !.step = s]
           /\ \A u \in Tasks : u # t => tasks'[u] = tasks[u]
           /\ s = "settle" => Publish(t)
  <2>1. CASE Failed(t)
    BY <1>1, <1>2, <2>1, FailedOK
  <2>2. CASE ~Failed(t)
    <3>1. PICK s \in {"drop", "receive", "publish", "record", "settle"} :
            To(t, s) /\ (s = "settle" => Publish(t))
      BY <2>2 DEF Download, Connect, ConnectFails, Receive, ReceiveFails,
                  ReceiveCancelled, Publish, PublishFails, Drop
    <3>2. s \in Steps
      BY DEF Steps
    <3>. QED
      BY <1>1, <1>2, <3>1, <3>2, ToOK
  <2>. QED
    BY <2>1, <2>2
<1>6. CASE t = "load"
  BY <1>1, <1>3, <1>5, <1>6, HeldKept
<1>7. CASE t = "install"
  <2>1. /\ tasks'[t].file = k.file /\ tasks'[t].backedUp = k.backedUp
        /\ tasks'[t].step = "settle" /\ tasks'[t].ok => Publish(t)
    BY <1>2, <1>5 DEF Task
  <2>2. AtPapp' => AtPapp
    BY <1>2, <1>7, <2>1 DEF AtPapp
  <2>3. AtPapp' /\ tasks'["install"].backedUp => backups'[0] # "absent"
    BY <1>3, <1>7, <2>1, <2>2 DEF Held
  <2>4. Publish(t) /\ k.file = 0 => files'[0] # "absent"
    BY <1>1 DEF Publish, Mine, TypeOK
  <2>5. AtPapp' /\ tasks'["install"].step = "settle" /\ tasks'["install"].ok
          => files'[0] # "absent"
    BY <1>7, <2>1, <2>4 DEF AtPapp
  <2>. QED
    BY <1>4, <2>3, <2>5 DEF Held
<1>. QED
  BY <1>6, <1>7 DEF Tasks

LEMMA HeldSync == ASSUME IInv, Held, NEW t \in Tasks, Sync(t) PROVE Held'
<1>1. UNCHANGED <<files, backups, had>> /\ \A u \in Tasks : u # t => tasks'[u] = tasks[u]
  BY SyncTask
<1>2. AppSurvives'
  BY <1>1 DEF Held, AppSurvives
<1>3. \/ tasks'[t].step \notin {"connect", "receive", "publish", "drop", "settle"}
      \/ tasks'[t].file \in Data
  BY SyncTask DEF GoesOn, Synced
<1>4. CASE t = "load"
  BY <1>1, <1>4, HeldKept DEF Tasks
<1>5. CASE t = "install"
  <2>1. \A d \in Data : d # 0
    BY FilesAssumption DEF Data
  <2>2. ~AtPapp'
    BY <1>3, <1>5, <2>1 DEF AtPapp
  <2>. QED
    BY <1>2, <2>2, HeldAway
<1>. QED
  BY <1>4, <1>5 DEF Tasks

\* Every step leaves a copy of the app, until it is uninstalled.
LEMMA HeldStep == IInv /\ Held /\ [Next]_vars => Held'
<1>. SUFFICES ASSUME IInv, Held, [Next]_vars PROVE Held'
  OBVIOUS
<1>. USE FilesAssumption
<1>1. TypeOK /\ "install" \in Tasks /\ "load" \in Tasks /\ 0 \in Files
      /\ \A d \in Data : d # 0
  BY DEF IInv, Tasks, Files, Data
<1>2. ASSUME UNCHANGED <<files, backups, had>>,
tasks'["install"].step = "stage" \/ tasks'["install"] = Idle
      PROVE  Held'
  BY <1>2 DEF Held, AtPapp, AppSurvives, Idle
<1>3. ASSUME NEW kind \in {"catalog", "direct", "upload"}, NEW f \in Files, StartInstall(kind, f)
      PROVE Held'
  <2>1. tasks'["install"].step = "stage" /\ UNCHANGED <<files, backups, had>>
    BY <1>1, <1>3 DEF StartInstall, NewTask, Goes, TypeOK, card
  <2>. QED
    BY <1>2, <2>1
<1>4. CASE PollInstall
  <2>1. tasks'["install"] = Idle /\ UNCHANGED <<files, backups, had>>
    BY <1>1, <1>4 DEF PollInstall, Goes, TypeOK, card
  <2>. QED
    BY <1>2, <2>1
<1>5. CASE Launch \/ PollLoad \/ Loads
  <2>1. tasks'["install"] = tasks["install"] /\ UNCHANGED <<files, backups, had>>
    BY <1>1, <1>5 DEF Launch, NewTask, PollLoad, Loads, LoadImage, Ends, Goes, TypeOK, card
  <2>. QED
    BY <2>1, HeldKept
<1>6. CASE LaunchCopy \/ LaunchFails \/ RequestClose \/ AppEnds \/ Boot \/ UNCHANGED vars
  BY <1>6, HeldKept DEF LaunchCopy, LaunchFails, RequestClose, AppEnds, Boot, vars, card
<1>7. ASSUME NEW d \in Data, OwnCopy(d) PROVE Held'
  BY <1>1, <1>7, HeldKept DEF OwnCopy, TypeOK
<1>8. CASE Removal
  <2>1. CASE RemovePapp
    <3>1. tasks'["install"] = Idle
      BY <2>1 DEF RemovePapp, Removing, NotRemoving, IInv, Alone
    <3>2. ~AtPapp'
      BY <3>1 DEF AtPapp, Idle
    <3>3. AppSurvives'
      BY <2>1 DEF RemovePapp, AppSurvives
    <3>. QED
      BY <3>2, <3>3, HeldAway
  <2>2. CASE ~RemovePapp
    BY <1>1, <1>8, <2>2, HeldKept
       DEF Removal, Uninstall, UninstallWithData, Removes, RemovePappFails, RemoveListing,
           RemoveManifest, RemoveData,
           RemoveDataFails, card, TypeOK
  <2>. QED
    BY <2>1, <2>2
<1>9. CASE PowerCut
  <2>1. tasks'["install"] = Idle /\ UNCHANGED <<files, backups, had>>
    BY <1>1, <1>9 DEF PowerCut, card
  <2>. QED
    BY <1>2, <2>1
<1>. QED
  BY <1>3, <1>4, <1>5, <1>6, <1>7, <1>8, <1>9, HeldInstalls, HeldDownload, HeldSync
     DEF Next, Requests

\* An update never loses the app, whatever fails and whenever the power goes,
\* even with a launch while it runs.
THEOREM AppNeverLost == Spec => []AppSurvives
<1>1. Init => Held
  <2>. SUFFICES ASSUME Init PROVE Held
    OBVIOUS
  <2>1. tasks["install"] = Idle
    BY DEF Init, Tasks
  <2>2. ~AtPapp
    BY <2>1 DEF AtPapp, Idle
  <2>3. AppSurvives
    BY DEF Init, AppSurvives
  <2>. QED
    BY <2>2, <2>3 DEF Held
<1>2. IInv /\ Held /\ [Next]_vars => Held'
  BY HeldStep
<1>3. Held => AppSurvives
  BY DEF Held
<1>. QED
  BY <1>1, <1>2, <1>3, Invariant, PTL DEF Spec

(***************************************************************************)
(* The app comes back under its real name                                  *)
(***************************************************************************)

\* Until the power is cut or a backup gets stuck, the app is under its real name, or
\* the install task is on its way back to the copy it has put aside.
Back ==
  had /\ mishaps \cap {"cut", "stuck"} = {} =>
    files[0] # "absent" \/ (AtPapp /\ tasks["install"].backedUp)

\* A step that leaves the install task alone, and its app where it is.
LEMMA BackKept ==
  ASSUME Back, tasks'["install"] = tasks["install"], had' => had, mishaps \subseteq mishaps',
         files[0] # "absent" => files'[0] # "absent"
  PROVE  Back'
  BY DEF Back, AtPapp

LEMMA BackInstalls == ASSUME IInv, Held, Back, Installs PROVE Back'
<1>. USE FilesAssumption
<1>. DEFINE i == tasks["install"]
<1>0. CASE SettleFails
  BY <1>0 DEF SettleFails, Back
<1>1. TypeOK /\ "install" \in Tasks /\ 0 \in Files /\ (UNCHANGED mishaps \/ SettleFails)
  <2>1. UNCHANGED mishaps \/ SettleFails
    BY DEF Installs, Stage, StageFails, Settle, Mark, MarkFails, MarkWrites
  <2>. QED
    BY <2>1 DEF IInv, Tasks, Files
<1>2. /\ i.step \in {"stage", "settle", "mark", "marking"}
      /\ i \in Task /\ Fits("install", i) /\ i.file \in Files
  <2>1. i.step \in {"stage", "settle", "mark", "marking"}
    BY DEF Installs, Stage, StageFails, Settle, SettleFails, Mark, MarkFails, MarkWrites,
           Working, Is
  <2>. QED
    BY <1>1, <2>1, AtWork DEF Task
<1>3. CASE Stage
  <2>1. PICK b \in BOOLEAN : /\ Goes("install", [i EXCEPT !.step = "connect", !.backedUp = b])
                            /\ b = (files[i.file] # "absent")
    BY <1>3 DEF Stage
  <2> DEFINE r == [i EXCEPT !.step = "connect", !.backedUp = b]
  <2>2. /\ r \in Task /\ r.step = "connect" /\ r.file = i.file /\ r.backedUp = b
        /\ Goes("install", r)
    BY <1>2, <2>1 DEF Task, Steps
  <2> HIDE DEF r
  <2>3. tasks'["install"] = r
    BY <1>1, <2>2, GoesOK
  <2>4. ~AtPapp /\ had' = had
    BY <1>3 DEF Stage, Working, Is, AtPapp
  <2>5. CASE i.file = 0
    BY <1>0, <1>1, <2>1, <2>2, <2>3, <2>4, <2>5 DEF Back, AtPapp
  <2>6. CASE i.file # 0
    BY <1>0, <1>1, <1>2, <1>3, <2>4, <2>6 DEF Stage, Back, TypeOK
  <2>. QED
    BY <2>5, <2>6
<1>4. CASE Settle
  <2>1. CASE i.file = 0
    <3>1. i.step = "settle" /\ AtPapp
      BY <1>4, <2>1 DEF Settle, Working, Is, AtPapp
    <3>2. i.backedUp => backups[0] # "absent"
      BY <3>1 DEF Held
    <3>3. i.ok => files[0] # "absent"
      BY <3>1 DEF Held
    <3>4. had' /\ mishaps \cap {"cut", "stuck"} = {} => files'[0] # "absent"
      BY <1>1, <1>4, <2>1, <3>1, <3>2, <3>3 DEF Settle, Held, Back, TypeOK
    <3>. QED
      BY <1>0, <1>1, <3>4 DEF Back
  <2>2. CASE i.file # 0
    BY <1>0, <1>1, <1>2, <1>4, <2>2 DEF Settle, Back, AtPapp, TypeOK
  <2>. QED
    BY <2>1, <2>2
<1>5. CASE StageFails \/ Mark \/ MarkFails \/ MarkWrites
  <2>1. ~AtPapp /\ UNCHANGED <<files, had>>
    BY <1>5 DEF StageFails, Mark, MarkFails, MarkWrites, Working, Is, AtPapp, card
  <2>. QED
    BY <1>0, <1>1, <2>1 DEF Back
<1>. QED
  BY <1>0, <1>3, <1>4, <1>5 DEF Installs

LEMMA BackDownload == ASSUME IInv, Back, NEW t \in Tasks, Download(t) PROVE Back'
<1>1. UNCHANGED past /\ (files[0] # "absent" => files'[0] # "absent")
  <2>1. CASE Publish(t)
    BY <2>1 DEF Publish, CanRename, Mine, IInv, TypeOK
  <2>2. CASE ~Publish(t)
    BY <2>2, DownloadTask
  <2>. QED
    BY <2>1, <2>2, DownloadTask
<1>2. CASE t = "load"
  <2>1. tasks'["install"] = tasks["install"]
    BY <1>2, DownloadTask DEF Tasks
  <2>. QED
    BY <1>1, <2>1, BackKept
<1>3. CASE t = "install"
  <2>1. AtPapp /\ tasks["install"].backedUp => AtPapp' /\ tasks'["install"].backedUp
    BY <1>3, DownloadTask DEF AtPapp, DownloadSteps, ForData
  <2>. QED
    BY <1>1, <2>1 DEF Back
<1>. QED
  BY <1>2, <1>3 DEF Tasks

LEMMA BackSync == ASSUME IInv, Back, NEW t \in Tasks, Sync(t) PROVE Back'
<1>1. UNCHANGED <<files, had>> /\ mishaps \subseteq mishaps'
  BY SyncTask DEF Sync, ReadList, NoList, ListFails, ReadManifest, Reading, TruncateManifest,
                  WriteManifest, WriteFails
<1>2. CASE t = "load"
  <2>1. tasks'["install"] = tasks["install"]
    BY <1>2, SyncTask DEF Tasks
  <2>. QED
    BY <1>1, <2>1, BackKept
<1>3. CASE t = "install"
  <2>1. ~AtPapp
    BY <1>3 DEF Sync, ReadList, NoList, ListFails, ReadManifest, TruncateManifest, WriteManifest,
                WriteFails, Working, Is, AtPapp
  <2>. QED
    BY <1>1, <2>1 DEF Back
<1>. QED
  BY <1>2, <1>3 DEF Tasks

LEMMA BackStep == IInv /\ Held /\ Back /\ [Next]_vars => Back'
<1>. SUFFICES ASSUME IInv, Held, Back, [Next]_vars PROVE Back'
  OBVIOUS
<1>. USE FilesAssumption
<1>1. TypeOK /\ "install" \in Tasks /\ "load" \in Tasks /\ 0 \in Files
      /\ \A d \in Data : d # 0
  BY DEF IInv, Tasks, Files, Data
<1>2. ASSUME NEW kind \in {"catalog", "direct", "upload"}, NEW f \in Files, StartInstall(kind, f)
      PROVE Back'
  <2>1. UNCHANGED <<files, past>> /\ ~AtPapp
    BY <1>2 DEF StartInstall, NewTask, card, AtPapp, Idle
  <2>. QED
    BY <2>1 DEF Back
<1>3. CASE PollInstall
  <2>1. UNCHANGED <<files, past>> /\ ~AtPapp
    BY <1>3 DEF PollInstall, card, AtPapp, Is
  <2>. QED
    BY <2>1 DEF Back
<1>4. CASE Launch \/ PollLoad \/ Loads
  <2>1. tasks'["install"] = tasks["install"] /\ UNCHANGED <<files, past>>
    BY <1>1, <1>4 DEF Launch, NewTask, PollLoad, Loads, LoadImage, Ends, Goes, TypeOK, card
  <2>. QED
    BY <2>1, BackKept
<1>5. CASE LaunchCopy \/ LaunchFails \/ RequestClose \/ AppEnds \/ Boot \/ UNCHANGED vars
  <2>1. UNCHANGED <<tasks, files, past>>
    BY <1>5 DEF LaunchCopy, LaunchFails, RequestClose, AppEnds, Boot, vars, card
  <2>. QED
    BY <2>1, BackKept
<1>6. ASSUME NEW d \in Data, OwnCopy(d) PROVE Back'
  BY <1>1, <1>6, BackKept DEF OwnCopy, TypeOK
<1>7. CASE Removal
  <2>1. CASE RemovePapp
    BY <2>1 DEF RemovePapp, Back
  <2>2. CASE ~RemovePapp
    BY <1>1, <1>7, <2>2, BackKept
       DEF Removal, Uninstall, UninstallWithData, Removes, Reading, RemovePappFails,
           RemoveListing, RemoveManifest,
           RemoveData, RemoveDataFails, card, TypeOK
  <2>. QED
    BY <2>1, <2>2
<1>8. CASE PowerCut
  BY <1>8 DEF PowerCut, Back
<1>. QED
  BY <1>2, <1>3, <1>4, <1>5, <1>6, <1>7, <1>8, BackInstalls, BackDownload, BackSync
     DEF Next, Requests

\* However the download of an install ends, and whatever else loads meanwhile: when
\* the install is over the app is under its real name, unless the power was cut or the
\* card refused to rename the backup back.
THEOREM AppComesBack == Spec => []AppReturns
<1>1. Init => Held /\ Back
  <2>. SUFFICES ASSUME Init PROVE Held /\ Back
    OBVIOUS
  <2>1. tasks["install"] = Idle
    BY DEF Init, Tasks
  <2>2. ~AtPapp
    BY <2>1 DEF AtPapp, Idle
  <2>. QED
    BY <2>2 DEF Init, Held, Back, AppSurvives
<1>2. IInv /\ Held /\ Back /\ [Next]_vars => Held' /\ Back'
  BY HeldStep, BackStep
<1>3. Back => AppReturns
  BY DEF Back, AppReturns, AtPapp, Idle
<1>. QED
  BY <1>1, <1>2, <1>3, Invariant, PTL DEF Spec

(***************************************************************************)
(* No app starts without its data                                          *)
(***************************************************************************)

\* What the load still has to fetch is on its list, from when it has read that.
DataComes ==
  LET k == tasks["load"]
  IN k # Idle =>
       /\ k.step \in DownloadSteps \cup {"list", "record", "truncate", "write", "image", "done"}
       /\ k.step \in DownloadSteps => k.file \in Data /\ Gone \subseteq k.missing \cup {k.file}
       /\ k.step \in {"record", "truncate", "write"} => Gone \subseteq k.missing
       /\ (k.step = "image" \/ (k.step = "done" /\ k.ok)) /\ k.listed => Gone = {}
       /\ k.step = "list" => ~k.listed

\* Whatever the load task does itself.
LEMMA DataDownload == ASSUME IInv, DataComes, Download("load") PROVE DataComes'
<1>. USE FilesAssumption
<1>. DEFINE k == tasks["load"]
<1>1. "load" \in Tasks /\ TypeOK /\ \A d \in Data : d # 0
  BY DEF Tasks, IInv, Data
<1>2. k.step \in DownloadSteps /\ k \in Task /\ Fits("load", k) /\ k # Idle
  BY <1>1, DownloadTask DEF Idle, DownloadSteps
<1>3. k.file \in Data /\ Gone \subseteq k.missing \cup {k.file} /\ ForData("load")
  BY <1>1, <1>2 DEF DataComes, ForData, Fits
<1>4. /\ tasks'["load"].step \in DownloadSteps \cup {"record", "done"}
      /\ tasks'["load"].step = "done" => ~tasks'["load"].ok
      /\ tasks'["load"].file = k.file /\ tasks'["load"].missing = k.missing
      /\ tasks'["load"].step = "record" <=> Publish("load")
  BY <1>1, <1>3, DownloadTask DEF DownloadSteps
<1>5. CASE Publish("load")
  <2>1. \E c \in {"fetched", "broken"} : files' = [files EXCEPT ![k.file] = c]
    BY <1>2, <1>5 DEF Publish, Fits
  <2>2. Gone' \subseteq Gone \ {k.file}
    <3>1. k.file \in Files /\ Data \subseteq Files /\ files \in [Files -> Contents]
      BY <1>1, <1>2 DEF Task, Data, Files, TypeOK
    <3>. QED
      BY <2>1, <3>1 DEF Gone
  <2>. QED
    BY <1>3, <1>4, <1>5, <2>2 DEF DataComes, DownloadSteps
<1>6. CASE ~Publish("load")
  <2>1. Gone' = Gone
    BY <1>1, <1>6, DownloadTask DEF Gone
  <2>. QED
    BY <1>3, <1>4, <1>6, <2>1 DEF DataComes, DownloadSteps
<1>. QED
  BY <1>5, <1>6

LEMMA DataSync == ASSUME IInv, DataComes, Sync("load") PROVE DataComes'
<1>. DEFINE k == tasks["load"]
<1>1. "load" \in Tasks
  BY DEF Tasks
<1>2. Gone' = Gone
  BY <1>1, SyncTask DEF Gone
<1>3. ASSUME NEW missing, GoesOn("load", missing), Gone \subseteq missing PROVE DataComes'
  BY <1>2, <1>3 DEF GoesOn, Synced, DataComes, DownloadSteps
<1>4. k # Idle
  <2>1. k \in Task
    BY <1>1, SyncTask
  <2>. QED
    BY <2>1 DEF Task, Idle, Steps
<1>5. CASE ListFails("load") /\ tasks'["load"].step = "done" /\ ~tasks'["load"].ok
  BY <1>5 DEF DataComes, DownloadSteps
<1>6. CASE ReadList("load") /\ GoesOn("load", Gone)
  BY <1>3, <1>6
<1>10. CASE NoList("load") /\ tasks'["load"].step = Synced("load")
            /\ tasks'["load"].listed = k.listed
  BY <1>4, <1>10 DEF NoList, Working, Is, Synced, DataComes, DownloadSteps
<1>7. CASE (WriteManifest("load") \/ WriteFails("load")) /\ GoesOn("load", k.missing)
  <2>1. Gone \subseteq k.missing
    BY <1>4, <1>7 DEF WriteManifest, WriteFails, Working, Is, DataComes
  <2>. QED
    BY <1>3, <1>7, <2>1
<1>8. CASE /\ ReadManifest("load") /\ tasks'["load"].step = "truncate"
           /\ tasks'["load"].missing = k.missing
  <2>1. Gone \subseteq k.missing
    BY <1>4, <1>8 DEF ReadManifest, Working, Is, DataComes
  <2>. QED
    BY <1>2, <1>8, <2>1 DEF DataComes, DownloadSteps
<1>9. CASE /\ TruncateManifest("load") /\ tasks'["load"].step = "write"
           /\ tasks'["load"].missing = k.missing
  <2>1. Gone \subseteq k.missing
    BY <1>4, <1>9 DEF TruncateManifest, Working, Is, DataComes
  <2>. QED
    BY <1>2, <1>9, <2>1 DEF DataComes, DownloadSteps
<1>. QED
  BY <1>1, <1>5, <1>6, <1>7, <1>8, <1>9, <1>10, SyncTask

\* An upload and a launch of the same app are at work at the same time.
UploadMeets ==
  tasks["load"] # Idle /\ tasks["install"] # Idle /\ tasks["install"].kind = "upload"

\* A step that is not the load task's, and takes no data file away.
LEMMA DataKept ==
  ASSUME DataComes, tasks'["load"] = tasks["load"], Gone' \subseteq Gone PROVE DataComes'
  BY DEF DataComes

\* Whatever the install task does beside a load, an upload apart.
LEMMA DataInstall ==
  ASSUME IInv, DataComes, ~UploadMeets, tasks["load"] # Idle,
         Installs \/ Download("install") \/ Sync("install")
  PROVE  DataComes'
<1>. USE FilesAssumption
<1>. DEFINE i == tasks["install"]
<1>1. /\ TypeOK /\ Data \subseteq Files /\ files \in [Files -> Contents]
      /\ "install" \in Tasks /\ "load" \in Tasks /\ \A d \in Data : d # 0
  BY DEF IInv, TypeOK, Tasks, Data, Files
<1>2. CASE Installs
  <2>1. i.step \in {"stage", "settle", "mark", "marking"} /\ i.step # "none"
    BY <1>2 DEF Installs, Stage, StageFails, Settle, SettleFails, Mark, MarkFails, MarkWrites,
                Working, Is
  <2>2. i \in Task /\ Fits("install", i) /\ i # Idle
    BY <1>1, <2>1, AtWork
  <2>3. i.kind # "upload"
    BY <2>2 DEF UploadMeets
  <2>4. i.step \in {"stage", "settle"} => i.file = 0
    BY <2>2, <2>3 DEF Fits, Task, Kinds
  <2>5. \/ files' = files
        \/ i.file = 0 /\ \E c : files' = [files EXCEPT ![i.file] = c]
    BY <1>2, <2>4 DEF Installs, Stage, StageFails, Settle, SettleFails, Mark, MarkFails, MarkWrites,
                      Working, Is, card
  <2>6. Gone' = Gone
    BY <1>1, <2>5 DEF Gone
  <2>7. tasks'["load"] = tasks["load"]
    BY <1>1, <1>2 DEF Installs, Stage, StageFails, Settle, SettleFails, Mark, MarkFails, MarkWrites,
                      Goes, To, Ends, TypeOK
  <2>. QED
    BY <2>6, <2>7, DataKept
<1>3. CASE Download("install")
  <2>1. tasks'["load"] = tasks["load"] /\ i \in Task /\ (~Publish("install") => UNCHANGED files)
    BY <1>1, <1>3, DownloadTask
  <2>2. Publish("install") => \E c \in Contents \ {"absent"} :
                                files' = [files EXCEPT ![i.file] = c]
    BY DEF Publish, Mine, Contents
  <2>3. i.file \in Files
    BY <2>1 DEF Task
  <2>4. Gone' \subseteq Gone
    BY <1>1, <2>1, <2>2, <2>3 DEF Gone
  <2>. QED
    BY <2>1, <2>4, DataKept
<1>4. CASE Sync("install")
  <2>1. tasks'["load"] = tasks["load"] /\ Gone' = Gone
    BY <1>1, <1>4, SyncTask DEF Gone
  <2>. QED
    BY <2>1, DataKept
<1>. QED
  BY <1>2, <1>3, <1>4

\* While an app loads, the loop only polls, and the install task may be at work.
LEMMA WhileLoading ==
  ASSUME IInv, tasks["load"] # Idle, Next
  PROVE  \/ PollLoad \/ PollInstall \/ RequestClose \/ Loads \/ Download("load") \/ Sync("load")
         \/ Installs \/ Download("install") \/ Sync("install") \/ PowerCut
<1>1. launched = "loading" /\ powered /\ removing = NotRemoving
  BY DEF IInv, Alone, TypeOK, Tasks
<1>2. ~Removal
  BY <1>1 DEF Removal, Uninstall, UninstallWithData, Removes, RemovePapp, RemovePappFails,
              RemoveListing,
              RemoveManifest, RemoveData, RemoveDataFails, Removing, NotRemoving
<1>3. Requests => PollLoad \/ PollInstall \/ RequestClose
  BY <1>1 DEF Requests, StartInstall, Launch, LaunchCopy, LaunchFails, AppEnds, OwnCopy
<1>4. ~Boot
  BY <1>1 DEF Boot
<1>. QED
  BY <1>2, <1>3, <1>4 DEF Next, Tasks

LEMMA DataStep == IInv /\ DataComes /\ ~UploadMeets /\ [Next]_vars => DataComes'
<1>. SUFFICES ASSUME IInv, DataComes, ~UploadMeets, [Next]_vars PROVE DataComes'
  OBVIOUS
<1>1. TypeOK /\ "load" \in Tasks
  BY DEF IInv, Tasks
<1>2. ASSUME tasks'["load"] = Idle PROVE DataComes'
  BY <1>2 DEF DataComes
<1>3. ASSUME tasks'["load"] = tasks["load"], UNCHANGED files PROVE DataComes'
  BY <1>3 DEF DataComes, Gone
<1>4. CASE UNCHANGED vars
  BY <1>3, <1>4 DEF vars, card
<1>5. CASE Next /\ tasks["load"] # Idle
  <2>1. CASE PollLoad \/ PowerCut
    BY <1>1, <1>2, <2>1 DEF PollLoad, PowerCut, Goes, TypeOK
  <2>2. CASE RequestClose \/ PollInstall
    BY <1>1, <1>3, <2>2 DEF RequestClose, PollInstall, Goes, TypeOK, card
  <2>3. CASE Loads
    <3>1. PICK ok \in BOOLEAN : LoadImage(ok)
      BY <2>3 DEF Loads
    <3>2. /\ tasks["load"].step = "image" /\ tasks["load"].step # "none"
          /\ Ends("load", ok) /\ UNCHANGED files
      BY <3>1 DEF LoadImage, Working, Is, card
    <3>3. tasks'["load"] = [tasks["load"] EXCEPT !.step = "done", !.ok = ok]
      BY <1>1, <3>2, EndsOK
    <3>4. tasks'["load"].step = "done"
      BY <1>1, <3>2, <3>3, BusyTask DEF Task
    <3>5. tasks'["load"].listed = tasks["load"].listed
      BY <1>1, <3>2, <3>3, BusyTask DEF Task
    <3>6. tasks["load"].listed => Gone' = {}
      BY <1>5, <3>2 DEF DataComes, Gone
    <3>. QED
      BY <3>4, <3>5, <3>6 DEF DataComes, DownloadSteps
  <2>. QED
    BY <1>5, <2>1, <2>2, <2>3, WhileLoading, DataDownload, DataSync, DataInstall
<1>6. CASE Next /\ tasks["load"] = Idle
  <2>1. CASE Launch
    <3> DEFINE r == [step |-> "list", kind |-> "stream", file |-> 0, ok |-> TRUE,
                     backedUp |-> FALSE, listed |-> FALSE, missing |-> {}, seen |-> {}]
    <3>1. tasks'["load"] = r
      BY <1>1, <2>1 DEF Launch, NewTask, Goes, TypeOK
    <3>. QED
      BY <3>1 DEF DataComes, DownloadSteps
  <2>2. CASE ~Launch
    <3>1. ~Loads /\ ~Download("load") /\ ~Sync("load")
      BY <1>6 DEF Loads, LoadImage, Is, Idle, Working,
                  Download, Connect, ConnectFails, Receive, ReceiveFails, ReceiveCancelled,
                  Publish, PublishFails, Drop, Sync, ReadList, NoList, ListFails, ReadManifest,
                  TruncateManifest, WriteManifest, WriteFails
    <3>2. CASE Download("install") \/ Sync("install")
      BY <1>2, <1>6, <3>2, DownloadTask, SyncTask DEF Tasks
    <3>3. CASE Requests
      BY <1>1, <1>2, <1>6, <2>2, <3>3
         DEF Requests, StartInstall, NewTask, LaunchCopy, LaunchFails, PollLoad, PollInstall,
             RequestClose, AppEnds, OwnCopy, Goes, TypeOK
    <3>4. CASE Removal
      BY <1>2, <1>6, <3>4 DEF Removal, Uninstall, UninstallWithData, Removes, RemovePapp,
                              RemovePappFails, RemoveListing,
                              RemoveManifest, RemoveData, RemoveDataFails
    <3>5. CASE Installs
      BY <1>1, <1>2, <1>6, <3>5 DEF Installs, Stage, StageFails, Settle, SettleFails, Mark,
                                    MarkFails,
                                    MarkWrites, Goes, To, Ends, TypeOK
    <3>6. CASE PowerCut \/ Boot
      BY <1>1, <1>2, <1>6, <3>6 DEF PowerCut, Boot
    <3>. QED
      BY <1>6, <2>2, <3>1, <3>2, <3>3, <3>4, <3>5, <3>6 DEF Next, Tasks
  <2>. QED
    BY <2>1, <2>2
<1>. QED
  BY <1>4, <1>5, <1>6

\* Launches may overlap installs: as long as none is under way together with an upload
\* to the same app, no streamed app that has a data list is started before all the data
\* on it is there, whichever of its downloads have failed.
THEOREM NoStartWithoutDataApart == Spec /\ []~UploadMeets => StartsWithData
<1> DEFINE Start == launched = "loading" /\ launched' = "running" /\ tasks["load"].listed =>
                      \A d \in Data : files[d] # "absent"
<1>1. Init => DataComes
  BY DEF Init, Tasks, DataComes
<1>2. IInv /\ DataComes /\ ~UploadMeets /\ [Next]_vars => DataComes'
  BY DataStep
<1>3. IInv /\ DataComes /\ [Next]_vars => [Start]_vars
  <2>. SUFFICES ASSUME IInv, DataComes, Next, launched = "loading", launched' = "running",
                       tasks["load"].listed
                PROVE  \A d \in Data : files[d] # "absent"
    OBVIOUS
  <2>1. PollLoad
    BY DEF Next, Requests, StartInstall, Launch, LaunchCopy, LaunchFails, PollInstall,
           RequestClose, AppEnds, OwnCopy, Removal, Uninstall, UninstallWithData, Removes,
           RemovePapp, RemovePappFails,
           RemoveListing, RemoveManifest, RemoveData, RemoveDataFails,
           Installs, Stage, StageFails, Settle, SettleFails, Mark, MarkFails, MarkWrites,
           Loads, LoadImage, PowerCut, Boot, device,
           Download, Connect, ConnectFails, Receive, ReceiveFails, ReceiveCancelled,
           Publish, PublishFails, Drop, Sync, ReadList, NoList, ListFails, ReadManifest,
           TruncateManifest, WriteManifest, WriteFails
  <2>2. tasks["load"].step = "done" /\ tasks["load"].ok /\ tasks["load"] # Idle
    BY <2>1 DEF PollLoad, Is, Idle
  <2>. QED
    BY <2>2 DEF DataComes, Gone
<1>. QED
  BY <1>1, <1>2, <1>3, Invariant, PTL DEF Spec, StartsWithData

\* Without a launch during an install, no streamed app that has a data list is started
\* before all the data on it is there, whichever of its downloads have failed.
THEOREM NoStartWithoutData ==
  ASSUME ~Overlap
  PROVE  Spec => StartsWithData
<1>1. OneTask => ~UploadMeets
  BY DEF OneTask, UploadMeets
<1>. QED
  BY <1>1, OneTaskHolds, NoStartWithoutDataApart, PTL

(***************************************************************************)
(* Every download is recorded                                              *)
(***************************************************************************)

\* Task t is at the entry of data file d in the manifest.
Recording(t, d) ==
  \/ tasks[t].step \in {"record", "truncate"} /\ d = tasks[t].file
  \/ tasks[t].step = "write" /\ d \in tasks[t].seen \cup {tasks[t].file}

\* An upload has put the file aside that it replaces.
PutAside == /\ tasks["install"].step \in DownloadSteps \cup {"settle"}
            /\ tasks["install"].kind = "upload" /\ tasks["install"].backedUp

\* An uninstall that deletes the data too.
Deleting == removing # NotRemoving /\ (removing.step = "data" \/ removing.deleteData)

\* Data file d is in the manifest, or about to be.
Listed(d) == d \in manifest \/ \E t \in Tasks : Recording(t, d)

\* Both tasks have read the manifest and are about to write it.
RecordMeet == \A t \in Tasks : tasks[t].step \in {"truncate", "write"}

\* What was fetched is in the manifest or about to be: what a task has read of it
\* covers what it is about to write over, so is a file put aside, and an
\* uninstall deletes the rest before it deletes the manifest.
Ledger ==
  /\ \A t \in Tasks : tasks[t].step \in {"truncate", "write"} => manifest \subseteq tasks[t].seen
  /\ \A d \in Data : files[d] = "fetched" => Listed(d)
  /\ PutAside /\ backups[tasks["install"].file] = "fetched" => Listed(tasks["install"].file)
  /\ Deleting => \A d \in Data : files[d] = "fetched" => d \in removing.rest

\* Nothing has happened by which a record of a download is lost.
Kept == mishaps \subseteq {"stuck"}

\* A step that leaves tasks and manifest alone, and fetches nothing.
LEMMA LedgerKept ==
  ASSUME Ledger, UNCHANGED <<tasks, backups, manifest, removing>>,
         \A d \in Data : files'[d] = "fetched" => files[d] = "fetched"
  PROVE  Ledger'
  BY DEF Ledger, Listed, Recording, PutAside, Deleting

\* A step of a task that is not at the manifest keeps what is listed.
LEMMA ListedKept ==
  ASSUME NEW t \in Tasks, \A u \in Tasks : u # t => tasks'[u] = tasks[u],
         tasks[t].step \notin {"record", "truncate", "write"}, UNCHANGED manifest
  PROVE  \A d : Listed(d) => Listed(d)'
  BY DEF Listed, Recording

\* No task at the manifest: what was fetched is in it.
LEMMA LedgerPlain ==
  ASSUME \A t \in Tasks : tasks[t].step \notin {"record", "truncate", "write"}
  PROVE  Ledger <=>
           /\ \A d \in Data : files[d] = "fetched" => d \in manifest
           /\ PutAside /\ backups[tasks["install"].file] = "fetched"
                => tasks["install"].file \in manifest
           /\ Deleting => \A d \in Data : files[d] = "fetched" => d \in removing.rest
  BY DEF Ledger, Listed, Recording

LEMMA LedgerDownload ==
  ASSUME IInv, Ledger, NEW t \in Tasks, Download(t) PROVE Ledger'
<1>. USE FilesAssumption
<1>. DEFINE k == tasks[t]
<1>1. /\ k.step \in DownloadSteps /\ k.step # "none" /\ k \in Task /\ Fits(t, k)
      /\ \A u \in Tasks : u # t => tasks'[u] = tasks[u]
      /\ tasks'[t].kind = k.kind /\ tasks'[t].file = k.file /\ tasks'[t].backedUp = k.backedUp
      /\ tasks'[t].step \in DownloadSteps \cup {"record", "settle", "done"}
      /\ tasks'[t].step = "record" => ForData(t) /\ Publish(t)
      /\ Publish(t) /\ ForData(t) => tasks'[t].step = "record"
      /\ ~Publish(t) => UNCHANGED files
      /\ UNCHANGED <<backups, manifest, removing>>
  BY DownloadTask DEF DownloadSteps
<1>2. removing = NotRemoving
  BY <1>1, AtWork
<1>3. \A d : Listed(d) => Listed(d)'
  BY <1>1, ListedKept DEF DownloadSteps
<1>4. tasks'[t].step \notin {"truncate", "write"}
  BY <1>1 DEF DownloadSteps
<1>5. \A d \in Data : files[d] = "fetched" => Listed(d)'
  BY <1>3 DEF Ledger
<1>6. \A d \in Data : files'[d] = "fetched" => Listed(d)'
  <2>1. CASE Publish(t)
    <3>1. CASE ForData(t)
      <4>1. PICK c : files' = [files EXCEPT ![k.file] = c]
        BY <2>1 DEF Publish
      <4>2. k.file \in Files /\ files \in [Files -> Contents] /\ Data \subseteq Files
        BY <1>1 DEF Task, IInv, TypeOK, Data, Files
      <4>. QED
        BY <1>1, <1>5, <2>1, <3>1, <4>1, <4>2 DEF Recording, Listed
    <3>2. CASE ~ForData(t)
      <4>1. k.kind = "upload" \/ k.file = 0
        BY <1>1, <3>2 DEF ForData, Fits, Task, Kinds
      <4>2. PICK c : /\ files' = [files EXCEPT ![k.file] = c]
                     /\ k.kind = "upload" => c # "fetched"
        BY <2>1 DEF Publish, Mine
      <4>3. k.file \in Files /\ files \in [Files -> Contents] /\ \A d \in Data : d # 0 /\ d \in Files
        BY <1>1 DEF Task, IInv, TypeOK, Data, Files
      <4>. QED
        BY <1>5, <4>1, <4>2, <4>3
    <3>. QED
      BY <3>1, <3>2
  <2>2. CASE ~Publish(t)
    BY <1>1, <1>5, <2>2
  <2>. QED
    BY <2>1, <2>2
<1>7. PutAside' => PutAside /\ tasks'["install"].file = tasks["install"].file
  BY <1>1 DEF PutAside, Tasks
<1>8. (PutAside /\ backups[tasks["install"].file] = "fetched" => Listed(tasks["install"].file))'
  BY <1>1, <1>3, <1>7 DEF Ledger
<1>9. \A u \in Tasks : tasks'[u].step \in {"truncate",
"write"} => manifest' \subseteq tasks'[u].seen
  BY <1>1, <1>4 DEF Ledger
<1>. QED
  BY <1>1, <1>2, <1>6, <1>8, <1>9 DEF Ledger, Deleting

LEMMA LedgerSync ==
  ASSUME IInv, Ledger, ~RecordMeet, NEW t \in Tasks, Sync(t), Kept'
  PROVE  Ledger'
<1>. DEFINE k == tasks[t]
            Covered == \A u \in Tasks : tasks[u].step \in {"truncate", "write"}
                                          => manifest \subseteq tasks[u].seen
<1>1. /\ k.step \in {"list", "record", "truncate", "write"} /\ k.step # "none"
      /\ ~WriteFails(t) /\ (\A records : Reading(records) => records = manifest)
  <2>1. k.step \in {"list", "record", "truncate", "write"} /\ k.step # "none"
    BY DEF Sync, ReadList, NoList, ListFails, ReadManifest, TruncateManifest, WriteManifest,
           WriteFails, Working, Is
  <2>2. ~WriteFails(t)
    BY DEF WriteFails, Kept
  <2>3. \A records : Reading(records) => records = manifest
    BY DEF Reading, Kept
  <2>. QED
    BY <2>1, <2>2, <2>3
<1>2. /\ \A u \in Tasks : u # t => tasks'[u] = tasks[u]
      /\ removing = NotRemoving /\ k \in Task /\ tasks'[t].kind = k.kind
      /\ k.kind \in {"catalog", "stream"}
      /\ UNCHANGED <<files, backups, removing>>
  BY <1>1, AtWork, SyncTask DEF Fits
<1>3. PutAside' => PutAside /\ tasks'["install"] = tasks["install"]
  BY <1>2 DEF PutAside, Tasks
<1>4. Covered
  BY DEF Ledger
<1>5. SUFFICES Covered' /\ \A d : Listed(d) => Listed(d)'
  BY <1>2, <1>3 DEF Ledger, Deleting
<1>6. ASSUME NEW missing, GoesOn(t, missing)
      PROVE  tasks'[t].step \notin {"truncate", "write"}
  BY <1>6 DEF GoesOn, Synced
<1>7. ASSUME k.step = "list", UNCHANGED manifest, tasks'[t].step \notin {"truncate", "write"}
      PROVE  Covered' /\ \A d : Listed(d) => Listed(d)'
  BY <1>2, <1>4, <1>7, ListedKept
<1>8. CASE ListFails(t) /\ tasks'[t].step = "done"
  BY <1>7, <1>8 DEF ListFails, Working, Is, card
<1>9. CASE ReadList(t) /\ GoesOn(t, Gone)
  BY <1>6, <1>7, <1>9 DEF ReadList, Working, Is, card
<1>13. CASE NoList(t) /\ tasks'[t].step = Synced(t)
  BY <1>7, <1>13 DEF NoList, Synced, Working, Is, card
<1>10. CASE /\ ReadManifest(t) /\ tasks'[t].step = "truncate" /\ Reading(tasks'[t].seen)
            /\ tasks'[t].file = k.file
  <2>1. UNCHANGED manifest /\ k.step = "record"
    BY <1>10 DEF ReadManifest, Working, Is, card
  <2>2. Covered'
    BY <1>1, <1>2, <1>4, <1>10, <2>1
  <2>3. \A u \in Tasks : \A d : Recording(u, d) => Recording(u, d)'
    BY <1>2, <1>10, <2>1 DEF Recording
  <2>. QED
    BY <2>1, <2>2, <2>3 DEF Listed
<1>11. CASE /\ TruncateManifest(t) /\ tasks'[t].step = "write" /\ tasks'[t].seen = k.seen
            /\ tasks'[t].file = k.file
  <2>1. manifest' = {} /\ k.step = "truncate"
    BY <1>11 DEF TruncateManifest, Working, Is
  <2>2. \A u \in Tasks : \A d : Recording(u, d) => Recording(u, d)'
    BY <1>2, <1>11, <2>1 DEF Recording
  <2>3. \A d \in manifest : Recording(t, d)'
    BY <1>4, <1>11, <2>1 DEF Recording
  <2>. QED
    BY <2>1, <2>2, <2>3 DEF Listed
<1>12. CASE WriteManifest(t) /\ GoesOn(t, k.missing)
  <2>1. k.step = "write" /\ manifest' = k.seen \cup {k.file}
    BY <1>12 DEF WriteManifest, Working, Is
  <2>2. \A u \in Tasks : tasks'[u].step \notin {"truncate", "write"}
    <3>1. PICK v \in Tasks : tasks[v].step \notin {"truncate", "write"}
      BY DEF RecordMeet
    <3>2. v # t /\ \A u \in Tasks : u = t \/ u = v
      BY <2>1, <3>1 DEF Tasks
    <3>. QED
      BY <1>2, <1>6, <1>12, <3>1, <3>2
  <2>3. \A u \in Tasks : \A d : u # t /\ Recording(u, d) => Recording(u, d)'
    BY <1>2 DEF Recording
  <2>4. \A d : d \in manifest \/ Recording(t, d) => d \in manifest'
    BY <1>4, <2>1 DEF Recording
  <2>. QED
    BY <2>2, <2>3, <2>4 DEF Listed
<1>. QED
  BY <1>1, <1>8, <1>9, <1>10, <1>11, <1>12, <1>13, SyncTask

LEMMA LedgerInstalls == ASSUME IInv, Ledger, Installs PROVE Ledger'
<1>. USE FilesAssumption
<1>. DEFINE i == tasks["install"]
<1>1. TypeOK /\ "install" \in Tasks /\ Data \subseteq Files
  BY DEF IInv, Tasks, Data, Files
<1>2. i.step \in {"stage", "settle", "mark", "marking"} /\ i.step # "none"
  BY DEF Installs, Stage, StageFails, Settle, SettleFails, Mark, MarkFails, MarkWrites, Working, Is
<1>3. i \in Task /\ Fits("install", i) /\ i.file \in Files /\ removing = NotRemoving
  BY <1>1, <1>2, AtWork DEF Task
<1>4. \A d \in Data : files[d] = "fetched" => Listed(d)
  BY DEF Ledger
<1>5. UNCHANGED <<manifest, removing>>
  BY DEF Installs, Stage, StageFails, Settle, SettleFails, Mark, MarkFails, MarkWrites, card
<1>6. ASSUME NEW s \in {"connect", "done", "list", "mark", "marking"}, NEW r, r.step = s,
             r \in Task, Goes("install", r),
             \A d \in Data : files'[d] = "fetched" => Listed(d),
             s = "connect" /\ r.kind = "upload" /\ r.backedUp /\ backups'[r.file] = "fetched"
               => Listed(r.file)
      PROVE  Ledger'
  <2>1. tasks'["install"] = r /\ \A u \in Tasks : u # "install" => tasks'[u] = tasks[u]
    BY <1>1, <1>6, GoesOK
  <2>2. \A u \in Tasks : tasks'[u].step \in {"truncate",
  "write"} => manifest' \subseteq tasks'[u].seen
    BY <1>5, <1>6, <2>1 DEF Ledger
  <2>4. \A d : Listed(d) => Listed(d)'
    BY <1>1, <1>2, <1>5, <2>1, ListedKept
  <2>3. PutAside' => s = "connect" /\ r.kind = "upload" /\ r.backedUp
    BY <1>6, <2>1 DEF PutAside, DownloadSteps
  <2>. QED
    BY <1>3, <1>5, <1>6, <2>1, <2>2, <2>3, <2>4 DEF Ledger, Deleting
<1>7. ASSUME NEW b \in BOOLEAN, Ends("install", b),
             \A d \in Data : files'[d] = "fetched" => Listed(d)
      PROVE  Ledger'
  <2> DEFINE r == [i EXCEPT !.step = "done", !.ok = b]
  <2>1. r \in Task /\ r.step = "done" /\ Goes("install", r)
    BY <1>3, <1>7 DEF Task, Steps, Ends
  <2> HIDE DEF r
  <2>. QED
    BY <1>6, <1>7, <2>1
<1>8. ASSUME NEW s \in {"list", "mark", "marking"}, To("install", s),
             \A d \in Data : files'[d] = "fetched" => Listed(d)
      PROVE  Ledger'
  <2> DEFINE r == [i EXCEPT !.step = s]
  <2>1. r \in Task /\ r.step = s /\ Goes("install", r)
    BY <1>3, <1>8 DEF Task, Steps, To
  <2> HIDE DEF r
  <2>. QED
    BY <1>6, <1>8, <2>1
<1>9. CASE Stage
  <2>1. PICK b \in BOOLEAN : /\ Goes("install", [i EXCEPT !.step = "connect", !.backedUp = b])
                            /\ b = (files[i.file] # "absent")
    BY <1>9 DEF Stage
  <2> DEFINE r == [i EXCEPT !.step = "connect", !.backedUp = b]
  <2>2. /\ r \in Task /\ r.step = "connect" /\ r.file = i.file /\ r.backedUp = b
        /\ r.kind = i.kind /\ Goes("install", r)
    BY <1>3, <2>1 DEF Task, Steps
  <2> HIDE DEF r
  <2>3. \A d \in Data : files'[d] = "fetched" => Listed(d)
    BY <1>1, <1>3, <1>4, <1>9 DEF Stage, TypeOK
  <2>4. b => backups'[i.file] = files[i.file]
    BY <1>1, <1>3, <1>9, <2>1 DEF Stage, TypeOK
  <2>5. i.kind = "upload" => i.file \in Data
    BY <1>3 DEF Fits, Files, Data
  <2>6. r.kind = "upload" /\ r.backedUp /\ backups'[r.file] = "fetched" => Listed(r.file)
    BY <1>4, <2>2, <2>4, <2>5
  <2>. QED
    BY <1>6, <2>2, <2>3, <2>6
<1>10. CASE StageFails
  BY <1>4, <1>7, <1>10 DEF StageFails
<1>11. CASE Settle
  <2>1. i.kind # "upload" => i.file = 0
    BY <1>3, <1>11 DEF Settle, Working, Is, Fits, Task, Kinds
  <2>2. i.kind = "upload" /\ i.backedUp /\ backups[i.file] = "fetched" => Listed(i.file)
    BY <1>11 DEF Settle, Working, Is, Ledger, PutAside
  <2>3. \A d \in Data : files'[d] = "fetched" => Listed(d)
    <3>1. files' = IF i.backedUp /\ ~i.ok THEN [files EXCEPT ![i.file] = backups[i.file]] ELSE files
      BY <1>11 DEF Settle
    <3>2. files \in [Files -> Contents] /\ \A d \in Data : d # 0
      BY <1>1 DEF TypeOK, Data
    <3>. QED
      BY <1>1, <1>3, <1>4, <2>1, <2>2, <3>1, <3>2
  <2>4. \/ Ends("install", i.ok)
        \/ \E s \in {"list", "mark"} : To("install", s)
    BY <1>11 DEF Settle
  <2>5. i.ok \in BOOLEAN
    BY <1>3 DEF Task
  <2>. QED
    BY <1>7, <1>8, <2>3, <2>4, <2>5
<1>13. CASE SettleFails
  <2>1. \A d \in Data : files'[d] = "fetched" => files[d] = "fetched"
    BY <1>1, <1>3, <1>13 DEF SettleFails, TypeOK
  <2>. QED
    BY <1>4, <1>7, <1>13, <2>1 DEF SettleFails
<1>12. CASE Mark \/ MarkFails \/ MarkWrites
  <2>1. UNCHANGED files /\ (Ends("install", TRUE) \/ To("install", "marking"))
    BY <1>12 DEF Mark, MarkFails, MarkWrites, card
  <2>. QED
    BY <1>4, <1>7, <1>8, <2>1
<1>. QED
  BY <1>9, <1>10, <1>11, <1>12, <1>13 DEF Installs

LEMMA LedgerRemoval == ASSUME IInv, Ledger, Removal, Kept' PROVE Ledger'
<1>. USE FilesAssumption
<1>1. TypeOK /\ Data \subseteq Files /\ \A d \in Data : d # 0
  BY DEF IInv, Data, Files
<1>2. launched = "no" /\ tasks["install"] = Idle /\ UNCHANGED <<tasks, backups>>
  BY DEF Removal, Uninstall, UninstallWithData, Removes, RemovePapp, RemovePappFails,
         RemoveListing, RemoveData,
         RemoveDataFails, RemoveManifest, card, Removing, NotRemoving, IInv, Alone
<1>3. \A t \in Tasks : tasks[t] = Idle /\ tasks[t].step \notin {"record", "truncate", "write"}
  BY <1>2 DEF IInv, Alone, Tasks, Idle
<1>4. ~PutAside /\ ~PutAside'
  BY <1>2 DEF PutAside, Idle, DownloadSteps
<1>5. \A d \in Data : files[d] = "fetched" => d \in manifest
  BY <1>3, LedgerPlain
<1>6. SUFFICES /\ \A d \in Data : files'[d] = "fetched" => d \in manifest'
               /\ Deleting' => \A d \in Data : files'[d] = "fetched" => d \in removing'.rest
  BY <1>2, <1>3, <1>4 DEF Ledger, Listed
<1>7. ASSUME Uninstall \/ \E records \in {{}, manifest} : UninstallWithData(records)
      PROVE  /\ \A d \in Data : files'[d] = "fetched" => d \in manifest'
             /\ Deleting' => \A d \in Data : files'[d] = "fetched" => d \in removing'.rest
  <2>1. \A records : Reading(records) => records = manifest
    BY DEF Reading, Kept
  <2>2. PICK b \in BOOLEAN, rest \in SUBSET Data :
          Removes(b, rest) /\ (b => rest = DownloadedFiles(manifest))
    BY <1>1, <1>7, <2>1 DEF Uninstall, UninstallWithData, DownloadedFiles, TypeOK
  <2>. QED
    BY <1>5, <2>2 DEF Removes, Deleting, NotRemoving, DownloadedFiles, card
<1>8. CASE RemovePapp
  <2>1. \A d \in Data : files'[d] = files[d]
    BY <1>1, <1>8 DEF RemovePapp, TypeOK
  <2>2. /\ removing # NotRemoving /\ removing'.deleteData = removing.deleteData
        /\ removing'.rest = removing.rest /\ manifest' = manifest
    BY <1>1, <1>8 DEF RemovePapp, Removing, NotRemoving, TypeOK
  <2>3. Deleting' => Deleting
    BY <1>1, <1>8 DEF RemovePapp, Removing, NotRemoving, TypeOK, Deleting
  <2>. QED
    BY <1>5, <2>1, <2>2, <2>3 DEF Ledger
<1>9. CASE RemoveListing
  <2>1. /\ removing # NotRemoving /\ UNCHANGED <<files, manifest>>
        /\ \/ removing' = NotRemoving
           \/ removing.deleteData /\ removing'.rest = removing.rest
    BY <1>1, <1>9 DEF RemoveListing, Removing, NotRemoving, TypeOK
  <2>. QED
    BY <1>5, <2>1 DEF Ledger, Deleting
<1>10. ASSUME NEW d \in Data, RemoveData(d)
       PROVE  /\ \A e \in Data : files'[e] = "fetched" => e \in manifest'
              /\ Deleting' => \A e \in Data : files'[e] = "fetched" => e \in removing'.rest
  <2>1. /\ removing # NotRemoving /\ manifest' = manifest
        /\ Deleting /\ removing'.rest = removing.rest \ {d}
    BY <1>1, <1>10 DEF RemoveData, Removing, NotRemoving, TypeOK, Deleting
  <2>2. \A e \in Data : files'[e] = "fetched" => e # d /\ files[e] = "fetched"
    BY <1>1, <1>10 DEF RemoveData, TypeOK
  <2>. QED
    BY <1>5, <2>1, <2>2 DEF Ledger
<1>12. CASE RemovePappFails
  BY <1>5, <1>12 DEF RemovePappFails, Deleting, card
<1>13. ~\E d \in Data : RemoveDataFails(d)
  BY DEF RemoveDataFails, Kept
<1>11. CASE RemoveManifest
  <2>1. Deleting /\ removing.rest = {} /\ removing' = NotRemoving /\ UNCHANGED files
    BY <1>11 DEF RemoveManifest, Removing, NotRemoving, Deleting
  <2>. QED
    BY <2>1 DEF Ledger, Deleting
<1>. QED
  BY <1>7, <1>8, <1>9, <1>10, <1>11, <1>12, <1>13 DEF Removal

\* What has gone wrong is not forgotten.
LEMMA MishapsStay == [Next]_vars => mishaps \subseteq mishaps'
<1>. SUFFICES ASSUME [Next]_vars PROVE mishaps \subseteq mishaps'
  OBVIOUS
<1>1. CASE Requests \/ Loads \/ PowerCut \/ Boot \/ UNCHANGED vars
  BY <1>1 DEF Requests, StartInstall, NewTask, Launch, LaunchCopy, LaunchFails, PollLoad,
              PollInstall, RequestClose, AppEnds, OwnCopy, Loads, LoadImage, PowerCut, Boot,
              vars
<1>2. CASE Removal
  BY <1>2 DEF Removal, Uninstall, UninstallWithData, Removes, Reading, RemovePapp,
              RemovePappFails, RemoveListing,
              RemoveManifest, RemoveData, RemoveDataFails
<1>3. CASE Installs
  BY <1>3 DEF Installs, Stage, StageFails, Settle, SettleFails, Mark, MarkFails, MarkWrites
<1>4. ASSUME NEW t \in Tasks, Download(t) PROVE UNCHANGED mishaps
  BY <1>4 DEF Download, Connect, ConnectFails, Receive, ReceiveFails, ReceiveCancelled,
              Publish, PublishFails, Drop
<1>5. ASSUME NEW t \in Tasks, Sync(t) PROVE mishaps \subseteq mishaps'
  BY <1>5 DEF Sync, ReadList, NoList, ListFails, ReadManifest, Reading, TruncateManifest,
              WriteManifest, WriteFails
<1>. QED
  BY <1>1, <1>2, <1>3, <1>4, <1>5 DEF Next

LEMMA LedgerStep ==
  IInv /\ ~RecordMeet /\ (Kept => Ledger) /\ [Next]_vars => (Kept' => Ledger')
<1>. SUFFICES ASSUME IInv, ~RecordMeet, Kept => Ledger, [Next]_vars, Kept'
              PROVE  Ledger'
  OBVIOUS
<1>. USE FilesAssumption
<1>1. TypeOK /\ Data \subseteq Files
  BY DEF IInv, Data, Files
<1>2. Ledger
  BY MishapsStay DEF Kept
<1>3. ASSUME NEW t \in Tasks, NEW r, Goes(t, r),
             tasks[t] = Idle \/ tasks[t].step = "done" \/ tasks[t].step = "image",
             r = Idle \/ (r \in Task /\ r.step \in {"stage", "list", "done"}),
             UNCHANGED <<files, backups, manifest, removing>>
      PROVE  Ledger'
  <2>1. tasks'[t] = r /\ \A u \in Tasks : u # t => tasks'[u] = tasks[u]
    BY <1>1, <1>3, GoesOK
  <2>2. tasks[t].step \notin {"record", "truncate", "write"}
        /\ tasks'[t].step \notin {"record", "truncate", "write"}
    BY <1>3, <2>1 DEF Idle
  <2>3. PutAside' => PutAside /\ tasks'["install"] = tasks["install"]
    BY <1>3, <2>1 DEF PutAside, DownloadSteps, Idle, Tasks
  <2>4. \A d : Listed(d) => Listed(d)'
    BY <1>3, <2>1, <2>2, ListedKept
  <2>. QED
    BY <1>2, <1>3, <2>1, <2>2, <2>3, <2>4 DEF Ledger, Deleting
<1>4. ASSUME NEW kind \in {"catalog", "direct", "upload"}, NEW f \in Files, StartInstall(kind, f)
      PROVE Ledger'
  <2> DEFINE r == [step |-> "stage", kind |-> kind, file |-> f, ok |-> TRUE,
                   backedUp |-> FALSE, listed |-> FALSE, missing |-> {}, seen |-> {}]
  <2>1. r \in Task /\ r.step = "stage"
    BY DEF Task, Steps, Kinds
  <2>2. /\ Goes("install", r) /\ tasks["install"] = Idle
        /\ UNCHANGED <<files, backups, manifest, removing>>
    BY <1>4 DEF StartInstall, NewTask, card
  <2> HIDE DEF r
  <2>. QED
    BY <1>3, <2>1, <2>2 DEF Tasks
<1>5. CASE Launch
  <2> DEFINE r == [step |-> "list", kind |-> "stream", file |-> 0, ok |-> TRUE,
                   backedUp |-> FALSE, listed |-> FALSE, missing |-> {}, seen |-> {}]
  <2>1. r \in Task /\ r.step = "list"
    BY DEF Task, Steps, Kinds, Files
  <2>2. /\ Goes("load", r) /\ tasks["load"] = Idle
        /\ UNCHANGED <<files, backups, manifest, removing>>
    BY <1>5 DEF Launch, NewTask, card
  <2> HIDE DEF r
  <2>. QED
    BY <1>3, <2>1, <2>2 DEF Tasks
<1>6. CASE PollLoad \/ PollInstall
  BY <1>3, <1>6 DEF PollLoad, PollInstall, card, Tasks, Is
<1>7. CASE Loads
  <2>1. PICK ok \in BOOLEAN : LoadImage(ok)
    BY <1>7 DEF Loads
  <2> DEFINE r == [tasks["load"] EXCEPT !.step = "done", !.ok = ok]
  <2>2. /\ Goes("load", r) /\ tasks["load"].step = "image" /\ tasks["load"].step # "none"
        /\ UNCHANGED <<files, backups, manifest, removing>>
    BY <2>1 DEF LoadImage, Working, Is, Ends, card
  <2>3. r \in Task /\ r.step = "done"
    BY <1>1, <2>2, BusyTask DEF Task, Steps, Tasks
  <2> HIDE DEF r
  <2>. QED
    BY <1>3, <2>2, <2>3 DEF Tasks
<1>8. CASE LaunchCopy \/ LaunchFails \/ RequestClose \/ AppEnds \/ Boot \/ UNCHANGED vars
  BY <1>2, <1>8, LedgerKept
     DEF LaunchCopy, LaunchFails, RequestClose, AppEnds, Boot, vars, card
<1>9. ASSUME NEW d \in Data, OwnCopy(d) PROVE Ledger'
  <2>1. \A e \in Data : files'[e] = "fetched" => files[e] = "fetched"
    BY <1>1, <1>9 DEF OwnCopy, Mine, TypeOK
  <2>. QED
    BY <1>2, <1>9, <2>1, LedgerKept DEF OwnCopy
<1>10. CASE PowerCut
  BY <1>10 DEF PowerCut, Kept
<1>. QED
  BY <1>2, <1>4, <1>5, <1>6, <1>7, <1>8, <1>9, <1>10, LedgerDownload, LedgerSync,
     LedgerInstalls, LedgerRemoval DEF Next, Requests

\* Launches may overlap installs: as long as no two tasks rewrite the manifest at the
\* same time, and as long as no power was cut, no card full, no manifest over its limit
\* and no data file kept by the card, what the store fetched is in the manifest as soon
\* as no task is at work.
THEOREM EveryDownloadRecordedApart == Spec /\ []~RecordMeet => []DownloadsRecorded
<1> DEFINE Recorded == Kept => Ledger
<1>1. Init => Recorded
  <2>. SUFFICES ASSUME Init PROVE Ledger
    OBVIOUS
  <2>1. \A t \in Tasks : tasks[t] = Idle
    BY DEF Init
  <2>2. ~PutAside /\ ~Deleting
    BY <2>1 DEF Init, PutAside, Deleting, Idle, Tasks, DownloadSteps
  <2>3. \A d \in Data : files[d] # "fetched"
    BY FilesAssumption DEF Init, Mine, Data, Files
  <2>. QED
    BY <2>1, <2>2, <2>3 DEF Ledger, Idle
<1>2. IInv /\ ~RecordMeet /\ Recorded /\ [Next]_vars => Recorded'
  BY LedgerStep
<1>3. Recorded => DownloadsRecorded
  BY DEF Kept, Ledger, Listed, DownloadsRecorded, Recording, Idle
<1>. QED
  BY <1>1, <1>2, <1>3, Invariant, PTL DEF Spec

\* Without a launch during an install, and as long as no power was cut, no card full, no
\* manifest over its limit and no data file kept by the card, what the store fetched is in
\* the manifest as soon as no task is at work.
THEOREM EveryDownloadRecorded ==
  ASSUME ~Overlap
  PROVE  Spec => []DownloadsRecorded
<1>1. OneTask => ~RecordMeet
  BY DEF OneTask, RecordMeet, Idle, Tasks
<1>. QED
  BY <1>1, OneTaskHolds, EveryDownloadRecordedApart, PTL

=============================================================================
