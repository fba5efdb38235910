------------------------------- MODULE AppFiles -------------------------------
(***************************************************************************)
(* The files of one app on the card: its .papp, its listing, its data      *)
(* files, the manifest of what the store downloaded, and what two tasks    *)
(* and the loop do to them (papp_store.cpp, sync_app_data_ and             *)
(* download_data_file_ of papp_loader.cpp).                                *)
(*                                                                         *)
(* The install task replaces the .papp (or, for an upload, any one file)   *)
(* and then fetches the missing data; the load task fetches the missing    *)
(* data before it streams the app.  Each file system call that a power cut *)
(* or the other task can come between is a step of its own.  An uninstall  *)
(* runs on the loop task, which does nothing else meanwhile.               *)
(*                                                                         *)
(* File 0 is the .papp, files 1..NData are the data files of its list.  A  *)
(* file is "absent", the "own" one that was there (the user's copy, an     *)
(* older version), a "twin" (the user's copy, of the very size the list    *)
(* gives), the "fetched" one, or "broken".  A truncated listing or         *)
(* manifest reads like none, and is modelled as none.                      *)
(***************************************************************************)
EXTENDS Integers

CONSTANTS
  NData,     \* how many data files the app's list has
  Readable,  \* the manifests of at most MANIFEST_MAX_BYTES
  Overlap,   \* BOOLEAN: launches come while an install runs
  Crashes,   \* BOOLEAN: the power may be cut
  CardFull   \* BOOLEAN: writes of small files may fail

ASSUME FilesAssumption ==
  /\ NData \in Nat /\ Readable \subseteq SUBSET (1 .. NData)
  /\ Overlap \in BOOLEAN /\ Crashes \in BOOLEAN /\ CardFull \in BOOLEAN

VARIABLES
  powered,    \* the device is on
  launched,   \* launched_: "no", "loading" (papp_loading_) or "running"
  closing,    \* global_close_requested_
  files,      \* what is under each real name
  backups,    \* what is under each <name>.upload.bak
  parts,      \* what is under each <name>.part
  listing,    \* which version the listing beside the .papp is of
  manifest,   \* the data files <app>.installed.json lists
  tasks,      \* the install and the load task
  removing,   \* how far uninstall_app is
  had,        \* history: the app was there and was not uninstalled
  mishaps     \* history: a power "cut", a manifest not written on a "full" card
              \* or "unread", a backup "stuck", a data file "kept" on the card

device == <<powered, launched, closing>>
card   == <<files, backups, parts, listing, manifest>>
past   == <<had, mishaps>>
vars   == <<device, card, tasks, removing, past>>

Data == 1 .. NData
Files == 0 .. NData
Tasks == {"install", "load"}
Mine == {"own", "twin"}
Contents == {"absent", "own", "twin", "fetched", "broken"}
PartContents == {"absent", "partial", "fetched", "broken"}
Idle == [step |-> "none"]
Steps == {"stage", "connect", "receive", "publish", "drop", "settle", "list",
          "record", "truncate", "write", "image", "mark", "marking", "done"}
Kinds == {"catalog", "direct", "upload", "stream"}
NotRemoving == [step |-> "no"]

Init ==
  /\ powered = TRUE /\ launched = "no" /\ closing = FALSE
  /\ files \in [Files -> {"absent"} \cup Mine] /\ files[0] # "twin"
  /\ backups = [f \in Files |-> "absent"]
  /\ parts = [f \in Files |-> "absent"]
  /\ listing = files[0]
  /\ manifest = {}
  /\ tasks = [t \in Tasks |-> Idle]
  /\ removing = NotRemoving
  /\ had = (files[0] # "absent") /\ mishaps = {}

Is(t, step) == tasks[t].step = step
Goes(t, task) == tasks' = [tasks EXCEPT ![t] = task]
To(t, step) == Goes(t, [tasks[t] EXCEPT !.step = step])
Ends(t, ok) == Goes(t, [tasks[t] EXCEPT !.step = "done", !.ok = ok])

\* The download of a task is for a data file of the list, not for its target.
ForData(t) == tasks[t].kind \in {"catalog", "stream"} /\ tasks[t].file # 0
Other(t) == CHOOSE u \in Tasks : u # t
\* The other task has the .part of file f open for writing.
OpenElsewhere(t, f) == Is(Other(t), "receive") /\ tasks[Other(t)].file = f
-----------------------------------------------------------------------------
(***************************************************************************)
(* Requests and polls, on the loop task                                    *)
(***************************************************************************)

LoopIsFree == powered /\ removing.step = "no"

NewTask(t, step, kind, f) ==
  /\ tasks[t] = Idle
  /\ Goes(t, [step |-> step, kind |-> kind, file |-> f, ok |-> TRUE,
              backedUp |-> FALSE, listed |-> FALSE, missing |-> {}, seen |-> {}])
  /\ UNCHANGED <<card, removing, past>>

\* start_install_, request_install_url and request_upload_url: refused while
\* an app loads or runs, or another install runs.
StartInstall(kind, f) ==
  /\ LoopIsFree /\ launched = "no"
  /\ IF kind = "upload" THEN f # 0 ELSE f = 0
  /\ NewTask("install", "stage", kind, f)
  /\ UNCHANGED device

\* A launch of an app that is streamed; nothing asks whether an install runs.
Launch ==
  /\ LoopIsFree /\ launched = "no"
  /\ Overlap \/ tasks["install"] = Idle
  /\ launched' = "loading" /\ closing' = FALSE
  /\ NewTask("load", "list", "stream", 0)
  /\ UNCHANGED powered

\* A launch of the copy on the card: it is loaded at once, and nobody looks for
\* its data.
LaunchCopy ==
  /\ LoopIsFree /\ launched = "no" /\ files[0] # "absent"
  /\ Overlap \/ tasks["install"] = Idle
  /\ launched' = "running" /\ closing' = FALSE
  /\ UNCHANGED <<powered, card, tasks, removing, past>>

\* Offline, no task, no such file or a bad one: the close flag is cleared first.
LaunchFails ==
  /\ LoopIsFree /\ launched = "no"
  /\ closing' = FALSE
  /\ UNCHANGED <<powered, launched, card, tasks, removing, past>>

\* The loop finds the load done: the app runs, or the launch is over.
PollLoad ==
  /\ LoopIsFree /\ Is("load", "done")
  /\ launched' = IF tasks["load"].ok THEN "running" ELSE "no"
  /\ Goes("load", Idle)
  /\ UNCHANGED <<powered, closing, card, removing, past>>

PollInstall ==
  /\ LoopIsFree /\ Is("install", "done")
  /\ Goes("install", Idle)
  /\ UNCHANGED <<device, card, removing, past>>

\* request_close and the close control: only while an app loads or runs.
RequestClose ==
  /\ LoopIsFree /\ launched # "no"
  /\ closing' = TRUE
  /\ UNCHANGED <<powered, launched, card, tasks, removing, past>>

\* finish_app_.
AppEnds ==
  /\ LoopIsFree /\ launched = "running"
  /\ launched' = "no" /\ closing' = FALSE
  /\ UNCHANGED <<powered, card, tasks, removing, past>>

\* A copy of the user's own: by the running app, or with the card in a reader.
OwnCopy(d) ==
  /\ ~powered \/ launched = "running"
  /\ \E c \in Mine : files' = [files EXCEPT ![d] = c]
  /\ UNCHANGED <<device, backups, parts, listing, manifest, tasks, removing, past>>
-----------------------------------------------------------------------------
(***************************************************************************)
(* uninstall_app                                                           *)
(***************************************************************************)

\* read_small_file: a manifest that cannot be opened, or is over MANIFEST_MAX_BYTES,
\* reads like none, and what it lists is forgotten by whoever writes it again.
Reading(records) ==
  /\ records = {} \/ (records = manifest /\ manifest \in Readable)
  /\ mishaps' = IF records = manifest THEN mishaps ELSE mishaps \cup {"unread"}

\* Faulty variant: whatever is under the names the manifest lists.
DownloadedFilesAnySize(records) == {d \in records : files[d] # "absent"}
\* downloaded_files_: what the manifest lists and still has its size.
DownloadedFiles(records) == {d \in records : files[d] \in {"twin", "fetched", "broken"}}

Removes(deleteData, rest) ==
  /\ LoopIsFree /\ launched = "no" /\ tasks["install"] = Idle
  /\ removing' = [step |-> "papp", deleteData |-> deleteData, rest |-> rest]
  /\ UNCHANGED <<device, card, tasks, had>>

Uninstall == Removes(FALSE, {}) /\ UNCHANGED mishaps

UninstallWithData(records) == Reading(records) /\ Removes(TRUE, DownloadedFiles(records))

Removing(step) == powered /\ removing.step = step

RemovePapp ==
  /\ Removing("papp")
  /\ files' = [files EXCEPT ![0] = "absent"]
  /\ had' = FALSE
  /\ removing' = [removing EXCEPT !.step = "listing"]
  /\ UNCHANGED <<device, backups, parts, listing, manifest, tasks, mishaps>>

\* The .papp cannot be deleted: that is all of the uninstall.
RemovePappFails ==
  /\ Removing("papp") /\ files[0] # "absent"
  /\ removing' = NotRemoving
  /\ UNCHANGED <<device, card, tasks, past>>

\* The result of this unlink is not looked at, nor that of the manifest's.
RemoveListing ==
  /\ Removing("listing")
  /\ listing' \in {"absent", listing}
  /\ removing' = IF removing.deleteData THEN [removing EXCEPT !.step = "data"]
                                        ELSE NotRemoving
  /\ UNCHANGED <<device, files, backups, parts, manifest, tasks, past>>

RemoveData(d) ==
  /\ Removing("data") /\ d \in removing.rest
  /\ files' = [files EXCEPT ![d] = "absent"]
  /\ removing' = [removing EXCEPT !.rest = @ \ {d}]
  /\ UNCHANGED <<device, backups, parts, listing, manifest, tasks, past>>

\* A data file that cannot be deleted stays, and the next one is tried.
RemoveDataFails(d) ==
  /\ Removing("data") /\ d \in removing.rest
  /\ removing' = [removing EXCEPT !.rest = @ \ {d}]
  /\ mishaps' = mishaps \cup {"kept"}
  /\ UNCHANGED <<device, card, tasks, had>>

RemoveManifest ==
  /\ Removing("data") /\ removing.rest = {}
  /\ manifest' \in {{}, manifest}
  /\ removing' = NotRemoving
  /\ UNCHANGED <<device, files, backups, parts, listing, tasks, past>>
-----------------------------------------------------------------------------
(***************************************************************************)
(* The install task: around the download of its target                     *)
(***************************************************************************)

Working(t, step) == powered /\ Is(t, step)

\* Faulty variant: the old target is removed.
StageDeletes ==
  /\ Working("install", "stage")
  /\ files' = [files EXCEPT ![tasks["install"].file] = "absent"]
  /\ To("install", "connect")
  /\ UNCHANGED <<device, backups, parts, listing, manifest, removing, past>>

\* The old target becomes <target>.upload.bak.
Stage ==
  /\ Working("install", "stage")
  /\ LET f == tasks["install"].file
         there == files[f] # "absent"
     IN /\ backups' = IF there THEN [backups EXCEPT ![f] = files[f]] ELSE backups
        /\ files' = [files EXCEPT ![f] = "absent"]
        /\ Goes("install", [tasks["install"] EXCEPT !.step = "connect",
                                                    !.backedUp = there])
  /\ UNCHANGED <<device, parts, listing, manifest, removing, past>>

\* No folder for the target, or the old one cannot be renamed, after an older
\* backup went.
StageFails ==
  /\ Working("install", "stage")
  /\ LET f == tasks["install"].file
     IN \/ UNCHANGED backups
        \/ files[f] # "absent" /\ backups' = [backups EXCEPT ![f] = "absent"]
  /\ Ends("install", FALSE)
  /\ UNCHANGED <<device, files, parts, listing, manifest, removing, past>>

\* Faulty variant: the backup stays a backup.
SettleKeepsBackup ==
  /\ Working("install", "settle")
  /\ had' = (had \/ (tasks["install"].ok /\ tasks["install"].file = 0))
  /\ IF ~tasks["install"].ok \/ tasks["install"].kind = "upload"
     THEN Ends("install", tasks["install"].ok)
     ELSE To("install", IF tasks["install"].kind = "catalog" THEN "list" ELSE "mark")
  /\ UNCHANGED <<device, files, backups, parts, listing, manifest, removing, mishaps>>

\* After the download: the backup goes (the result of that is not looked at), or
\* comes back in place of whatever is under the real name.
Settle ==
  /\ Working("install", "settle")
  /\ LET i == tasks["install"]
         f == i.file
     IN /\ \/ backups' = IF i.backedUp THEN [backups EXCEPT ![f] = "absent"] ELSE backups
           \/ i.ok /\ UNCHANGED backups
        /\ files' = IF i.backedUp /\ ~i.ok THEN [files EXCEPT ![f] = backups[f]]
                                           ELSE files
        /\ had' = (had \/ (i.ok /\ f = 0))
        /\ IF ~i.ok \/ i.kind = "upload" THEN Ends("install", i.ok)
           ELSE To("install", IF i.kind = "catalog" THEN "list" ELSE "mark")
  /\ UNCHANGED <<device, parts, listing, manifest, removing, mishaps>>

\* The backup cannot be renamed back, whether or not what is under the real name
\* could be removed: an error in the log, and the install ends.
SettleFails ==
  /\ Working("install", "settle")
  /\ tasks["install"].backedUp /\ ~tasks["install"].ok
  /\ files' \in {files, [files EXCEPT ![tasks["install"].file] = "absent"]}
  /\ mishaps' = mishaps \cup {"stuck"}
  /\ Ends("install", FALSE)
  /\ UNCHANGED <<device, backups, parts, listing, manifest, removing, had>>

\* The listing beside the copy marks it installed: fopen truncates it, fwrite
\* fills it.  Neither result is looked at.
Mark ==
  /\ Working("install", "mark")
  /\ listing' = "absent" /\ To("install", "marking")
  /\ UNCHANGED <<device, files, backups, parts, manifest, removing, past>>

MarkFails ==
  /\ CardFull /\ Is("install", "mark") /\ powered
  /\ Ends("install", TRUE)
  /\ UNCHANGED <<device, card, removing, past>>

MarkWrites ==
  /\ Working("install", "marking")
  /\ \/ listing' = "fetched"
     \/ CardFull /\ UNCHANGED listing
  /\ Ends("install", TRUE)
  /\ UNCHANGED <<device, files, backups, parts, manifest, removing, past>>
-----------------------------------------------------------------------------
(***************************************************************************)
(* download_data_file_, by either task                                     *)
(***************************************************************************)

\* The <file>.part is opened for writing, which truncates it.  If the other
\* task is still writing to it, both write to the same file.
Connect(t) ==
  LET f == tasks[t].file
  IN /\ Working(t, "connect")
     /\ parts' = [parts EXCEPT ![f] = IF OpenElsewhere(t, f) THEN "broken" ELSE "partial"]
     /\ To(t, IF closing THEN "drop" ELSE "receive")
     /\ UNCHANGED <<device, files, backups, listing, manifest, removing, past>>

\* Faulty variant: the app goes on without the file.
FailedIgnored(t) == IF ForData(t) THEN Ends(t, TRUE)
                    ELSE Goes(t, [tasks[t] EXCEPT !.step = "settle", !.ok = FALSE])

\* The end of a download that failed: before the .part was opened, or at "drop".
Failed(t) == IF ForData(t) THEN Ends(t, FALSE)
             ELSE Goes(t, [tasks[t] EXCEPT !.step = "settle", !.ok = FALSE])

\* No connection, an HTTP error, another length than expected.
ConnectFails(t) ==
  /\ Working(t, "connect")
  /\ Failed(t)
  /\ UNCHANGED <<device, card, removing, past>>

\* All received, and its sha256 is the expected one: of what came in, not of
\* what is in the file.
Receive(t) ==
  LET f == tasks[t].file
  IN /\ Working(t, "receive")
     /\ \E c \in IF parts[f] = "broken" THEN {"broken", "fetched"}
                 ELSE {IF parts[f] = "partial" THEN "fetched" ELSE parts[f]} :
          parts' = [parts EXCEPT ![f] = c]
     /\ To(t, "publish")
     /\ UNCHANGED <<device, files, backups, listing, manifest, removing, past>>

\* Faulty variant: the file gets its name all the same.
ReceiveFailsUnseen(t) ==
  /\ Working(t, "receive")
  /\ To(t, "publish")
  /\ UNCHANGED <<device, card, removing, past>>

\* The connection or the card fails, or the sha256 is another.
ReceiveFails(t) ==
  /\ Working(t, "receive")
  /\ To(t, "drop")
  /\ UNCHANGED <<device, card, removing, past>>

\* A close was requested since the last chunk.
ReceiveCancelled(t) ==
  /\ closing /\ Working(t, "receive")
  /\ To(t, "drop")
  /\ UNCHANGED <<device, card, removing, past>>

\* f_rename of FAT, which never replaces a file.
CanRename(f) == parts[f] # "absent" /\ files[f] = "absent"

\* The .part gets its real name, complete or not.
Publish(t) ==
  LET f == tasks[t].file
      full == parts[f] = "fetched" /\ ~OpenElsewhere(t, f)
      content == IF tasks[t].kind = "upload" THEN Mine ELSE {"fetched"}
  IN /\ Working(t, "publish") /\ CanRename(f)
     /\ \E c \in IF full THEN content ELSE {"broken"} : files' = [files EXCEPT ![f] = c]
     /\ parts' = [parts EXCEPT ![f] = "absent"]
     /\ To(t, IF ForData(t) THEN "record" ELSE "settle")
     /\ UNCHANGED <<device, backups, listing, manifest, removing, past>>

PublishFails(t) ==
  /\ Working(t, "publish")
  /\ To(t, "drop")
  /\ UNCHANGED <<device, card, removing, past>>

\* remove(part) after any failure.
Drop(t) ==
  /\ Working(t, "drop")
  /\ parts' = [parts EXCEPT ![tasks[t].file] = "absent"]
  /\ Failed(t)
  /\ UNCHANGED <<device, files, backups, listing, manifest, removing, past>>
-----------------------------------------------------------------------------
(***************************************************************************)
(* sync_app_data_ and record_download_, by either task                     *)
(***************************************************************************)

\* What follows when the data is there.
Synced(t) == IF t = "install" THEN "mark" ELSE "image"

\* The data list, read once; a file found on any root is never downloaded.
ReadList(t) ==
  LET missing == {d \in Data : files[d] = "absent"}
  IN /\ Working(t, "list")
     /\ IF missing = {}
        THEN Goes(t, [tasks[t] EXCEPT !.step = Synced(t), !.listed = TRUE])
        ELSE \E d \in missing :
               /\ \A e \in missing : d <= e
               /\ Goes(t, [tasks[t] EXCEPT !.step = "connect", !.file = d, !.listed = TRUE,
                                           !.missing = missing \ {d}])
     /\ UNCHANGED <<device, card, removing, past>>

\* No list on the server (404), or download_data is off: nothing is looked for.
NoList(t) ==
  /\ Working(t, "list")
  /\ To(t, Synced(t))
  /\ UNCHANGED <<device, card, removing, past>>

ListFails(t) ==
  /\ Working(t, "list")
  /\ Ends(t, FALSE)
  /\ UNCHANGED <<device, card, removing, past>>

\* record_download_ reads the manifest, and writes it again with one more.
ReadManifest(t) ==
  /\ Working(t, "record")
  /\ \E records \in {{}, manifest} :
       Reading(records) /\ Goes(t, [tasks[t] EXCEPT !.step = "truncate", !.seen = records])
  /\ UNCHANGED <<device, card, removing, had>>

TruncateManifest(t) ==
  /\ Working(t, "truncate")
  /\ manifest' = {} /\ To(t, "write")
  /\ UNCHANGED <<device, files, backups, parts, listing, removing, past>>

\* The next missing file, or on with the task.
NextFile(t) ==
  LET missing == tasks[t].missing
  IN IF missing = {} THEN To(t, Synced(t))
     ELSE \E d \in missing :
            /\ \A e \in missing : d <= e
            /\ Goes(t, [tasks[t] EXCEPT !.step = "connect", !.file = d,
                                        !.missing = missing \ {d}, !.seen = {}])

\* Faulty variant: the manifest has the last file only.
WriteManifestAnew(t) ==
  /\ Working(t, "write")
  /\ manifest' = {tasks[t].file}
  /\ NextFile(t)
  /\ UNCHANGED <<device, files, backups, parts, listing, removing, past>>

WriteManifest(t) ==
  /\ Working(t, "write")
  /\ manifest' = tasks[t].seen \cup {tasks[t].file}
  /\ NextFile(t)
  /\ UNCHANGED <<device, files, backups, parts, listing, removing, past>>

\* The card is full: a warning, and on.
WriteFails(t) ==
  /\ CardFull /\ (Working(t, "truncate") \/ Working(t, "write"))
  /\ mishaps' = mishaps \cup {"full"}
  /\ NextFile(t)
  /\ UNCHANGED <<device, card, removing, had>>

\* psram_app_load_url: the app itself, which is not kept on the card.
LoadImage(ok) ==
  /\ Working("load", "image")
  /\ Ends("load", ok)
  /\ UNCHANGED <<device, card, removing, past>>
-----------------------------------------------------------------------------
(***************************************************************************)
(* Power: what is on the card stays                                        *)
(***************************************************************************)

PowerCut ==
  /\ Crashes /\ powered
  /\ powered' = FALSE /\ launched' = "no" /\ closing' = FALSE
  /\ tasks' = [t \in Tasks |-> Idle]
  /\ removing' = NotRemoving
  /\ mishaps' = mishaps \cup {"cut"}
  /\ UNCHANGED <<card, had>>

Boot ==
  /\ ~powered /\ powered' = TRUE
  /\ UNCHANGED <<launched, closing, card, tasks, removing, past>>

Requests == \/ \E kind \in {"catalog", "direct", "upload"}, f \in Files : StartInstall(kind, f)
            \/ Launch \/ LaunchCopy \/ LaunchFails \/ PollLoad \/ PollInstall \/ RequestClose \/ AppEnds
            \/ \E d \in Data : OwnCopy(d)
Removal  == \/ Uninstall \/ \E records \in {{}, manifest} : UninstallWithData(records)
            \/ RemovePapp \/ RemovePappFails \/ RemoveListing \/ RemoveManifest
            \/ \E d \in Data : RemoveData(d) \/ RemoveDataFails(d)
Installs == Stage \/ StageFails \/ Settle \/ SettleFails \/ Mark \/ MarkFails \/ MarkWrites
Download(t) == \/ Connect(t) \/ ConnectFails(t) \/ Receive(t) \/ ReceiveFails(t)
               \/ ReceiveCancelled(t) \/ Publish(t) \/ PublishFails(t) \/ Drop(t)
Sync(t)  == \/ ReadList(t) \/ NoList(t) \/ ListFails(t) \/ ReadManifest(t)
            \/ TruncateManifest(t) \/ WriteManifest(t) \/ WriteFails(t)
Loads    == \E ok \in BOOLEAN : LoadImage(ok)

Next == \/ Requests \/ Removal \/ Installs \/ Loads
        \/ \E t \in Tasks : Download(t) \/ Sync(t)
        \/ PowerCut \/ Boot

Spec == Init /\ [][Next]_vars
-----------------------------------------------------------------------------
Task == [step : Steps, kind : Kinds, file : Files, ok : BOOLEAN,
         backedUp : BOOLEAN, listed : BOOLEAN, missing : SUBSET Data, seen : SUBSET Data]

\* Types.
TypeOK ==
  /\ powered \in BOOLEAN /\ closing \in BOOLEAN /\ had \in BOOLEAN
  /\ mishaps \subseteq {"cut", "full", "unread", "stuck", "kept"}
  /\ launched \in {"no", "loading", "running"}
  /\ files \in [Files -> Contents]
  /\ backups \in [Files -> Contents]
  /\ parts \in [Files -> PartContents]
  /\ listing \in {"absent", "own", "fetched"}
  /\ manifest \subseteq Data
  /\ tasks \in [Tasks -> {Idle} \cup Task]
  /\ removing \in {NotRemoving} \cup
       [step : {"papp", "listing", "data"}, deleteData : BOOLEAN, rest : SUBSET Data]

\* An interrupted, failed or cancelled download never leaves a broken file
\* under its real name.
NoBrokenFile == \A f \in Files : files[f] # "broken"

Uploading(f) == /\ tasks["install"] # Idle
                /\ tasks["install"].kind = "upload" /\ tasks["install"].file = f

\* The user's own data is never replaced by a download, whatever its size, and an
\* uninstall never deletes a copy of another size than the manifest gives: only an
\* upload of that very file may touch it.  A copy of that very size, put in place
\* of a file the store had fetched, is deleted by an uninstall with its data, and
\* by nothing else (downloaded_files_ compares sizes only).
OwnDataStays ==
  [][\A d \in Data :
       /\ files[d] = "own" => files'[d] \in Mine \/ Uploading(d)
       /\ files[d] = "twin" =>
            \/ files'[d] \in Mine \/ Uploading(d)
            \/ Removing("data") /\ d \in manifest]_vars

\* An update never loses the app: until it is uninstalled, the copy that was
\* there or the new one is on the card, if need be as .upload.bak.
AppSurvives == had => files[0] # "absent" \/ backups[0] # "absent"

\* The app is under its real name when the install is over, however its download
\* ended, unless the power was cut or the card refused to rename the backup back.
AppReturns ==
  had /\ mishaps \cap {"cut", "stuck"} = {} /\ tasks["install"] = Idle
    => files[0] # "absent"

\* Every data file the store fetched is in the manifest, so that Uninstall can
\* delete it, once no task is at work.  Excepted are the four ways in which the
\* code forgets what it fetched: a power cut, a full card, a manifest that is not
\* read (over its limit, say), an uninstall that could not delete a file.
DownloadsRecorded ==
  mishaps \subseteq {"stuck"} /\ (\A t \in Tasks : tasks[t] = Idle) =>
    \A d \in Data : files[d] = "fetched" => d \in manifest

\* A streamed app that has a data list is not started without the data on it,
\* whichever downloads have failed.  (The copy on the card is started without a
\* look at its data, also after an install whose data could not be fetched.)
StartsWithData ==
  [][launched = "loading" /\ launched' = "running" /\ tasks["load"].listed =>
       \A d \in Data : files[d] # "absent"]_vars
=============================================================================
