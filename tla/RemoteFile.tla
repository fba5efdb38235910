------------------------------ MODULE RemoteFile ------------------------------
(***************************************************************************)
(* Text files written and deleted over the API (papp_loader.cpp,           *)
(* write_file and delete_file), for one file on the card and its .bak.     *)
(*                                                                         *)
(* Both run in the loop, which does nothing else meanwhile; the power may  *)
(* be cut between two of their steps.  A content is the number of the      *)
(* write it came with; a part of one is broken.                            *)
(***************************************************************************)
EXTENDS Integers

CONSTANTS
  MaxSaves,  \* bound: calls of write_file
  MaxCuts    \* bound: power cuts

ASSUME RemoteFileAssumption == MaxSaves \in Nat /\ MaxCuts \in Nat

Absent == 0
Broken == -1

VARIABLES
  text,     \* the file
  bak,      \* the file with .bak
  using,    \* launched_: an app runs and may write the file itself
  save,     \* where write_file is, and whether there was a file before
  saves,    \* history: contents written so far, by the API and by apps
  cuts,     \* history: power cuts so far
  kept,     \* history: the last content that was whole under its name, or Absent
  spoilt    \* history: a write began over what a power cut had broken

fileVars == <<text, bak, using, save, saves, cuts, kept, spoilt>>

NoSave == [step |-> "idle", existed |-> FALSE]

FileInit ==
  /\ text = Absent /\ bak = Absent /\ using = FALSE
  /\ save = NoSave /\ saves = 0 /\ cuts = 0 /\ kept = Absent /\ spoilt = FALSE

SaveGoes(step) == save' = [save EXCEPT !.step = step]
-----------------------------------------------------------------------------
(***************************************************************************)
(* write_file                                                              *)
(***************************************************************************)

\* Refused while an app runs; otherwise it looks whether there is a file.
SaveBegins ==
  /\ save.step = "idle" /\ ~using /\ saves < MaxSaves
  /\ saves' = saves + 1
  /\ save' = [step |-> IF text = Absent THEN "open" ELSE "backup", existed |-> text # Absent]
  /\ spoilt' = (spoilt \/ text = Broken)
  /\ UNCHANGED <<text, bak, using, cuts, kept>>

\* The older backup is removed ...
BackupGoes ==
  /\ save.step = "backup"
  /\ bak' \in {Absent, bak}
  /\ SaveGoes("rename")
  /\ UNCHANGED <<text, using, saves, cuts, kept, spoilt>>

\* Faulty variant: a backup that cannot be made is done without.
RenameUnchecked ==
  /\ save.step = "rename"
  /\ \/ bak = Absent /\ bak' = text /\ text' = Absent
     \/ UNCHANGED <<text, bak>>
  /\ SaveGoes("open")
  /\ UNCHANGED <<using, saves, cuts, kept, spoilt>>

\* ... and the file takes its place; when it cannot, everything stays as it is.
Rename ==
  /\ save.step = "rename"
  /\ \/ bak = Absent /\ bak' = text /\ text' = Absent /\ SaveGoes("open")
     \/ save' = NoSave /\ UNCHANGED <<text, bak>>
  /\ UNCHANGED <<using, saves, cuts, kept, spoilt>>

\* The file is created, or not.
OpensFile ==
  /\ save.step = "open"
  /\ \/ text' = Broken /\ SaveGoes("write")
     \/ UNCHANGED text /\ SaveGoes("undo")
  /\ UNCHANGED <<bak, using, saves, cuts, kept, spoilt>>

\* It is written and closed, or the card is full.
WritesFile ==
  /\ save.step = "write"
  /\ \/ text' = saves /\ kept' = saves /\ save' = NoSave
     \/ UNCHANGED <<text, kept>> /\ SaveGoes("undo")
  /\ UNCHANGED <<bak, using, saves, cuts, spoilt>>

\* What was written is removed ...
UndoesWrite ==
  /\ save.step = "undo"
  /\ text' = Absent
  /\ IF save.existed THEN SaveGoes("restore") ELSE save' = NoSave
  /\ UNCHANGED <<bak, using, saves, cuts, kept, spoilt>>

\* ... and the old file comes back, unless that fails too.
Restores ==
  /\ save.step = "restore"
  /\ \/ text' = bak /\ bak' = Absent
     \/ UNCHANGED <<text, bak>>
  /\ save' = NoSave
  /\ UNCHANGED <<using, saves, cuts, kept, spoilt>>
-----------------------------------------------------------------------------
(***************************************************************************)
(* delete_file, apps and the power                                         *)
(***************************************************************************)

\* The user deletes the file, or its backup: a content that is deleted need not
\* be kept any longer.
DeletesFile ==
  /\ save.step = "idle" /\ ~using /\ text # Absent
  /\ text' = Absent
  /\ kept' = IF text = kept THEN Absent ELSE kept
  /\ UNCHANGED <<bak, using, save, saves, cuts, spoilt>>

DeletesBackup ==
  /\ save.step = "idle" /\ ~using /\ bak # Absent
  /\ bak' = Absent
  /\ kept' = IF bak = kept /\ text # kept THEN Absent ELSE kept
  /\ UNCHANGED <<text, using, save, saves, cuts, spoilt>>

\* An app is started or ends; while it runs it may write its own settings.
UsingChanges ==
  /\ save.step = "idle"
  /\ using' = ~using
  /\ UNCHANGED <<text, bak, save, saves, cuts, kept, spoilt>>

AppWritesFile ==
  /\ using /\ saves < MaxSaves
  /\ saves' = saves + 1 /\ text' = saves' /\ kept' = saves'
  /\ UNCHANGED <<bak, using, save, cuts, spoilt>>

\* The card keeps what it has.
PowerIsCut ==
  /\ cuts < MaxCuts /\ cuts' = cuts + 1
  /\ using' = FALSE /\ save' = NoSave
  /\ UNCHANGED <<text, bak, saves, kept, spoilt>>
-----------------------------------------------------------------------------
FileNext ==
  \/ SaveBegins \/ BackupGoes \/ Rename \/ OpensFile \/ WritesFile \/ UndoesWrite \/ Restores
  \/ DeletesFile \/ DeletesBackup \/ UsingChanges \/ AppWritesFile \/ PowerIsCut

FileSpec == FileInit /\ [][FileNext]_fileVars
-----------------------------------------------------------------------------
FileTypeOK ==
  /\ {text, bak} \subseteq {Absent, Broken} \cup 1 .. MaxSaves
  /\ {using, spoilt} \subseteq BOOLEAN
  /\ save \in [step : {"idle", "backup", "rename", "open", "write", "undo", "restore"},
               existed : BOOLEAN]
  /\ saves \in 0 .. MaxSaves /\ cuts \in 0 .. MaxCuts /\ kept \in 0 .. MaxSaves

\* "Old copy kept as .bak": until it is deleted or replaced, the last content that
\* was whole is on the card, in the file or in its .bak, however a write fails and
\* wherever the power is cut; only a write over what a cut has broken loses it.
LastContentKept == kept = Absent \/ spoilt \/ kept \in {text, bak}
=============================================================================
