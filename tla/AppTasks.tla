------------------------------- MODULE AppTasks -------------------------------
(***************************************************************************)
(* Tasks of apps (papp_loader.cpp, svc_task_create and svc_task_delete): a *)
(* task with a large stack is made and deleted with ESP-IDF's WithCaps     *)
(* functions, and a registry without a lock tells which tasks those are.   *)
(*                                                                         *)
(* A handle is the address of a task's control block, which is given out   *)
(* again once the task is deleted.  The registry outlives the app.         *)
(***************************************************************************)
EXTENDS Integers

CONSTANTS
  TaskMax,    \* MAX_PAPP_CAP_TASKS
  Handles,    \* addresses of control blocks
  NoHandle,   \* nullptr
  Creators,   \* tasks that create and delete tasks
  FirstTask   \* the app's main task, which nobody deletes

ASSUME TasksAssumption ==
  /\ TaskMax \in Nat \ {0} /\ NoHandle \notin Handles /\ FirstTask \in Creators

Entry == 0 .. TaskMax - 1

VARIABLES
  registry,   \* papp_cap_task_handles
  block,      \* what is at each address: "free", a "small" or a "big" task, or
              \* what is "lost" of a big one deleted like a small one
  given,      \* handles the app has been given and has not deleted
  taskCall,   \* where each creator is in a call
  strayed,    \* history: large tasks whose entry another call has overwritten or
              \* cleared, or that have deleted themselves
  mismatched  \* history: tasks deleted through their handle by the wrong function

tasksVars == <<registry, block, given, taskCall, strayed, mismatched>>

NoTaskCall == [step |-> "idle", handle |-> NoHandle, entry |-> 0]

TasksInit ==
  /\ registry = [e \in Entry |-> NoHandle]
  /\ block = [h \in Handles |-> "free"]
  /\ given = {} /\ taskCall = [t \in Creators |-> NoTaskCall]
  /\ strayed = {} /\ mismatched = {}

In(t, step) == taskCall[t].step = step

Proceeds(t, step, entry) ==
  taskCall' = [taskCall EXCEPT ![t].step = step, ![t].entry = entry]

TaskCallEnds(t) == taskCall' = [taskCall EXCEPT ![t] = NoTaskCall]

\* The function for tasks with a stack of their own kind of memory, or the
\* ordinary one, which leaves such a stack and its control block where they are.
Delete(h, withCaps) ==
  /\ block' = [block EXCEPT ![h] =
                 IF @ = "lost" \/ (@ = "big" /\ ~withCaps) THEN "lost" ELSE "free"]
  /\ mismatched' = IF block[h] = (IF withCaps THEN "small" ELSE "big")
                   THEN mismatched \cup {h} ELSE mismatched
-----------------------------------------------------------------------------
(***************************************************************************)
(* svc_task_create; when the task cannot be made nothing changes           *)
(***************************************************************************)

CreateSmall(t, h) ==
  /\ In(t, "idle") /\ block[h] = "free"
  /\ block' = [block EXCEPT ![h] = "small"] /\ given' = given \cup {h}
  /\ strayed' = strayed \ {h}
  /\ UNCHANGED <<registry, taskCall, mismatched>>

\* The task runs before it is in the registry, but the app has no handle yet.
CreateBig(t, h) ==
  /\ In(t, "idle") /\ block[h] = "free"
  /\ block' = [block EXCEPT ![h] = "big"]
  /\ strayed' = strayed \ {h}
  /\ taskCall' = [taskCall EXCEPT ![t] = [step |-> "remember", handle |-> h, entry |-> 0]]
  /\ UNCHANGED <<registry, given, mismatched>>

\* remember_papp_cap_task looks for a free entry, ...
Remembers(t) ==
  LET e == taskCall[t].entry
  IN /\ In(t, "remember")
     /\ CASE e = TaskMax -> Proceeds(t, "refuse", e)
          [] e < TaskMax /\ registry[e] = NoHandle -> Proceeds(t, "enter", e)
          [] OTHER -> Proceeds(t, "remember", e + 1)
     /\ UNCHANGED <<registry, block, given, strayed, mismatched>>

\* ... writes it, and the app gets the handle, of use to it unless the task has
\* deleted itself by now; ...
Enters(t) ==
  LET e == taskCall[t].entry
  IN /\ In(t, "enter")
     /\ registry' = [registry EXCEPT ![e] = taskCall[t].handle]
     /\ strayed' = strayed \cup ({registry[e]} \ {NoHandle})
     /\ given' = IF block[taskCall[t].handle] = "big"
                 THEN given \cup {taskCall[t].handle} ELSE given
     /\ TaskCallEnds(t)
     /\ UNCHANGED <<block, mismatched>>

\* ... without one the task is deleted again.
Refuses(t) ==
  /\ In(t, "refuse")
  /\ Delete(taskCall[t].handle, TRUE)
  /\ TaskCallEnds(t)
  /\ UNCHANGED <<registry, given, strayed>>
-----------------------------------------------------------------------------
(***************************************************************************)
(* svc_task_delete, of a handle the app was given, once                    *)
(***************************************************************************)

DeleteBegins(t, h) ==
  /\ In(t, "idle") /\ h \in given
  /\ given' = given \ {h}
  /\ taskCall' = [taskCall EXCEPT ![t] = [step |-> "forget", handle |-> h, entry |-> 0]]
  /\ UNCHANGED <<registry, block, strayed, mismatched>>

\* forget_papp_cap_task looks for the handle, ...
Forgets(t) ==
  LET e == taskCall[t].entry
  IN /\ In(t, "forget")
     /\ CASE e = TaskMax -> Proceeds(t, "deleteSmall", e)
          [] e < TaskMax /\ registry[e] = taskCall[t].handle -> Proceeds(t, "clear", e)
          [] OTHER -> Proceeds(t, "forget", e + 1)
     /\ UNCHANGED <<registry, block, given, strayed, mismatched>>

\* Faulty variant: the entry stays.
ClearsNoEntry(t) ==
  /\ In(t, "clear")
  /\ Proceeds(t, "deleteBig", 0)
  /\ UNCHANGED <<registry, block, given, strayed, mismatched>>

\* ... frees its entry, whatever another call has written there meanwhile, ...
ClearsEntry(t) ==
  /\ In(t, "clear")
  /\ registry' = [registry EXCEPT ![taskCall[t].entry] = NoHandle]
  /\ strayed' = strayed \cup ({registry[taskCall[t].entry]} \ {NoHandle, taskCall[t].handle})
  /\ Proceeds(t, "deleteBig", 0)
  /\ UNCHANGED <<block, given, mismatched>>

\* ... and the task goes by the function that is thought to be its own.
Deletes(t) ==
  /\ In(t, "deleteSmall") \/ In(t, "deleteBig")
  /\ Delete(taskCall[t].handle, In(t, "deleteBig"))
  /\ TaskCallEnds(t)
  /\ UNCHANGED <<registry, given, strayed>>

\* svc_task_delete of nullptr, by which a task ends itself: nullptr is in no entry, so
\* that a large stack is left where it is, with its entry.  A task may do so as soon
\* as it runs, before it is in the registry.
Running(h) ==
  \/ h \in given
  \/ \E t \in Creators : taskCall[t].handle = h /\ (In(t, "remember") \/ In(t, "enter"))

DeletesItself(h) ==
  /\ Running(h) /\ block[h] \in {"small", "big"}
  /\ block' = [block EXCEPT ![h] = IF @ = "big" THEN "lost" ELSE "free"]
  /\ strayed' = IF block[h] = "big" THEN strayed \cup {h} ELSE strayed
  /\ given' = given \ {h}
  /\ UNCHANGED <<registry, taskCall, mismatched>>
-----------------------------------------------------------------------------
\* A creator is itself deleted, at any step of a call, and another takes its place.
CreatorGoes(t) ==
  /\ t # FirstTask /\ ~In(t, "idle")
  /\ TaskCallEnds(t)
  /\ UNCHANGED <<registry, block, given, strayed, mismatched>>

TaskStep(t) ==
  \/ \E h \in Handles : CreateSmall(t, h) \/ CreateBig(t, h) \/ DeleteBegins(t, h)
  \/ Remembers(t) \/ Enters(t) \/ Refuses(t)
  \/ Forgets(t) \/ ClearsEntry(t) \/ Deletes(t)
  \/ CreatorGoes(t)

TasksNext == (\E t \in Creators : TaskStep(t)) \/ \E h \in Handles : DeletesItself(h)

TasksSpec == TasksInit /\ [][TasksNext]_tasksVars
-----------------------------------------------------------------------------
TasksTypeOK ==
  /\ registry \in [Entry -> Handles \cup {NoHandle}]
  /\ block \in [Handles -> {"free", "small", "big", "lost"}]
  /\ given \subseteq Handles
  /\ taskCall \in [Creators ->
       [step : {"idle", "remember", "enter", "refuse", "forget", "clear", "deleteSmall",
                "deleteBig"},
        handle : Handles \cup {NoHandle}, entry : 0 .. TaskMax]]
  /\ strayed \subseteq Handles /\ mismatched \subseteq Handles

\* No entry holds the address of an ordinary task, or of one that is gone, so that
\* none is ever deleted WithCaps; and a task with a large stack that is the app's can be
\* found in the registry and goes by the matching function, unless its own entry
\* was overwritten or cleared by a call that ran beside or it has ended itself (the
\* registry without a lock, papp_loader.cpp:155-177).
DeletedAsMade ==
  /\ mismatched \subseteq strayed
  /\ \A e \in Entry : registry[e] # NoHandle =>
       block[registry[e]] \in IF registry[e] \in strayed THEN {"big", "lost"} ELSE {"big"}
  /\ \A h \in given : block[h] = "big" /\ h \notin strayed => \E e \in Entry : registry[e] = h

\* "Those stacks must live in PSRAM and must be deleted through ESP-IDF's matching
\* WithCaps API" (papp_loader.cpp:146): not so when two creates use the same entry.
MatchingDelete == mismatched = {}
=============================================================================
