-------------------------------- MODULE AppTls --------------------------------
(***************************************************************************)
(* TLS connections for apps (papp_loader.cpp): a table of sessions under   *)
(* one mutex, a short-lived task per connect that owns its slot until it   *)
(* ends, and the loader closing what an app left open.                     *)
(*                                                                         *)
(* A call takes the mutex, acts and gives it back.  An app may delete a    *)
(* task of its own at any point of a call; the mutex then stays taken      *)
(* until the loader gives up on the sessions and makes a new one.  A live  *)
(* task gives the mutex back in time (no call under it blocks), so a wait  *)
(* runs out only against a deleted task; such a call changes nothing.      *)
(***************************************************************************)
EXTENDS Integers

CONSTANTS
  SlotCount,  \* APP_TLS_MAX
  GenMod,     \* generations before the handle numbers repeat (2^16)
  MaxConnects,\* bound: how many connects get a number
  Jobs,       \* connects: one connect task and at most one connection each
  Tasks,      \* tasks of the app that make TLS calls
  Main,       \* the app's main task, which is never deleted inside a call
  None

ASSUME AppTlsAssumption ==
  /\ SlotCount \in Nat \ {0} /\ GenMod \in Nat \ {0}
  /\ MaxConnects \in Nat /\ MaxConnects <= GenMod
  /\ Main \in Tasks
  /\ None \notin Jobs \cup Tasks /\ "deleted" \notin Tasks \cup {None}

Slots  == 0 .. SlotCount - 1
Handle == 0 .. GenMod * SlotCount - 1   \* above APP_TLS_HANDLE_BASE

VARIABLES
  app,         \* "none", "running", or "exited" while finish_app_ cleans up
  session,     \* s_app_tls; .job is history: the connect that made the handle
  generation,  \* s_app_tls_generation
  attempts,    \* history: connects that got a number
  job,         \* the connect tasks
  call,        \* what each task of the app is doing
  holder,      \* who has s_app_tls_lock: None, a task, or "deleted"
  closing,     \* connections close_app_tls_ took and still destroys
  live,        \* connections (esp_tls_t) that are allocated
  lost         \* history: connections given up on, never freed

vars == <<app, session, generation, attempts, job, call, holder, closing, live, lost>>

FreeSlot == [handle |-> -1, worker |-> FALSE, state |-> "failed", conn |-> None,
             job |-> None]
NoCall == [op |-> "none", step |-> "idle", of |-> None, conn |-> None]

Init ==
  /\ app = "none"
  /\ attempts = 0
  /\ session = [s \in Slots |-> FreeSlot]
  /\ generation = 0
  /\ job = [j \in Jobs |-> [step |-> "unused", slot |-> 0, handle |-> -1,
                            conn |-> FALSE, ready |-> FALSE, told |-> FALSE]]
  /\ call = [t \in Tasks |-> NoCall]
  /\ holder = None
  /\ closing = {} /\ live = {} /\ lost = {}
-----------------------------------------------------------------------------
(***************************************************************************)
(* Calls of the app's tasks                                                *)
(***************************************************************************)

\* A call takes the lock.  It is about a handle the app was given, one that may
\* be closed by now, or asks for a new connection.
Begin(t, op, j) ==
  /\ app = "running" /\ holder = None
  /\ call[t] = NoCall
  /\ IF op = "connect" THEN j = None ELSE j \in Jobs /\ job[j].told
  /\ holder' = t
  /\ call' = [call EXCEPT ![t] = [op |-> op, step |-> "locked", of |-> j, conn |-> None]]
  /\ UNCHANGED <<app, session, generation, attempts, job, closing, live, lost>>

\* find_app_tls: the slots a handle reaches.
Reached(h) == {s \in Slots : session[s].handle = h}

\* The first slot that no handle and no connect task holds.
IsFree(s) == session[s].handle = -1 /\ ~session[s].worker /\ session[s].conn = None
FirstFree(s) == IsFree(s) /\ \A r \in Slots : r < s => ~IsFree(r)

Locked(t, op) == holder = t /\ call[t].op = op /\ call[t].step = "locked"
Acted(t)   == [call[t] EXCEPT !.step = "acted"]
Took(t, c) == [call[t] EXCEPT !.step = "acted", !.conn = c]

\* A cleared slot; what it holds besides goes.
Cleared(s) == [FreeSlot EXCEPT !.worker = session[s].worker]

\* svc_net_tls_connect with the next generation and the one a handle is made of:
\* every slot is taken, or the first free one is, for a connect task that is not there
\* yet.  (A task deleted between the single fields leaves the slot as here, or without
\* its flag and so free after CloseAll.)
ConnectNumbered(t, next, number) ==
  /\ Locked(t, "connect")
  /\ \/ /\ \A s \in Slots : ~IsFree(s)
        /\ call' = [call EXCEPT ![t] = Acted(t)]
        /\ UNCHANGED <<session, generation, attempts, job>>
     \/ \E s \in Slots, j \in Jobs :
          LET h == number * SlotCount + s
          IN /\ FirstFree(s) /\ job[j].step = "unused"
             /\ attempts < MaxConnects /\ attempts' = attempts + 1
             /\ generation' = next
             /\ session' = [session EXCEPT ![s] =
                   [handle |-> h, worker |-> TRUE, state |-> "connecting",
                    conn |-> None, job |-> j]]
             /\ job' = [job EXCEPT ![j] =
                   [job[j] EXCEPT !.step = "starting", !.slot = s, !.handle = h]]
             /\ call' = [call EXCEPT ![t] = [call[t] EXCEPT !.step = "starts", !.of = j]]
  /\ UNCHANGED <<app, holder, closing, live, lost>>

NextGeneration == (generation + 1) % GenMod

\* Faulty variants: the number of a handle is its slot alone; the generation is
\* not kept to its width.
ConnectUnnumbered(t) == ConnectNumbered(t, NextGeneration, 0)
ConnectUnmasked(t)   == ConnectNumbered(t, generation + 1, generation + 1)

Connect(t) == ConnectNumbered(t, NextGeneration, NextGeneration)

\* Then the connect task is created, or cannot be and the slot is cleared.
ConnectStarts(t) ==
  /\ call[t].step = "starts"
  /\ LET j == call[t].of
     IN \/ /\ job' = [job EXCEPT ![j] = [job[j] EXCEPT !.step = "working"]]
           /\ call' = [call EXCEPT ![t] = Acted(t)]
           /\ UNCHANGED session
        \/ /\ session' = [session EXCEPT ![job[j].slot] = FreeSlot]
           /\ job' = [job EXCEPT ![j] = [job[j] EXCEPT !.step = "ended"]]
           /\ call' = [call EXCEPT ![t] = [Acted(t) EXCEPT !.of = None]]
  /\ UNCHANGED <<app, generation, attempts, holder, closing, live, lost>>

\* svc_net_tls_send and svc_net_tls_recv up to the esp-tls call: a connection
\* that is ready is read or written while the lock is held.
Transfer(t) ==
  /\ Locked(t, "transfer")
  /\ LET found == {s \in Reached(job[call[t].of].handle) : session[s].state = "ready"}
     IN IF found = {}
        THEN call' = [call EXCEPT ![t] = Acted(t)]
        ELSE \E s \in found :
               call' = [call EXCEPT ![t] = Took(t, session[s].conn)]
  /\ UNCHANGED <<app, session, generation, attempts, job, holder, closing, live, lost>>

\* svc_net_tls_close: the handle goes; a connect task still there keeps the slot
\* and frees its own connection.
Close(t) ==
  /\ Locked(t, "close")
  /\ IF Reached(job[call[t].of].handle) = {}
     THEN call' = [call EXCEPT ![t] = Acted(t)] /\ UNCHANGED session
     ELSE \E s \in Reached(job[call[t].of].handle) :
            /\ session' = [session EXCEPT ![s] = Cleared(s)]
            /\ call' = [call EXCEPT ![t] = Took(t, session[s].conn)]
  /\ UNCHANGED <<app, generation, attempts, job, holder, closing, live, lost>>

\* The lock is given back: a transfer has stored how it went, a connect has told
\* the app its handle, a close goes on to free what it took.
Give(t) ==
  /\ holder = t /\ call[t].step = "acted"
  /\ holder' = None
  /\ call' = [call EXCEPT ![t] = IF call[t].op = "close" /\ call[t].conn # None
                                 THEN [@ EXCEPT !.step = "destroys"] ELSE NoCall]
  /\ IF call[t].op = "transfer" /\ call[t].conn # None
     THEN \E st \in {"ready", "failed", "closed"}, s \in Reached(job[call[t].of].handle) :
            session' = [session EXCEPT ![s] = [session[s] EXCEPT !.state = st]]
     ELSE UNCHANGED session
  /\ IF call[t].op = "connect" /\ call[t].of # None
     THEN job' = [job EXCEPT ![call[t].of] = [job[call[t].of] EXCEPT !.told = TRUE]] ELSE UNCHANGED job
  /\ UNCHANGED <<app, generation, attempts, closing, live, lost>>

Destroy(t) ==
  /\ call[t].step = "destroys"
  /\ live' = live \ {call[t].conn}
  /\ call' = [call EXCEPT ![t] = NoCall]
  /\ UNCHANGED <<app, session, generation, attempts, job, holder, closing, lost>>

\* svc_task_delete of a task in the middle of a call: its lock stays taken, a
\* connection it took out of the table is never freed, and a connect task it was about
\* to create never comes, so that the slot is stranded.
DeleteTask(t) ==
  /\ app = "running" /\ t # Main /\ call[t] # NoCall
  /\ holder' = IF holder = t THEN "deleted" ELSE holder
  /\ lost' = IF call[t].op = "close" /\ call[t].conn # None
             THEN lost \cup {call[t].conn} ELSE lost
  /\ job' = IF call[t].step = "starts"
            THEN [job EXCEPT ![call[t].of] = [job[call[t].of] EXCEPT !.step = "stranded"]]
            ELSE job
  /\ call' = [call EXCEPT ![t] = NoCall]
  /\ UNCHANGED <<app, session, generation, attempts, closing, live>>
-----------------------------------------------------------------------------
(***************************************************************************)
(* The connect task (app_tls_connect_task)                                 *)
(***************************************************************************)

\* Name lookup, TCP connect and handshake, which may each fail.
Handshake(j) ==
  /\ job[j].step = "working"
  /\ \E conn \in BOOLEAN, ready \in BOOLEAN :
       /\ ready => conn
       /\ job' = [job EXCEPT ![j] =
            [job[j] EXCEPT !.step = "landing", !.conn = conn, !.ready = ready]]
       /\ live' = IF conn THEN live \cup {j} ELSE live
  /\ UNCHANGED <<app, session, generation, attempts, call, holder, closing, lost>>

\* Faulty variant: a connection is kept whoever has the slot's handle.
LandUnasked(j) ==
  /\ job[j].step = "landing" /\ holder = None
  /\ LET s == job[j].slot
     IN /\ session' = [session EXCEPT ![s] = [session[s] EXCEPT
              !.worker = FALSE,
              !.state = IF job[j].ready THEN "ready" ELSE "failed",
              !.conn = IF job[j].ready THEN j ELSE @]]
        /\ job' = [job EXCEPT ![j] = [job[j] EXCEPT !.step =
              IF job[j].conn /\ ~job[j].ready THEN "destroys" ELSE "ended"]]
  /\ UNCHANGED <<app, generation, attempts, call, holder, closing, live, lost>>

\* Faulty variant: a connection nobody waits for is not freed.
LandForgets(j) ==
  /\ job[j].step = "landing" /\ holder = None
  /\ LET s     == job[j].slot
         mine  == session[s].handle = job[j].handle
         kept  == mine /\ job[j].ready
     IN /\ session' = [session EXCEPT ![s] = [session[s] EXCEPT
              !.worker = FALSE,
              !.state = IF mine THEN IF job[j].ready THEN "ready" ELSE "failed" ELSE @,
              !.conn  = IF kept THEN j ELSE @]]
        /\ job' = [job EXCEPT ![j] = [job[j] EXCEPT !.step = "ended"]]
  /\ UNCHANGED <<app, generation, attempts, call, holder, closing, live, lost>>

\* The task gives its slot back and, when the app has not closed the handle
\* meanwhile, hands over the connection.
Land(j) ==
  /\ job[j].step = "landing" /\ holder = None
  /\ LET s     == job[j].slot
         mine  == session[s].handle = job[j].handle
         kept  == mine /\ job[j].ready
     IN /\ session' = [session EXCEPT ![s] = [session[s] EXCEPT
              !.worker = FALSE,
              !.state = IF mine THEN IF job[j].ready THEN "ready" ELSE "failed" ELSE @,
              !.conn  = IF kept THEN j ELSE @]]
        /\ job' = [job EXCEPT ![j] = [job[j] EXCEPT !.step =
              IF job[j].conn /\ ~kept THEN "destroys" ELSE "ended"]]
  /\ UNCHANGED <<app, generation, attempts, call, holder, closing, live, lost>>

LandedDestroys(j) ==
  /\ job[j].step = "destroys"
  /\ live' = live \ {j}
  /\ job' = [job EXCEPT ![j] = [job[j] EXCEPT !.step = "ended"]]
  /\ UNCHANGED <<app, session, generation, attempts, call, holder, closing, lost>>
-----------------------------------------------------------------------------
(***************************************************************************)
(* The app's life and close_app_tls_                                       *)
(***************************************************************************)
AppStarts ==
  /\ app = "none" /\ closing = {}
  /\ app' = "running"
  /\ job' = [j \in Jobs |-> [job[j] EXCEPT !.told = FALSE]]
  /\ UNCHANGED <<session, generation, attempts, call, holder, closing, live, lost>>

AppExits ==
  /\ app = "running" /\ call[Main] = NoCall
  /\ app' = "exited"
  /\ UNCHANGED <<session, generation, attempts, job, call, holder, closing, live, lost>>

Conns == {session[s].conn : s \in Slots} \ {None}

\* Faulty variant: the sessions are closed without the lock.
CloseAllUnlocked ==
  /\ app = "exited" /\ closing = {}
  /\ session' = [s \in Slots |-> Cleared(s)]
  /\ app' = "none"
  /\ closing' = Conns
  /\ holder' = IF holder = "deleted" THEN None ELSE holder
  /\ UNCHANGED <<generation, attempts, job, call, live, lost>>

\* close_app_tls_: closes what the app left open; behind a lock whose task was
\* deleted it gives the sessions up and makes a new lock.
CloseAll ==
  /\ app = "exited" /\ closing = {} /\ holder \in {None, "deleted"}
  /\ session' = [s \in Slots |-> Cleared(s)]
  /\ app' = "none"
  /\ holder' = None
  /\ IF holder = None THEN closing' = Conns /\ UNCHANGED lost
                      ELSE lost' = lost \cup Conns /\ UNCHANGED closing
  /\ UNCHANGED <<generation, attempts, job, call, live>>

CloseAllDestroys ==
  /\ closing # {}
  /\ live' = live \ closing
  /\ closing' = {}
  /\ UNCHANGED <<app, session, generation, attempts, job, call, holder, lost>>
-----------------------------------------------------------------------------
AppCall(t) ==
  \/ \E op \in {"connect", "transfer", "close"}, j \in Jobs \cup {None} : Begin(t, op, j)
  \/ Connect(t) \/ ConnectStarts(t)
  \/ Transfer(t) \/ Close(t) \/ Give(t) \/ Destroy(t) \/ DeleteTask(t)

ConnectTask(j) == Handshake(j) \/ Land(j) \/ LandedDestroys(j)

Next ==
  \/ \E t \in Tasks : AppCall(t)
  \/ \E j \in Jobs : ConnectTask(j)
  \/ AppStarts \/ AppExits \/ CloseAll \/ CloseAllDestroys

Spec == Init /\ [][Next]_vars

\* Connect tasks, running calls and the loop go on; an app need not exit.
Fairness ==
  /\ \A j \in Jobs : WF_vars(ConnectTask(j))
  /\ \A t \in Tasks :
       WF_vars(Connect(t) \/ ConnectStarts(t) \/ Transfer(t) \/ Close(t) \/ Give(t) \/ Destroy(t))
  /\ WF_vars(CloseAll) /\ WF_vars(CloseAllDestroys)
-----------------------------------------------------------------------------
SessionRecord == [handle : Handle \cup {-1}, worker : BOOLEAN,
                  state : {"connecting", "ready", "failed", "closed"},
                  conn : Jobs \cup {None}, job : Jobs \cup {None}]
JobRecord == [step : {"unused", "starting", "stranded", "working", "landing", "destroys",
                      "ended"},
              slot : Slots, handle : Handle \cup {-1},
              conn : BOOLEAN, ready : BOOLEAN, told : BOOLEAN]
CallRecord == [op : {"none", "connect", "transfer", "close"},
               step : {"idle", "locked", "starts", "acted", "destroys"},
               of : Jobs \cup {None}, conn : Jobs \cup {None}]

TypeOK ==
  /\ app \in {"none", "running", "exited"}
  /\ session \in [Slots -> SessionRecord]
  /\ generation \in 0 .. GenMod - 1 /\ attempts \in 0 .. MaxConnects
  /\ job \in [Jobs -> JobRecord]
  /\ call \in [Tasks -> CallRecord]
  /\ holder \in Tasks \cup {None, "deleted"}
  /\ closing \subseteq Jobs /\ live \subseteq Jobs /\ lost \subseteq Jobs

\* Who will free connection c, or has given it up.
Owners(c) ==
  {<<"slot", s>> : s \in {r \in Slots : session[r].conn = c}}
  \cup {<<"task", t>> : t \in {u \in Tasks : call[u].op = "close" /\ call[u].conn = c}}
  \cup (IF job[c].conn /\ job[c].step \in {"landing", "destroys"} THEN {<<"connect">>} ELSE {})
  \cup (IF c \in closing THEN {<<"loader">>} ELSE {})
  \cup (IF c \in lost THEN {<<"lost">>} ELSE {})

\* The slot of a connect task that is about to be created, that never will be, or that
\* works.
HasSlot(j, s) ==
  job[j].slot = s /\ job[j].step \in {"starting", "stranded", "working", "landing"}

\* Every allocated connection has exactly one owner that will free it (its slot,
\* its connect task, a closing task or the loader) or was given up on, and no
\* owner holds one that is gone: nothing is leaked and nothing freed twice.  And a
\* slot has at most one connect task and is not handed out before that has ended,
\* "the slot stays taken until then"; it waits for a task to be created only while
\* a call holds the lock to do so, and is stranded when that call's task was deleted.
OneOwner ==
  /\ \A c \in Jobs :
       /\ c \in live <=> Owners(c) # {}
       /\ \A o, p \in Owners(c) : o = p
  /\ \A s \in Slots :
       /\ session[s].worker <=> \E j \in Jobs : HasSlot(j, s)
       /\ \A j, k \in Jobs : HasSlot(j, s) /\ HasSlot(k, s) => j = k
  /\ \A j \in Jobs : job[j].step = "starting" =>
       \E t \in Tasks : holder = t /\ call[t].step = "starts" /\ call[t].of = j

\* No task reads or writes a connection that another one frees.
TransferOnLive ==
  \A t \in Tasks : call[t].op = "transfer" /\ call[t].conn # None => call[t].conn \in live

\* "A stale handle never reaches a later session": as long as the handle numbers
\* do not repeat, a handle the app was given reaches the session it was given
\* for or none, also after it was closed and the slot was used again.
HandleReachesItsSession ==
  \A j \in Jobs, s \in Slots :
    job[j].step # "unused" /\ session[s].handle = job[j].handle => session[s].job = j

\* What an app left open is freed once it is gone, connects under way included.
LeftOpenIsFreed ==
  \A c \in Jobs : (app = "none" /\ c \in live \ lost) ~> (c \notin live \/ app = "running")
=============================================================================
