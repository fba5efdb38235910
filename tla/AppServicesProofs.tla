--------------------------- MODULE AppServicesProofs ---------------------------
(***************************************************************************)
(* Proofs about what the loader keeps for an app.                          *)
(*                                                                         *)
(* AppTls, for any number of slots, connects and tasks: no connection is   *)
(* leaked, freed twice or freed under a transfer, a slot is not handed out *)
(* under its connect task, and a stale handle reaches nothing.             *)
(*                                                                         *)
(* The two tables without a lock: the tasks with large stacks (AppTasks),  *)
(* for any number of tasks, entries and addresses; and the sockets         *)
(* (AppSockets), for any number of slots and descriptors: the ranges with  *)
(* any callers, and the properties as long as no two calls overlap.        *)
(***************************************************************************)
EXTENDS AppTls, AppSockets, AppTasks, TLAPS

-----------------------------------------------------------------------------
(***************************************************************************)
(* Numbers                                                                 *)
(***************************************************************************)

\* Generations 1 to G are all different when they are counted modulo G.
LEMMA ModDiffers ==
  ASSUME NEW G \in Nat \ {0}, NEW n \in 1 .. G, NEW m \in 1 .. G, n % G = m % G
  PROVE  n = m
<1>1. \A k \in 1 .. G : k % G = IF k = G THEN 0 ELSE k
  BY SMT
<1> QED BY <1>1

\* Counting on modulo G.
LEMMA ModNext ==
  ASSUME NEW G \in Nat \ {0}, NEW n \in 0 .. G - 1
  PROVE  /\ ((n % G) + 1) % G = (n + 1) % G
         /\ (n + 1) % G \in 0 .. G - 1
  BY SMT

\* Handles of a lower generation are lower, whatever their slots.
LEMMA HandlesGrow ==
  ASSUME NEW S \in Nat \ {0}, NEW g \in Nat, NEW h \in Nat, g < h,
         NEW s \in 0 .. S - 1, NEW r \in Nat
  PROVE  g * S + s < h * S + r
<1>1. PICK d \in Nat : h = g + 1 + d
  <2>1. h - g - 1 \in Nat /\ h = g + 1 + (h - g - 1)
    OBVIOUS
  <2> QED BY <2>1
<1>2. /\ h * S = g * S + S + d * S
      /\ d * S \in Nat /\ g * S \in Nat
  BY <1>1
<1> QED BY <1>2

\* A handle number is below the first that no generation has.
LEMMA HandleInRange ==
  ASSUME NEW G \in Nat \ {0}, NEW S \in Nat \ {0}, NEW g \in 0 .. G - 1, NEW s \in 0 .. S - 1
  PROVE  g * S + s \in 0 .. G * S - 1
<1>1. g * S + s < G * S + 0
  BY HandlesGrow
<1>2. g * S \in Nat /\ G * S \in Nat
  OBVIOUS
<1> QED BY <1>1, <1>2

\* Handles of different generations differ, whatever their slots.
LEMMA HandleDiffers ==
  ASSUME NEW S \in Nat \ {0}, NEW g \in Nat, NEW h \in Nat,
         NEW s \in 0 .. S - 1, NEW r \in 0 .. S - 1, g * S + s = h * S + r
  PROVE  g = h
<1>1. g * S \in Nat /\ h * S \in Nat
  OBVIOUS
<1>2. CASE g < h
  BY <1>1, <1>2, HandlesGrow
<1>3. CASE h < g
  BY <1>1, <1>3, HandlesGrow
<1> QED BY <1>2, <1>3
-----------------------------------------------------------------------------
(***************************************************************************)
(* Types                                                                   *)
(***************************************************************************)

\* A call about to create connect task j, and one that could not.
OfJob(t, j)  == [call[t] EXCEPT !.step = "starts", !.of = j]
Unstarted(t) == [Acted(t) EXCEPT !.of = None]

\* What a call becomes, a cleared slot and a slot given to a connect task are
\* records of their types.
LEMMA RecordTypes ==
  ASSUME TypeOK
  PROVE  /\ NoCall \in CallRecord
         /\ \A t \in Tasks : /\ Acted(t) \in CallRecord /\ Unstarted(t) \in CallRecord
                             /\ [call[t] EXCEPT !.step = "destroys"] \in CallRecord
                             /\ \A c \in Jobs \cup {None} : Took(t, c) \in CallRecord
                             /\ \A j \in Jobs : OfJob(t, j) \in CallRecord
                             /\ call[t].of \in Jobs \cup {None}
                             /\ call[t].conn \in Jobs \cup {None}
         /\ FreeSlot \in SessionRecord
         /\ \A s \in Slots : /\ Cleared(s) \in SessionRecord
                             /\ session[s].conn \in Jobs \cup {None}
         /\ \A j \in Jobs : job[j].slot \in Slots
<1>1. NoCall \in CallRecord
  BY DEF NoCall, CallRecord
<1>2. ASSUME NEW t \in Tasks
      PROVE  /\ Acted(t) \in CallRecord /\ Unstarted(t) \in CallRecord
             /\ [call[t] EXCEPT !.step = "destroys"] \in CallRecord
             /\ \A c \in Jobs \cup {None} : Took(t, c) \in CallRecord
             /\ \A j \in Jobs : OfJob(t, j) \in CallRecord
             /\ call[t].of \in Jobs \cup {None}
             /\ call[t].conn \in Jobs \cup {None}
  <2>1. call[t] \in CallRecord
    BY DEF TypeOK
  <2> QED BY <2>1 DEF Acted, Took, Unstarted, OfJob, CallRecord
<1>3. FreeSlot \in SessionRecord
  BY DEF FreeSlot, SessionRecord
<1>4. ASSUME NEW s \in Slots
      PROVE  Cleared(s) \in SessionRecord /\ session[s].conn \in Jobs \cup {None}
  <2>1. session[s] \in SessionRecord
    BY DEF TypeOK
  <2> QED BY <2>1 DEF Cleared, FreeSlot, SessionRecord
<1>5. ASSUME NEW j \in Jobs PROVE job[j].slot \in Slots
  <2>1. job[j] \in JobRecord
    BY DEF TypeOK
  <2> QED BY <2>1 DEF JobRecord
<1> QED BY <1>1, <1>2, <1>3, <1>4, <1>5

\* A session and a connect task keep their types under the updates of one field.
LEMMA FieldTypes ==
  /\ \A r \in SessionRecord :
       /\ \A st \in {"ready", "failed", "closed"} : [r EXCEPT !.state = st] \in SessionRecord
       /\ \A st \in {"connecting", "ready", "failed", "closed"}, c \in Jobs \cup {None} :
            [r EXCEPT !.worker = FALSE, !.state = st, !.conn = c] \in SessionRecord
       /\ r.state \in {"connecting", "ready", "failed", "closed"}
       /\ r.conn \in Jobs \cup {None}
  /\ \A r \in JobRecord :
       /\ \A told \in BOOLEAN : [r EXCEPT !.told = told] \in JobRecord
       /\ \A step \in {"stranded", "working", "destroys", "ended"} : [r EXCEPT !.step = step] \in JobRecord
       /\ \A conn, ready \in BOOLEAN :
            [r EXCEPT !.step = "landing", !.conn = conn, !.ready = ready] \in JobRecord
       /\ \A s \in Slots, h \in Handle :
            [r EXCEPT !.step = "starting", !.slot = s, !.handle = h] \in JobRecord
  BY DEF SessionRecord, JobRecord

\* The generation and the handle of a connect are within their widths.
LEMMA NextInRange ==
  ASSUME TypeOK
  PROVE  /\ NextGeneration \in 0 .. GenMod - 1
         /\ \A s \in Slots : NextGeneration * SlotCount + s \in Handle
<1>1. NextGeneration \in 0 .. GenMod - 1
  BY AppTlsAssumption DEF NextGeneration, TypeOK
<1> QED BY <1>1, AppTlsAssumption, HandleInRange DEF Slots, Handle

\* The outcomes of a connect: every slot is taken, or connect task j is about to be
\* created for slot s; and then of that: the task runs, or the slot is cleared.
ConnectFull(t) ==
  /\ call' = [call EXCEPT ![t] = Acted(t)]
  /\ UNCHANGED <<app, session, generation, attempts, job, holder, closing, live, lost>>

ConnectCounts(s) ==
  /\ FirstFree(s)
  /\ attempts < MaxConnects /\ attempts' = attempts + 1
  /\ generation' = NextGeneration
  /\ UNCHANGED <<app, holder, closing, live, lost>>

Taken(h, j) ==
  [handle |-> h, worker |-> TRUE, state |-> "connecting", conn |-> None, job |-> j]
Starting(j, s, h) == [job[j] EXCEPT !.step = "starting", !.slot = s, !.handle = h]
Stepped(j, step)  == [job[j] EXCEPT !.step = step]

ConnectTakes(t, s, j) ==
  /\ ConnectCounts(s)
  /\ job[j].step = "unused"
  /\ session' = [session EXCEPT ![s] = Taken(NextGeneration * SlotCount + s, j)]
  /\ job' = [job EXCEPT ![j] = Starting(j, s, NextGeneration * SlotCount + s)]
  /\ call' = [call EXCEPT ![t] = OfJob(t, j)]

StartRuns(t, j) ==
  /\ session' = session
  /\ job' = [job EXCEPT ![j] = Stepped(j, "working")]
  /\ call' = [call EXCEPT ![t] = Acted(t)]

StartFails(t, j) ==
  /\ session' = [session EXCEPT ![job[j].slot] = FreeSlot]
  /\ job' = [job EXCEPT ![j] = Stepped(j, "ended")]
  /\ call' = [call EXCEPT ![t] = Unstarted(t)]

LEMMA ConnectCases ==
  ASSUME TypeOK, NEW t \in Tasks, Connect(t)
  PROVE  /\ Locked(t, "connect")
         /\ \/ ConnectFull(t)
            \/ \E s \in Slots, j \in Jobs : ConnectTakes(t, s, j)
  BY Zenon
  DEF Connect, ConnectNumbered, ConnectFull, ConnectCounts, ConnectTakes, Taken, Starting, OfJob

LEMMA StartCases ==
  ASSUME TypeOK, NEW t \in Tasks, ConnectStarts(t)
  PROVE  /\ call[t].step = "starts"
         /\ UNCHANGED <<app, generation, attempts, holder, closing, live, lost>>
         /\ StartRuns(t, call[t].of) \/ StartFails(t, call[t].of)
  BY Zenon DEF ConnectStarts, StartRuns, StartFails, Stepped, Unstarted

\* What a connect does to the types.
LEMMA ConnectType ==
  ASSUME TypeOK, NEW t \in Tasks, Connect(t)
  PROVE  TypeOK'
<1>1. CASE ConnectFull(t)
  BY <1>1, RecordTypes DEF ConnectFull, TypeOK
<1>2. ASSUME NEW s \in Slots, ConnectCounts(s)
      PROVE  generation' \in 0 .. GenMod - 1 /\ attempts' \in 0 .. MaxConnects
  BY <1>2, NextInRange, AppTlsAssumption DEF ConnectCounts, TypeOK
<1>4. ASSUME NEW s \in Slots, NEW j \in Jobs, ConnectTakes(t, s, j) PROVE TypeOK'
  <2>1. PICK h \in Handle : h = NextGeneration * SlotCount + s
    BY NextInRange
  <2>2. Taken(h, j) \in SessionRecord
    BY DEF Taken, SessionRecord
  <2>3. Starting(j, s, h) \in JobRecord
    BY FieldTypes DEF Starting, TypeOK
  <2>4. OfJob(t, j) \in CallRecord
    BY RecordTypes
  <2>5. generation' \in 0 .. GenMod - 1 /\ attempts' \in 0 .. MaxConnects
    BY <1>2, <1>4 DEF ConnectTakes
  <2>6. /\ session' = [session EXCEPT ![s] = Taken(h, j)]
        /\ job' = [job EXCEPT ![j] = Starting(j, s, h)]
        /\ call' = [call EXCEPT ![t] = OfJob(t, j)]
        /\ UNCHANGED <<app, holder, closing, live, lost>>
    BY <1>4, <2>1 DEF ConnectTakes, ConnectCounts
  <2> QED BY <2>2, <2>3, <2>4, <2>5, <2>6 DEF TypeOK
<1> QED BY <1>1, <1>4, ConnectCases

\* What creating the connect task does to them; a task j that is none changes nothing.
LEMMA StartType ==
  ASSUME TypeOK, NEW t \in Tasks, ConnectStarts(t)
  PROVE  TypeOK'
<1>1. Acted(t) \in CallRecord /\ Unstarted(t) \in CallRecord /\ FreeSlot \in SessionRecord
  BY RecordTypes
<1>2. \A j \in Jobs : Stepped(j, "working") \in JobRecord /\ Stepped(j, "ended") \in JobRecord
  BY FieldTypes DEF Stepped, TypeOK
<1>3. session' \in [Slots -> SessionRecord]
  BY <1>1, StartCases DEF StartRuns, StartFails, TypeOK
<1>4. job' \in [Jobs -> JobRecord]
  BY <1>2, StartCases DEF StartRuns, StartFails, TypeOK
<1>5. call' \in [Tasks -> CallRecord]
  BY <1>1, StartCases DEF StartRuns, StartFails, TypeOK
<1> QED BY <1>3, <1>4, <1>5, StartCases DEF TypeOK

\* What a handshake and a landing make of the connect task and its slot.
Landing(j, conn, ready) ==
  [job[j] EXCEPT !.step = "landing", !.conn = conn, !.ready = ready]

Mine(s, j) == session[s].handle = job[j].handle
Kept(s, j) == Mine(s, j) /\ job[j].ready
Landed(s, j) ==
  [session[s] EXCEPT !.worker = FALSE,
     !.state = IF Mine(s, j) THEN IF job[j].ready THEN "ready" ELSE "failed" ELSE @,
     !.conn  = IF Kept(s, j) THEN j ELSE @]
JobOver(j) ==
  [job[j] EXCEPT !.step = IF job[j].conn /\ ~Kept(job[j].slot, j) THEN "destroys" ELSE "ended"]

LEMMA LandCases ==
  ASSUME TypeOK, NEW j \in Jobs, Land(j)
  PROVE  /\ job[j].step = "landing" /\ holder = None
         /\ session' = [session EXCEPT ![job[j].slot] = Landed(job[j].slot, j)]
         /\ job' = [job EXCEPT ![j] = JobOver(j)]
         /\ UNCHANGED <<app, generation, attempts, call, holder, closing, live, lost>>
  BY DEF Land, Landed, JobOver, Mine, Kept

\* The outcomes of a close: the handle reaches nothing, or slot s.
CloseCleared(t, s) ==
  /\ session[s].handle = job[call[t].of].handle
  /\ session' = [session EXCEPT ![s] = Cleared(s)]
  /\ call' = [call EXCEPT ![t] = Took(t, session[s].conn)]

LEMMA CloseCases ==
  ASSUME TypeOK, NEW t \in Tasks, Close(t)
  PROVE  /\ Locked(t, "close")
         /\ UNCHANGED <<app, generation, attempts, job, holder, closing, live, lost>>
         /\ \/ call' = [call EXCEPT ![t] = Acted(t)] /\ session' = session
            \/ \E s \in Slots : CloseCleared(t, s)
<1>1. CASE Reached(job[call[t].of].handle) = {}
  BY <1>1 DEF Close
<1>2. CASE Reached(job[call[t].of].handle) # {}
  <2>1. PICK s \in Reached(job[call[t].of].handle) :
          /\ session' = [session EXCEPT ![s] = Cleared(s)]
          /\ call' = [call EXCEPT ![t] = Took(t, session[s].conn)]
    BY <1>2 DEF Close
  <2>2. s \in Slots /\ CloseCleared(t, s)
    BY <2>1 DEF Reached, CloseCleared
  <2> QED BY <2>2 DEF Close
<1> QED BY <1>1, <1>2

\* What a call that gives the lock back has done besides: a close goes on, a
\* transfer stores how it went in a slot, a connect tells its handle.
Destroys(t) == [call[t] EXCEPT !.step = "destroys"]
Rated(s, st) == [session[s] EXCEPT !.state = st]
JobTold(j)     == [job[j] EXCEPT !.told = TRUE]
Untold(j)   == [job[j] EXCEPT !.told = FALSE]

LEMMA GiveCases ==
  ASSUME TypeOK, NEW t \in Tasks, Give(t)
  PROVE  /\ holder = t /\ call[t].step = "acted" /\ holder' = None
         /\ UNCHANGED <<app, generation, attempts, closing, live, lost>>
         /\ \/ call[t].op = "close" /\ call[t].conn # None
               /\ call' = [call EXCEPT ![t] = Destroys(t)]
            \/ ~(call[t].op = "close" /\ call[t].conn # None)
               /\ call' = [call EXCEPT ![t] = NoCall]
         /\ \/ session' = session
            \/ \E s \in Slots, st \in {"ready", "failed", "closed"} :
                 session' = [session EXCEPT ![s] = Rated(s, st)]
         /\ \/ job' = job
            \/ call[t].of \in Jobs
               /\ job' = [job EXCEPT ![call[t].of] = JobTold(call[t].of)]
<1>1. /\ holder = t /\ call[t].step = "acted" /\ holder' = None
      /\ UNCHANGED <<app, generation, attempts, closing, live, lost>>
  BY DEF Give
<1>2. \/ call[t].op = "close" /\ call[t].conn # None
         /\ call' = [call EXCEPT ![t] = Destroys(t)]
      \/ ~(call[t].op = "close" /\ call[t].conn # None)
         /\ call' = [call EXCEPT ![t] = NoCall]
  BY DEF Give, Destroys
<1>3. \/ session' = session
      \/ \E s \in Slots, st \in {"ready", "failed", "closed"} :
           session' = [session EXCEPT ![s] = Rated(s, st)]
  <2>1. CASE call[t].op = "transfer" /\ call[t].conn # None
    <3>1. PICK st \in {"ready", "failed", "closed"}, s \in Reached(job[call[t].of].handle) :
            session' = [session EXCEPT ![s] = Rated(s, st)]
      BY <2>1, Zenon DEF Give, Rated
    <3>2. s \in Slots
      BY DEF Reached
    <3> QED BY <3>1, <3>2
  <2>2. CASE ~(call[t].op = "transfer" /\ call[t].conn # None)
    BY <2>2 DEF Give
  <2> QED BY <2>1, <2>2
<1>4. \/ job' = job
      \/ call[t].of \in Jobs
         /\ job' = [job EXCEPT ![call[t].of] = JobTold(call[t].of)]
  <2>1. call[t].of \in Jobs \cup {None}
    BY RecordTypes
  <2> QED BY <2>1 DEF Give, JobTold
<1> QED BY <1>1, <1>2, <1>3, <1>4

LEMMA InitTypes == Init => TypeOK
  BY AppTlsAssumption
  DEF Init, TypeOK, FreeSlot, NoCall, Slots, Handle, SessionRecord, JobRecord, CallRecord

\* The types hold on, action by action.
LEMMA NextTypes == TypeOK /\ [Next]_vars => TypeOK'
<1> SUFFICES ASSUME TypeOK, [Next]_vars PROVE TypeOK'
  OBVIOUS
<1>1. ASSUME NEW t \in Tasks, NEW op \in {"connect", "transfer", "close"},
             NEW j \in Jobs \cup {None}, Begin(t, op, j)
      PROVE  TypeOK'
  <2>1. [op |-> op, step |-> "locked", of |-> j, conn |-> None] \in CallRecord
    BY DEF CallRecord
  <2> QED BY <1>1, <2>1 DEF Begin, TypeOK
<1>2. ASSUME NEW t \in Tasks, Connect(t) PROVE TypeOK'
  BY <1>2, ConnectType
<1>16. ASSUME NEW t \in Tasks, ConnectStarts(t) PROVE TypeOK'
  BY <1>16, StartType
<1>3. ASSUME NEW t \in Tasks, Transfer(t) PROVE TypeOK'
  BY <1>3, RecordTypes DEF Transfer, Reached, TypeOK
<1>4. ASSUME NEW t \in Tasks, Close(t) PROVE TypeOK'
  <2>1. Acted(t) \in CallRecord
        /\ \A s \in Slots : Cleared(s) \in SessionRecord
                            /\ Took(t, session[s].conn) \in CallRecord
    BY RecordTypes
  <2>2. CASE call' = [call EXCEPT ![t] = Acted(t)] /\ session' = session
    BY <1>4, <2>1, <2>2, CloseCases DEF TypeOK
  <2>3. ASSUME NEW s \in Slots, CloseCleared(t, s) PROVE TypeOK'
    BY <1>4, <2>1, <2>3, CloseCases DEF CloseCleared, TypeOK
  <2> QED BY <1>4, <2>2, <2>3, CloseCases
<1>5. ASSUME NEW t \in Tasks, Give(t) PROVE TypeOK'
  <2>1. NoCall \in CallRecord /\ Destroys(t) \in CallRecord
    BY RecordTypes DEF Destroys
  <2>2. /\ \A s \in Slots, st \in {"ready", "failed", "closed"} : Rated(s, st) \in SessionRecord
        /\ \A j \in Jobs : JobTold(j) \in JobRecord
    BY FieldTypes DEF Rated, JobTold, TypeOK
  <2>3. call' \in [Tasks -> CallRecord]
    BY <1>5, <2>1, GiveCases DEF TypeOK
  <2>4. session' \in [Slots -> SessionRecord]
    BY <1>5, <2>2, GiveCases DEF TypeOK
  <2>5. job' \in [Jobs -> JobRecord]
    BY <1>5, <2>2, GiveCases DEF TypeOK
  <2> QED BY <1>5, <2>3, <2>4, <2>5, GiveCases DEF TypeOK
<1>6. ASSUME NEW t \in Tasks, Destroy(t) PROVE TypeOK'
  <2>1. NoCall \in CallRecord /\ live' \subseteq live
    BY <1>6, RecordTypes DEF Destroy
  <2> QED BY <1>6, <2>1 DEF Destroy, TypeOK
<1>14. ASSUME NEW t \in Tasks, DeleteTask(t) PROVE TypeOK'
  <2>1. NoCall \in CallRecord /\ call[t].conn \in Jobs \cup {None}
    BY RecordTypes
  <2>2. lost' \subseteq lost \cup ({call[t].conn} \ {None})
    BY <1>14 DEF DeleteTask
  <2>3. holder' \in {holder, "deleted"}
    BY <1>14 DEF DeleteTask
  <2>4. \A j \in Jobs : Stepped(j, "stranded") \in JobRecord
    BY FieldTypes DEF Stepped, TypeOK
  <2>5. job' \in [Jobs -> JobRecord]
    BY <1>14, <2>4 DEF DeleteTask, Stepped, TypeOK
  <2> QED BY <1>14, <2>1, <2>2, <2>3, <2>5 DEF DeleteTask, TypeOK
<1>7. ASSUME NEW j \in Jobs, Handshake(j) PROVE TypeOK'
  <2>1. PICK conn \in BOOLEAN, ready \in BOOLEAN :
          /\ job' = [job EXCEPT ![j] = Landing(j, conn, ready)]
          /\ live' = IF conn THEN live \cup {j} ELSE live
    BY <1>7, Zenon DEF Handshake, Landing
  <2>2. Landing(j, conn, ready) \in JobRecord
    BY FieldTypes DEF Landing, TypeOK
  <2>3. live' \subseteq Jobs
    BY <2>1 DEF TypeOK
  <2> QED BY <1>7, <2>1, <2>2, <2>3 DEF Handshake, TypeOK
<1>15. ASSUME NEW j \in Jobs, LandedDestroys(j) PROVE TypeOK'
  <2>1. [job[j] EXCEPT !.step = "ended"] \in JobRecord
    BY FieldTypes DEF TypeOK
  <2> QED BY <1>15, <2>1 DEF LandedDestroys, TypeOK
<1>8. ASSUME NEW j \in Jobs, Land(j) PROVE TypeOK'
  <2>1. job[j].slot \in Slots /\ session[job[j].slot] \in SessionRecord
    BY RecordTypes DEF TypeOK
  <2>2. Landed(job[j].slot, j) \in SessionRecord /\ JobOver(j) \in JobRecord
    BY <2>1, FieldTypes DEF Landed, JobOver, TypeOK
  <2> QED BY <1>8, <2>1, <2>2, LandCases DEF TypeOK
<1>9. CASE AppStarts
  BY <1>9, FieldTypes DEF AppStarts, TypeOK
<1>10. CASE AppExits
  BY <1>10 DEF AppExits, TypeOK
<1>11. CASE CloseAll
  <2>1. Conns \subseteq Jobs
    BY RecordTypes DEF Conns
  <2> QED BY <1>11, <2>1, RecordTypes DEF CloseAll, TypeOK
<1>12. CASE CloseAllDestroys
  BY <1>12 DEF CloseAllDestroys, TypeOK
<1>13. CASE UNCHANGED vars
  BY <1>13 DEF vars, TypeOK
<1> QED
  BY <1>1, <1>2, <1>3, <1>4, <1>5, <1>6, <1>7, <1>8, <1>9, <1>10, <1>11, <1>12, <1>13,
     <1>14, <1>15, <1>16
  DEF Next, AppCall, ConnectTask

\* Every variable keeps its range: generations and handle numbers stay within
\* their width, and every call, session and connect task is one the code knows.
THEOREM TypeCorrect == Spec => []TypeOK
  BY InitTypes, NextTypes, PTL DEF Spec
-----------------------------------------------------------------------------
(***************************************************************************)
(* What each action does to the fields the invariant is about              *)
(***************************************************************************)

\* The fields of a record that an update leaves or sets.
LEMMA FieldValues ==
  ASSUME TypeOK
  PROVE  /\ \A t \in Tasks :
              /\ Acted(t).op = call[t].op /\ Acted(t).step = "acted"
              /\ Acted(t).conn = call[t].conn
              /\ Destroys(t).op = call[t].op /\ Destroys(t).step = "destroys"
              /\ Destroys(t).conn = call[t].conn
              /\ \A c \in Jobs \cup {None} :
                   Took(t, c).op = call[t].op /\ Took(t, c).step = "acted" /\ Took(t, c).conn = c
              /\ Acted(t).of = call[t].of /\ Destroys(t).of = call[t].of
              /\ Unstarted(t).op = call[t].op /\ Unstarted(t).step = "acted"
              /\ Unstarted(t).conn = call[t].conn
              /\ \A j \in Jobs : /\ OfJob(t, j).op = call[t].op /\ OfJob(t, j).step = "starts"
                                 /\ OfJob(t, j).conn = call[t].conn /\ OfJob(t, j).of = j
         /\ NoCall.op = "none" /\ NoCall.step = "idle" /\ NoCall.conn = None
<1>1. ASSUME NEW t \in Tasks
      PROVE  /\ Acted(t).op = call[t].op /\ Acted(t).step = "acted"
             /\ Acted(t).conn = call[t].conn
             /\ Destroys(t).op = call[t].op /\ Destroys(t).step = "destroys"
             /\ Destroys(t).conn = call[t].conn
             /\ \A c \in Jobs \cup {None} :
                  Took(t, c).op = call[t].op /\ Took(t, c).step = "acted" /\ Took(t, c).conn = c
             /\ Acted(t).of = call[t].of /\ Destroys(t).of = call[t].of
             /\ Unstarted(t).op = call[t].op /\ Unstarted(t).step = "acted"
             /\ Unstarted(t).conn = call[t].conn
             /\ \A j \in Jobs : /\ OfJob(t, j).op = call[t].op /\ OfJob(t, j).step = "starts"
                                /\ OfJob(t, j).conn = call[t].conn /\ OfJob(t, j).of = j
  <2>1. call[t] \in CallRecord
    BY DEF TypeOK
  <2> QED BY <2>1 DEF Acted, Destroys, Took, OfJob, Unstarted, CallRecord
<1>2. NoCall.op = "none" /\ NoCall.step = "idle" /\ NoCall.conn = None
  BY DEF NoCall
<1> QED BY <1>1, <1>2

\* The fields of a slot: cleared, free, given to a connect task, rated, landed in.
LEMMA SlotValues ==
  ASSUME TypeOK, NEW s \in Slots
  PROVE  /\ Cleared(s).handle = -1 /\ Cleared(s).conn = None /\ Cleared(s).job = None
         /\ Cleared(s).worker = session[s].worker
         /\ FreeSlot.handle = -1 /\ FreeSlot.conn = None /\ FreeSlot.job = None
         /\ FreeSlot.worker = FALSE
         /\ \A st \in {"ready", "failed", "closed"} :
              /\ Rated(s, st).handle = session[s].handle /\ Rated(s, st).conn = session[s].conn
              /\ Rated(s, st).worker = session[s].worker /\ Rated(s, st).job = session[s].job
         /\ \A j \in Jobs :
              /\ Landed(s, j).handle = session[s].handle /\ Landed(s, j).job = session[s].job
              /\ Landed(s, j).worker = FALSE
              /\ Landed(s, j).conn = IF Kept(s, j) THEN j ELSE session[s].conn
         /\ \A j \in Jobs, h \in Handle :
              /\ Taken(h, j).handle = h /\ Taken(h, j).job = j
              /\ Taken(h, j).worker = TRUE /\ Taken(h, j).conn = None
<1>1. session[s] \in SessionRecord
  BY DEF TypeOK
<1>2. FreeSlot.handle = -1 /\ FreeSlot.conn = None /\ FreeSlot.job = None /\ FreeSlot.worker = FALSE
  BY DEF FreeSlot
<1>3. Cleared(s).handle = -1 /\ Cleared(s).conn = None /\ Cleared(s).job = None
      /\ Cleared(s).worker = session[s].worker
  BY DEF Cleared, FreeSlot
<1>4. ASSUME NEW st \in {"ready", "failed", "closed"}
      PROVE  /\ Rated(s, st).handle = session[s].handle /\ Rated(s, st).conn = session[s].conn
             /\ Rated(s, st).worker = session[s].worker /\ Rated(s, st).job = session[s].job
  BY <1>1 DEF Rated, SessionRecord
<1>5. ASSUME NEW j \in Jobs
      PROVE  /\ Landed(s, j).handle = session[s].handle /\ Landed(s, j).job = session[s].job
             /\ Landed(s, j).worker = FALSE
             /\ Landed(s, j).conn = IF Kept(s, j) THEN j ELSE session[s].conn
  BY <1>1 DEF Landed, SessionRecord
<1>6. ASSUME NEW j \in Jobs, NEW h \in Handle
      PROVE  /\ Taken(h, j).handle = h /\ Taken(h, j).job = j
             /\ Taken(h, j).worker = TRUE /\ Taken(h, j).conn = None
  BY DEF Taken
<1> QED BY <1>2, <1>3, <1>4, <1>5, <1>6

\* The fields of a connect task: running, landing, ended, told, told anew.
LEMMA JobValues ==
  ASSUME TypeOK, NEW j \in Jobs
  PROVE  /\ \A s \in Slots, h \in Handle :
              /\ Starting(j, s, h).step = "starting" /\ Starting(j, s, h).slot = s
              /\ Starting(j, s, h).handle = h
              /\ Starting(j, s, h).conn = job[j].conn /\ Starting(j, s, h).ready = job[j].ready
         /\ \A conn, ready \in BOOLEAN :
              /\ Landing(j, conn, ready).step = "landing"
              /\ Landing(j, conn, ready).conn = conn /\ Landing(j, conn, ready).ready = ready
              /\ Landing(j, conn, ready).slot = job[j].slot
              /\ Landing(j, conn, ready).handle = job[j].handle
         /\ JobOver(j).step = (IF job[j].conn /\ ~Kept(job[j].slot, j) THEN "destroys" ELSE "ended")
         /\ JobOver(j).slot = job[j].slot /\ JobOver(j).handle = job[j].handle
         /\ JobOver(j).conn = job[j].conn /\ JobOver(j).ready = job[j].ready
         /\ \A r \in {JobTold(j), Untold(j)} :
              /\ r.step = job[j].step /\ r.slot = job[j].slot /\ r.handle = job[j].handle
              /\ r.conn = job[j].conn /\ r.ready = job[j].ready
         /\ LET r == [job[j] EXCEPT !.step = "ended"]
            IN /\ r.step = "ended" /\ r.slot = job[j].slot /\ r.handle = job[j].handle
               /\ r.conn = job[j].conn /\ r.ready = job[j].ready
         /\ \A step \in {"stranded", "working", "ended"} :
              LET r == Stepped(j, step)
              IN /\ r.step = step /\ r.slot = job[j].slot /\ r.handle = job[j].handle
                 /\ r.conn = job[j].conn /\ r.ready = job[j].ready
<1>1. job[j] \in JobRecord
  BY DEF TypeOK
<1>2. /\ \A s \in Slots, h \in Handle :
              /\ Starting(j, s, h).step = "starting" /\ Starting(j, s, h).slot = s
              /\ Starting(j, s, h).handle = h
              /\ Starting(j, s, h).conn = job[j].conn /\ Starting(j, s, h).ready = job[j].ready
      /\ \A conn, ready \in BOOLEAN :
              /\ Landing(j, conn, ready).step = "landing"
              /\ Landing(j, conn, ready).conn = conn /\ Landing(j, conn, ready).ready = ready
              /\ Landing(j, conn, ready).slot = job[j].slot
              /\ Landing(j, conn, ready).handle = job[j].handle
  BY <1>1 DEF Starting, Landing, JobRecord
<1>3. /\ JobOver(j).step = (IF job[j].conn /\ ~Kept(job[j].slot, j) THEN "destroys" ELSE "ended")
      /\ JobOver(j).slot = job[j].slot /\ JobOver(j).handle = job[j].handle
      /\ JobOver(j).conn = job[j].conn /\ JobOver(j).ready = job[j].ready
  BY <1>1 DEF JobOver, JobRecord
<1>4. \A r \in {JobTold(j), Untold(j)} :
        /\ r.step = job[j].step /\ r.slot = job[j].slot /\ r.handle = job[j].handle
        /\ r.conn = job[j].conn /\ r.ready = job[j].ready
  BY <1>1 DEF JobTold, Untold, JobRecord
<1>5. LET r == [job[j] EXCEPT !.step = "ended"]
      IN /\ r.step = "ended" /\ r.slot = job[j].slot /\ r.handle = job[j].handle
         /\ r.conn = job[j].conn /\ r.ready = job[j].ready
  BY <1>1 DEF JobRecord
<1>6. \A step \in {"stranded", "working", "ended"} :
        LET r == Stepped(j, step)
        IN /\ r.step = step /\ r.slot = job[j].slot /\ r.handle = job[j].handle
           /\ r.conn = job[j].conn /\ r.ready = job[j].ready
  BY <1>1 DEF Stepped, JobRecord
<1> QED BY <1>2, <1>3, <1>4, <1>5, <1>6
-----------------------------------------------------------------------------
(***************************************************************************)
(* The inductive invariant                                                 *)
(***************************************************************************)

\* Who holds the lock is in its call; a connection in a call is there for a
\* reason, and one that is read or written is still in its slot.
CallsOK ==
  \A t \in Tasks :
    /\ holder = t <=> call[t].step \in {"locked", "starts", "acted"}
    /\ call[t].step = "idle" => call[t].op = "none" /\ call[t].conn = None
    /\ call[t].step = "locked" \/ call[t].op = "connect" => call[t].conn = None
    /\ call[t].step = "destroys" => call[t].op = "close" /\ call[t].conn # None
    /\ call[t].step = "starts" => call[t].op = "connect"
    /\ call[t].op = "transfer" /\ call[t].conn # None =>
         \E s \in Slots : session[s].conn = call[t].conn

JobsOK ==
  \A j \in Jobs :
    /\ job[j].ready \/ job[j].step = "destroys" => job[j].conn
    /\ job[j].conn => job[j].step \notin {"unused", "starting", "stranded", "working"}

\* A connect task is about to be created exactly by the call that says so.
StartsOK ==
  /\ \A t \in Tasks : call[t].step = "starts" =>
       call[t].of \in Jobs /\ job[call[t].of].step = "starting"
  /\ \A j \in Jobs : job[j].step = "starting" =>
       \E t \in Tasks : call[t].step = "starts" /\ call[t].of = j

InSlot(c, s) == session[s].conn = c
ClosesConn(c, t) == call[t].op = "close" /\ call[t].conn = c
Lands(c)     == job[c].conn /\ job[c].step \in {"landing", "destroys"}
GivenUp(c)  == c \in closing \/ c \in lost

\* The owners of a connection exclude each other, and any but the connect task
\* comes after the connect task has ended.
OwnersOK ==
  \A c \in Jobs :
    /\ c \in live <=> \/ \E s \in Slots : InSlot(c, s)
                      \/ \E t \in Tasks : ClosesConn(c, t)
                      \/ Lands(c) \/ GivenUp(c)
    /\ \A s \in Slots : InSlot(c, s) => job[c].step = "ended" /\ ~GivenUp(c)
    /\ \A t \in Tasks : ClosesConn(c, t) => job[c].step = "ended" /\ ~GivenUp(c)
    /\ GivenUp(c) => job[c].step = "ended"
    /\ ~(c \in closing /\ c \in lost)
    /\ \A s \in Slots, t \in Tasks : ~(InSlot(c, s) /\ ClosesConn(c, t))
    /\ \A s, r \in Slots : InSlot(c, s) /\ InSlot(c, r) => s = r
    /\ \A t, u \in Tasks : ClosesConn(c, t) /\ ClosesConn(c, u) => t = u

\* A slot's flag says whether a connect task works in it; one at most does.
SlotsOK ==
  \A s \in Slots :
    /\ session[s].worker <=> \E j \in Jobs : HasSlot(j, s)
    /\ \A j, k \in Jobs : HasSlot(j, s) /\ HasSlot(k, s) => j = k
    /\ session[s].worker => session[s].conn = None

\* Handles are made of the counted generation and the slot, so that no two
\* connects that were numbered share one; a slot has the handle of its connect.
HandlesOK ==
  /\ generation = attempts % GenMod
  /\ \A j \in Jobs : job[j].step # "unused" =>
       \E n \in 1 .. attempts : job[j].handle = (n % GenMod) * SlotCount + job[j].slot
  /\ \A j, k \in Jobs :
       job[j].step # "unused" /\ job[k].step # "unused" /\ job[j].handle = job[k].handle
         => j = k
  /\ \A s \in Slots : session[s].handle # -1 =>
       /\ session[s].job \in Jobs /\ job[session[s].job].step # "unused"
       /\ job[session[s].job].handle = session[s].handle

IInv == TypeOK /\ CallsOK /\ JobsOK /\ StartsOK /\ OwnersOK /\ SlotsOK /\ HandlesOK

\* The functions of the state have their domains.
LEMMA Domains ==
  ASSUME TypeOK
  PROVE  /\ DOMAIN call = Tasks /\ DOMAIN session = Slots /\ DOMAIN job = Jobs
         /\ None \notin Jobs /\ None \notin Tasks
         /\ "deleted" \notin Tasks /\ None # "deleted"
  BY AppTlsAssumption DEF TypeOK

\* A task that reads or writes a connection holds the lock.
LEMMA TransferHasLock ==
  ASSUME TypeOK, CallsOK, NEW t \in Tasks, call[t].op = "transfer", call[t].conn # None
  PROVE  holder = t
<1>1. call[t].step \in {"idle", "locked", "starts", "acted", "destroys"}
  BY DEF TypeOK, CallRecord
<1> QED BY <1>1 DEF CallsOK

\* No connection leaves its slot under a transfer: Connect, Close and Land need the
\* lock that the transfer holds.
LEMMA CallsStep ==
  ASSUME IInv, Next PROVE CallsOK'
<1> USE Domains, FieldValues DEF IInv
<1>1. ASSUME NEW t \in Tasks, NEW op \in {"connect", "transfer", "close"},
             NEW j \in Jobs \cup {None}, Begin(t, op, j)
      PROVE  CallsOK'
  BY <1>1 DEF Begin, CallsOK, NoCall
<1>2. ASSUME NEW t \in Tasks, Connect(t) PROVE CallsOK'
  <2>1. CASE ConnectFull(t)
    BY <1>2, <2>1, ConnectCases DEF ConnectFull, CallsOK, Locked
  <2>2. ASSUME NEW s \in Slots, ConnectCounts(s), NEW r \in SessionRecord,
               session' = [session EXCEPT ![s] = r]
        PROVE  \A u \in Slots : session[u].conn # None => session'[u].conn = session[u].conn
    BY <2>2 DEF ConnectCounts, FirstFree, IsFree
  <2>5. ASSUME NEW s \in Slots, NEW j \in Jobs, ConnectTakes(t, s, j) PROVE CallsOK'
    <3>1. PICK h \in Handle : h = NextGeneration * SlotCount + s
      BY NextInRange
    <3>2. /\ session' = [session EXCEPT ![s] = Taken(h, j)]
          /\ call' = [call EXCEPT ![t] = OfJob(t, j)]
          /\ holder' = holder
      BY <2>5, <3>1 DEF ConnectTakes, ConnectCounts
    <3>3. Taken(h, j) \in SessionRecord
      BY DEF Taken, SessionRecord
    <3>4. \A u \in Slots : session[u].conn # None => session'[u].conn = session[u].conn
      BY <2>2, <2>5, <3>2, <3>3 DEF ConnectTakes
    <3> QED BY <1>2, <3>2, <3>4, ConnectCases DEF CallsOK, Locked
  <2> QED BY <1>2, <2>1, <2>5, ConnectCases
<1>12. ASSUME NEW t \in Tasks, ConnectStarts(t) PROVE CallsOK'
  <2>1. /\ call[t].step = "starts" /\ holder = t /\ holder' = holder
        /\ call[t].op = "connect" /\ call[t].conn = None
    BY <1>12, StartCases DEF CallsOK
  <2>2. \E r \in CallRecord : /\ call' = [call EXCEPT ![t] = r]
                             /\ r.op = "connect" /\ r.step = "acted" /\ r.conn = None
    <3>1. /\ Acted(t) \in CallRecord /\ Unstarted(t) \in CallRecord
          /\ Acted(t).op = "connect" /\ Acted(t).step = "acted" /\ Acted(t).conn = None
          /\ Unstarted(t).op = "connect" /\ Unstarted(t).step = "acted"
          /\ Unstarted(t).conn = None
      BY <2>1, Zenon, RecordTypes
    <3>2. call' = [call EXCEPT ![t] = Acted(t)] \/ call' = [call EXCEPT ![t] = Unstarted(t)]
      BY <1>12, StartCases DEF StartRuns, StartFails
    <3> QED BY <3>1, <3>2
  <2>3. ~ \E u \in Tasks : call[u].op = "transfer" /\ call[u].conn # None
    BY <2>1, TransferHasLock
  <2>4. ASSUME NEW r \in CallRecord, call' = [call EXCEPT ![t] = r],
               r.op = "connect", r.step = "acted", r.conn = None
        PROVE  CallsOK'
    <3>1. call'[t] = r
      BY <2>4
    <3>2. \A u \in Tasks \ {t} : call'[u] = call[u]
      BY <2>4
    <3> QED BY <2>1, <2>3, <2>4, <3>1, <3>2 DEF CallsOK
  <2> QED BY <2>2, <2>4
<1>3. ASSUME NEW t \in Tasks, Transfer(t) PROVE CallsOK'
  BY <1>3, RecordTypes DEF Transfer, Reached, Locked, CallsOK
<1>4. ASSUME NEW t \in Tasks, Close(t) PROVE CallsOK'
  <2>1. CASE call' = [call EXCEPT ![t] = Acted(t)] /\ session' = session
    BY <1>4, <2>1, CloseCases DEF CallsOK, Locked
  <2>2. ASSUME NEW s \in Slots, CloseCleared(t, s) PROVE CallsOK'
    <3>1. Locked(t, "close") /\ holder' = holder
      BY <1>4, CloseCases
    <3>2. session[s].conn \in Jobs \cup {None}
      BY RecordTypes
    <3>3. ASSUME NEW u \in Tasks, call'[u].op = "transfer", call'[u].conn # None
          PROVE  FALSE
      <4>1. u # t
        BY <2>2, <3>1, <3>2, <3>3 DEF CloseCleared, Locked
      <4>2. holder = u
        BY <2>2, <3>3, <4>1, TransferHasLock DEF CloseCleared
      <4> QED BY <3>1, <4>1, <4>2 DEF Locked
    <3> QED BY <2>2, <3>1, <3>2, <3>3 DEF CloseCleared, CallsOK, Locked
  <2> QED BY <1>4, <2>1, <2>2, CloseCases
<1>5. ASSUME NEW t \in Tasks, Give(t) PROVE CallsOK'
  <2>1. \A s \in Slots : session'[s].conn = session[s].conn
    <3>1. ASSUME NEW r \in Slots, NEW st \in {"ready", "failed", "closed"},
                 session' = [session EXCEPT ![r] = Rated(r, st)]
          PROVE  \A s \in Slots : session'[s].conn = session[s].conn
      <4>1. Rated(r, st).conn = session[r].conn
        BY <3>1, ZenonT(30), SlotValues
      <4> QED BY <3>1, <4>1
    <3> QED BY <1>5, <3>1, GiveCases
  <2> QED BY <1>5, <2>1, GiveCases DEF CallsOK
<1>6. ASSUME NEW t \in Tasks, Destroy(t) PROVE CallsOK'
  BY <1>6 DEF Destroy, CallsOK
<1>7. ASSUME NEW t \in Tasks, DeleteTask(t) PROVE CallsOK'
  BY <1>7 DEF DeleteTask, CallsOK
<1>8. ASSUME NEW j \in Jobs, Handshake(j) \/ LandedDestroys(j) PROVE CallsOK'
  <2>1. UNCHANGED <<session, call, holder>>
    BY <1>8 DEF Handshake, LandedDestroys
  <2> QED BY <2>1 DEF CallsOK
<1>9. ASSUME NEW j \in Jobs, Land(j) PROVE CallsOK'
  <2>1. holder = None /\ UNCHANGED <<call, holder>>
    BY <1>9, LandCases
  <2>2. ~ \E t \in Tasks : call[t].op = "transfer" /\ call[t].conn # None
    BY <2>1, TransferHasLock
  <2> QED BY <2>1, <2>2 DEF CallsOK
<1>10. CASE AppStarts \/ AppExits \/ CloseAllDestroys
  BY <1>10 DEF AppStarts, AppExits, CloseAllDestroys, CallsOK
<1>11. CASE CloseAll
  <2>1. holder \in {None, "deleted"} /\ holder' = None /\ call' = call
    BY <1>11 DEF CloseAll
  <2>2. ~ \E t \in Tasks : call[t].op = "transfer" /\ call[t].conn # None
    BY <2>1, TransferHasLock
  <2> QED BY <2>1, <2>2 DEF CallsOK
<1> QED
  BY <1>1, <1>2, <1>3, <1>4, <1>5, <1>6, <1>7, <1>8, <1>9, <1>10, <1>11, <1>12
  DEF Next, AppCall, ConnectTask

LEMMA JobsStep ==
  ASSUME IInv, Next PROVE JobsOK'
<1> USE Domains, JobValues DEF IInv
<1>1. ASSUME NEW t \in Tasks, NEW s \in Slots, NEW j \in Jobs, ConnectTakes(t, s, j)
      PROVE  JobsOK'
  <2>1. PICK h \in Handle : h = NextGeneration * SlotCount + s
    BY NextInRange
  <2>2. job' = [job EXCEPT ![j] = Starting(j, s, h)] /\ job[j].step = "unused"
    BY <1>1, <2>1 DEF ConnectTakes
  <2> QED BY <2>2 DEF JobsOK
<1>2. ASSUME NEW t \in Tasks, Connect(t) PROVE JobsOK'
  BY <1>1, <1>2, ConnectCases DEF ConnectFull, JobsOK
<1>11. ASSUME NEW j \in Jobs, NEW step \in {"stranded", "working", "ended"},
              job[j].step = "starting", job' = [job EXCEPT ![j] = Stepped(j, step)]
       PROVE  JobsOK'
  BY <1>11 DEF JobsOK
<1>12. ASSUME NEW t \in Tasks, ConnectStarts(t) PROVE JobsOK'
  <2>1. call[t].of \in Jobs /\ job[call[t].of].step = "starting"
    BY <1>12, StartCases DEF StartsOK
  <2> QED BY <1>11, <1>12, <2>1, StartCases DEF StartRuns, StartFails
<1>13. ASSUME NEW t \in Tasks, DeleteTask(t) PROVE JobsOK'
  <2>1. CASE call[t].step = "starts"
    <3>1. call[t].of \in Jobs /\ job[call[t].of].step = "starting"
      BY <2>1 DEF StartsOK
    <3>2. job' = [job EXCEPT ![call[t].of] = Stepped(call[t].of, "stranded")]
      BY <1>13, <2>1 DEF DeleteTask, Stepped
    <3> QED BY <1>11, <3>1, <3>2
  <2>2. CASE call[t].step # "starts"
    BY <1>13, <2>2 DEF DeleteTask, JobsOK
  <2> QED BY <2>1, <2>2
<1>3. ASSUME NEW t \in Tasks, Give(t) PROVE JobsOK'
  <2>1. ASSUME NEW j \in Jobs, job' = [job EXCEPT ![j] = JobTold(j)] PROVE JobsOK'
    BY <2>1 DEF JobsOK
  <2> QED BY <1>3, <2>1, GiveCases DEF JobsOK
<1>4. ASSUME NEW j \in Jobs, Handshake(j) PROVE JobsOK'
  <2>1. PICK conn \in BOOLEAN, ready \in BOOLEAN :
          (ready => conn) /\ job' = [job EXCEPT ![j] = Landing(j, conn, ready)]
    BY <1>4, Zenon DEF Handshake, Landing
  <2> QED BY <2>1 DEF JobsOK
<1>5. ASSUME NEW j \in Jobs, Land(j) PROVE JobsOK'
  BY <1>5, LandCases DEF JobsOK
<1>6. ASSUME NEW j \in Jobs, LandedDestroys(j) PROVE JobsOK'
  BY <1>6 DEF LandedDestroys, JobsOK
<1>7. CASE AppStarts
  <2>1. \A j \in Jobs : job'[j] = Untold(j)
    BY <1>7 DEF AppStarts, Untold
  <2> QED BY <2>1 DEF JobsOK
<1>8. CASE job' = job
  BY <1>8 DEF JobsOK
<1>9. CASE AppExits \/ CloseAll \/ CloseAllDestroys
  BY <1>8, <1>9 DEF AppExits, CloseAll, CloseAllDestroys
<1>10. ASSUME NEW t \in Tasks,
              \/ \E op \in {"connect", "transfer", "close"}, j \in Jobs \cup {None} : Begin(t, op, j)
              \/ Transfer(t) \/ Close(t) \/ Destroy(t)
       PROVE  JobsOK'
  BY <1>8, <1>10 DEF Begin, Transfer, Close, Destroy
<1> QED
  BY <1>2, <1>3, <1>4, <1>5, <1>6, <1>7, <1>9, <1>10, <1>12, <1>13
  DEF Next, AppCall, ConnectTask

\* Who creates a connect task says so, and nobody else does.
LEMMA StartsStep ==
  ASSUME IInv, Next PROVE StartsOK'
<1> USE Domains DEF IInv
<1> DEFINE Starts(t) == call[t].step = "starts"
           Waits(j)  == job[j].step = "starting"
<1>1. ASSUME \A t \in Tasks : (Starts(t)' <=> Starts(t))
                             /\ (Starts(t) => call'[t].of = call[t].of),
             \A j \in Jobs : Waits(j)' <=> Waits(j)
      PROVE  StartsOK'
  BY <1>1 DEF StartsOK
<1>2. ASSUME call' = call
      PROVE  \A t \in Tasks : (Starts(t)' <=> Starts(t)) /\ (Starts(t) => call'[t].of = call[t].of)
  BY <1>2
<1>3. ASSUME job' = job PROVE \A j \in Jobs : Waits(j)' <=> Waits(j)
  BY <1>3
<1>4. ASSUME NEW t \in Tasks, NEW r, ~Starts(t), r.step # "starts",
             call' = [call EXCEPT ![t] = r]
      PROVE  \A u \in Tasks : (Starts(u)' <=> Starts(u)) /\ (Starts(u) => call'[u].of = call[u].of)
  BY <1>4
<1>5. ASSUME NEW j \in Jobs, NEW r, ~Waits(j), r.step # "starting",
             job' = [job EXCEPT ![j] = r]
      PROVE  \A k \in Jobs : Waits(k)' <=> Waits(k)
  BY <1>5
<1>6. ASSUME NEW t \in Tasks, Starts(t) PROVE \A u \in Tasks : Starts(u) => u = t
  BY <1>6 DEF CallsOK
<1>7. ASSUME NEW t \in Tasks, NEW op \in {"connect", "transfer", "close"},
             NEW j \in Jobs \cup {None}, Begin(t, op, j)
      PROVE  StartsOK'
  <2> DEFINE r == [op |-> op, step |-> "locked", of |-> j, conn |-> None]
  <2>1. call[t] = NoCall /\ job' = job /\ call' = [call EXCEPT ![t] = r]
    BY <1>7 DEF Begin
  <2>2. ~Starts(t) /\ r.step # "starts"
    BY <2>1, FieldValues
  <2> HIDE DEF r
  <2> QED BY <1>1, <1>3, <1>4, <2>1, <2>2
<1>8. ASSUME NEW t \in Tasks, Connect(t) PROVE StartsOK'
  <2>1. call[t].step = "locked" /\ holder = t
    BY <1>8, ConnectCases DEF Locked
  <2>2. CASE ConnectFull(t)
    <3>1. Acted(t).step # "starts" /\ call' = [call EXCEPT ![t] = Acted(t)] /\ job' = job
      BY <2>2, FieldValues DEF ConnectFull
    <3> QED BY <1>1, <1>3, <1>4, <2>1, <3>1
  <2>3. ASSUME NEW s \in Slots, NEW j \in Jobs, ConnectTakes(t, s, j) PROVE StartsOK'
    <3>1. PICK h \in Handle : h = NextGeneration * SlotCount + s
      BY NextInRange
    <3>2. /\ job' = [job EXCEPT ![j] = Starting(j, s, h)]
          /\ call' = [call EXCEPT ![t] = OfJob(t, j)]
          /\ job[j].step = "unused"
      BY <2>3, <3>1 DEF ConnectTakes
    <3>3. Starting(j, s, h).step = "starting" /\ OfJob(t, j).step = "starts" /\ OfJob(t, j).of = j
      BY JobValues, FieldValues
    <3>4. \A u \in Tasks : ~Starts(u)
      BY <2>1 DEF CallsOK
    <3> QED BY <3>2, <3>3, <3>4 DEF StartsOK
  <2> QED BY <1>8, <2>2, <2>3, ConnectCases
<1>9. ASSUME NEW t \in Tasks, NEW j \in Jobs, NEW q, NEW r,
             Starts(t), call[t].of = j, q.step # "starts", r.step # "starting",
             call' = [call EXCEPT ![t] = q], job' = [job EXCEPT ![j] = r]
      PROVE  StartsOK'
  <2>1. \A u \in Tasks : ~Starts(u)'
    BY <1>6, <1>9
  <2>2. \A k \in Jobs : ~Waits(k)'
    BY <1>6, <1>9 DEF StartsOK
  <2> QED BY <2>1, <2>2 DEF StartsOK
<1>10. ASSUME NEW t \in Tasks, ConnectStarts(t) PROVE StartsOK'
  <2>1. Starts(t) /\ call[t].of \in Jobs
    BY <1>10, StartCases DEF StartsOK
  <2>2. Acted(t).step = "acted" /\ Unstarted(t).step = "acted"
    BY FieldValues
  <2>3. /\ Stepped(call[t].of, "working").step = "working"
        /\ Stepped(call[t].of, "ended").step = "ended"
    BY <2>1, JobValues
  <2> QED BY <1>9, <1>10, <2>1, <2>2, <2>3, StartCases DEF StartRuns, StartFails
<1>11. ASSUME NEW t \in Tasks, DeleteTask(t) PROVE StartsOK'
  <2>1. call' = [call EXCEPT ![t] = NoCall] /\ NoCall.step # "starts"
    BY <1>11, FieldValues DEF DeleteTask
  <2>2. CASE Starts(t)
    <3>1. call[t].of \in Jobs
      BY <2>2 DEF StartsOK
    <3>2. job' = [job EXCEPT ![call[t].of] = Stepped(call[t].of, "stranded")]
      BY <1>11, <2>2 DEF DeleteTask, Stepped
    <3>3. Stepped(call[t].of, "stranded").step = "stranded"
      BY <3>1, JobValues
    <3> QED BY <1>9, <2>1, <2>2, <3>1, <3>2, <3>3
  <2>3. CASE ~Starts(t)
    <3>1. job' = job
      BY <1>11, <2>3 DEF DeleteTask
    <3> QED BY <1>1, <1>3, <1>4, <2>1, <2>3, <3>1
  <2> QED BY <2>2, <2>3
<1>12. ASSUME NEW t \in Tasks, Transfer(t) PROVE StartsOK'
  <2>1. /\ call[t].step = "locked" /\ job' = job
        /\ \/ call' = [call EXCEPT ![t] = Acted(t)]
           \/ \E s \in Slots : call' = [call EXCEPT ![t] = Took(t, session[s].conn)]
    BY <1>12 DEF Transfer, Locked, Reached
  <2>2. Acted(t).step = "acted" /\ \A s \in Slots : Took(t, session[s].conn).step = "acted"
    BY FieldValues, RecordTypes
  <2> QED BY <1>1, <1>3, <1>4, <2>1, <2>2
<1>13. ASSUME NEW t \in Tasks, Close(t) PROVE StartsOK'
  <2>1. call[t].step = "locked" /\ job' = job
    BY <1>13, CloseCases DEF Locked
  <2>2. Acted(t).step = "acted" /\ \A s \in Slots : Took(t, session[s].conn).step = "acted"
    BY FieldValues, RecordTypes
  <2> QED BY <1>1, <1>3, <1>4, <1>13, <2>1, <2>2, CloseCases DEF CloseCleared
<1>14. ASSUME NEW t \in Tasks, Give(t) PROVE StartsOK'
  <2>1. call[t].step = "acted" /\ Destroys(t).step = "destroys" /\ NoCall.step = "idle"
    BY <1>14, FieldValues, GiveCases
  <2>2. \A u \in Tasks : (Starts(u)' <=> Starts(u)) /\ (Starts(u) => call'[u].of = call[u].of)
    BY <1>4, <1>14, <2>1, GiveCases
  <2>3. ASSUME NEW j \in Jobs, job' = [job EXCEPT ![j] = JobTold(j)]
        PROVE  \A k \in Jobs : Waits(k)' <=> Waits(k)
    BY <2>3, JobValues
  <2> QED BY <1>1, <1>3, <1>14, <2>2, <2>3, GiveCases
<1>15. ASSUME NEW t \in Tasks, Destroy(t) PROVE StartsOK'
  <2>1. /\ call[t].step = "destroys" /\ job' = job /\ NoCall.step = "idle"
        /\ call' = [call EXCEPT ![t] = NoCall]
    BY <1>15, FieldValues DEF Destroy
  <2> QED BY <1>1, <1>3, <1>4, <2>1
<1>16. ASSUME NEW j \in Jobs, ConnectTask(j) PROVE StartsOK'
  <2>1. call' = call
    BY <1>16, LandCases DEF ConnectTask, Handshake, LandedDestroys
  <2>2. CASE Handshake(j)
    <3>1. PICK conn \in BOOLEAN, ready \in BOOLEAN :
            job' = [job EXCEPT ![j] = Landing(j, conn, ready)]
      BY <2>2 DEF Handshake, Landing
    <3>2. job[j].step = "working" /\ Landing(j, conn, ready).step = "landing"
      BY <2>2, JobValues DEF Handshake
    <3> QED BY <1>1, <1>2, <1>5, <2>1, <3>1, <3>2
  <2>3. CASE Land(j)
    <3>1. job[j].step = "landing" /\ job' = [job EXCEPT ![j] = JobOver(j)]
      BY <2>3, LandCases
    <3>2. JobOver(j).step \in {"destroys", "ended"}
      BY JobValues
    <3> QED BY <1>1, <1>2, <1>5, <2>1, <3>1, <3>2
  <2>4. CASE LandedDestroys(j)
    <3>1. job[j].step = "destroys" /\ job' = [job EXCEPT ![j] = Stepped(j, "ended")]
      BY <2>4 DEF LandedDestroys, Stepped
    <3>2. Stepped(j, "ended").step = "ended"
      BY JobValues
    <3> QED BY <1>1, <1>2, <1>5, <2>1, <3>1, <3>2
  <2> QED BY <1>16, <2>2, <2>3, <2>4 DEF ConnectTask
<1>17. CASE AppStarts
  <2>1. call' = call /\ \A j \in Jobs : job'[j] = Untold(j)
    BY <1>17 DEF AppStarts, Untold
  <2>2. \A j \in Jobs : Waits(j)' <=> Waits(j)
    BY <2>1, JobValues
  <2> QED BY <1>1, <1>2, <2>1, <2>2
<1>18. CASE AppExits \/ CloseAll \/ CloseAllDestroys
  BY <1>1, <1>2, <1>3, <1>18 DEF AppExits, CloseAll, CloseAllDestroys
<1> QED
  BY <1>7, <1>8, <1>10, <1>11, <1>12, <1>13, <1>14, <1>15, <1>16, <1>17, <1>18
  DEF Next, AppCall

\* A slot is given to a connect task when it is free and goes on being taken until
\* that task lands, whatever happens to its handle.
LEMMA SlotsStep ==
  ASSUME IInv, Next PROVE SlotsOK'
<1> USE Domains DEF IInv
<1>1. ASSUME \A s \in Slots : /\ session'[s].worker = session[s].worker
                              /\ session'[s].conn \in {session[s].conn, None},
             \A j \in Jobs, s \in Slots : HasSlot(j, s)' <=> HasSlot(j, s)
      PROVE  SlotsOK'
  BY <1>1 DEF SlotsOK
<1>2. ASSUME \A j \in Jobs : job'[j].step = job[j].step /\ job'[j].slot = job[j].slot
      PROVE  \A j \in Jobs, s \in Slots : HasSlot(j, s)' <=> HasSlot(j, s)
  BY <1>2 DEF HasSlot
<1>3. ASSUME NEW t \in Tasks, Connect(t) PROVE SlotsOK'
  <2>1. CASE ConnectFull(t)
    BY <1>1, <1>2, <2>1 DEF ConnectFull
  <2>3. ASSUME NEW s \in Slots, NEW j \in Jobs, ConnectTakes(t, s, j) PROVE SlotsOK'
    <3>1. PICK h \in Handle : h = NextGeneration * SlotCount + s
      BY NextInRange
    <3>2. /\ session' = [session EXCEPT ![s] = Taken(h, j)]
          /\ job' = [job EXCEPT ![j] = Starting(j, s, h)]
          /\ job[j].step = "unused" /\ ~session[s].worker
      BY <2>3, <3>1 DEF ConnectTakes, ConnectCounts, FirstFree, IsFree
    <3>6. Starting(j, s, h).step = "starting" /\ Starting(j, s, h).slot = s
      BY JobValues
    <3>3. \A k \in Jobs, r \in Slots : HasSlot(k, r)' <=> HasSlot(k, r) \/ (k = j /\ r = s)
      BY <3>2, <3>6 DEF HasSlot
    <3>4. \A k \in Jobs : ~HasSlot(k, s) /\ \A r \in Slots : ~HasSlot(j, r)
      BY <3>2 DEF SlotsOK, HasSlot
    <3>5. /\ session'[s].worker = TRUE /\ session'[s].conn = None
          /\ \A r \in Slots \ {s} : session'[r] = session[r]
      <4>1. Taken(h, j).worker = TRUE /\ Taken(h, j).conn = None
        BY SlotValues
      <4> QED BY <3>2, <4>1
    <3> QED BY <3>3, <3>4, <3>5 DEF SlotsOK
  <2> QED BY <1>3, <2>1, <2>3, ConnectCases
<1>14. ASSUME NEW j \in Jobs, NEW step \in {"stranded", "working"}, job[j].step = "starting",
              session' = session, job' = [job EXCEPT ![j] = Stepped(j, step)]
       PROVE  SlotsOK'
  <2>1. Stepped(j, step).step = step /\ Stepped(j, step).slot = job[j].slot
    BY JobValues
  <2>2. \A k \in Jobs, s \in Slots : HasSlot(k, s)' <=> HasSlot(k, s)
    BY <1>14, <2>1 DEF HasSlot
  <2> QED BY <1>1, <1>14, <2>2
<1>15. ASSUME NEW t \in Tasks, ConnectStarts(t) PROVE SlotsOK'
  <2>4. PICK j \in Jobs : j = call[t].of /\ job[j].step = "starting"
    BY <1>15, StartCases DEF StartsOK
  <2>5. PICK s \in Slots : s = job[j].slot
    BY <2>4, RecordTypes
  <2>1. j \in Jobs /\ job[j].step = "starting" /\ s = job[j].slot
    BY <2>4, <2>5
  <2>2. CASE StartRuns(t, j)
    BY <1>14, <2>1, <2>2 DEF StartRuns
  <2>3. CASE StartFails(t, j)
    <3>1. s \in Slots
      BY <2>1, RecordTypes
    <3>2. Stepped(j, "ended").step = "ended"
      BY <2>1, JobValues
    <3>3. \A k \in Jobs, r \in Slots : HasSlot(k, r)' <=> HasSlot(k, r) /\ k # j
      BY <2>1, <2>3, <3>2 DEF StartFails, HasSlot
    <3>4. HasSlot(j, s) /\ \A r \in Slots \ {s} : ~HasSlot(j, r)
      BY <2>1 DEF HasSlot
    <3>5. /\ session'[s].worker = FALSE
          /\ \A r \in Slots \ {s} : session'[r] = session[r]
      <4>1. FreeSlot.worker = FALSE
        BY <3>1, SlotValues
      <4> QED BY <2>1, <2>3, <3>1, <4>1 DEF StartFails
    <3>6. ASSUME NEW k \in Jobs PROVE ~HasSlot(k, s)'
      <4>1. \A a, b \in Jobs : HasSlot(a, s) /\ HasSlot(b, s) => a = b
        BY DEF SlotsOK
      <4>2. HasSlot(k, s) => k = j
        BY <2>1, <3>4, <4>1
      <4> QED BY <3>1, <3>3, <4>2
    <3>7. \A k \in Jobs, r \in Slots \ {s} : HasSlot(k, r)' <=> HasSlot(k, r)
      BY <2>1, <3>3, <3>4
    <3>8. ASSUME NEW r \in Slots \ {s}
          PROVE  /\ session'[r].worker <=> \E k \in Jobs : HasSlot(k, r)'
                 /\ \A k, l \in Jobs : HasSlot(k, r)' /\ HasSlot(l, r)' => k = l
                 /\ session'[r].worker => session'[r].conn = None
      BY <3>5, <3>7, <3>8 DEF SlotsOK
    <3>9. /\ session'[s].worker <=> \E k \in Jobs : HasSlot(k, s)'
          /\ \A k, l \in Jobs : HasSlot(k, s)' /\ HasSlot(l, s)' => k = l
          /\ session'[s].worker => session'[s].conn = None
      BY <3>5, <3>6
    <3> QED BY <3>1, <3>8, <3>9 DEF SlotsOK
  <2> QED BY <1>15, <2>4, <2>2, <2>3, StartCases
<1>16. ASSUME NEW t \in Tasks, DeleteTask(t) PROVE SlotsOK'
  <2>1. CASE call[t].step = "starts"
    <3>1. call[t].of \in Jobs /\ job[call[t].of].step = "starting"
      BY <2>1 DEF StartsOK
    <3>2. /\ session' = session
          /\ job' = [job EXCEPT ![call[t].of] = Stepped(call[t].of, "stranded")]
      BY <1>16, <2>1 DEF DeleteTask, Stepped
    <3> QED BY <1>14, <3>1, <3>2
  <2>2. CASE call[t].step # "starts"
    BY <1>1, <1>2, <1>16, <2>2 DEF DeleteTask
  <2> QED BY <2>1, <2>2
<1>4. ASSUME NEW t \in Tasks, Close(t) PROVE SlotsOK'
  <2>1. job' = job
    BY <1>4, CloseCases
  <2>2. CASE session' = session
    BY <1>1, <1>2, <2>1, <2>2
  <2>3. ASSUME NEW s \in Slots, CloseCleared(t, s) PROVE SlotsOK'
    <3>1. \A r \in Slots : /\ session'[r].worker = session[r].worker
                           /\ session'[r].conn \in {session[r].conn, None}
      <4>1. Cleared(s).worker = session[s].worker /\ Cleared(s).conn = None
        BY SlotValues
      <4> QED BY <2>3, <4>1 DEF CloseCleared
    <3> QED BY <1>1, <1>2, <2>1, <3>1
  <2> QED BY <1>4, <2>2, <2>3, CloseCases
<1>5. ASSUME NEW t \in Tasks, Give(t) PROVE SlotsOK'
  <2>1. \A s \in Slots : /\ session'[s].worker = session[s].worker
                         /\ session'[s].conn \in {session[s].conn, None}
    <3>1. ASSUME NEW r \in Slots, NEW st \in {"ready", "failed", "closed"},
                 session' = [session EXCEPT ![r] = Rated(r, st)]
          PROVE  \A s \in Slots : /\ session'[s].worker = session[s].worker
                                  /\ session'[s].conn \in {session[s].conn, None}
      <4>1. Rated(r, st).conn = session[r].conn /\ Rated(r, st).worker = session[r].worker
        BY SlotValues
      <4> QED BY <3>1, <4>1
    <3> QED BY <1>5, <3>1, GiveCases
  <2>2. \A j \in Jobs : job'[j].step = job[j].step /\ job'[j].slot = job[j].slot
    <3>1. ASSUME NEW j \in Jobs, job' = [job EXCEPT ![j] = JobTold(j)]
          PROVE  \A k \in Jobs : job'[k].step = job[k].step /\ job'[k].slot = job[k].slot
      <4>1. JobTold(j).step = job[j].step /\ JobTold(j).slot = job[j].slot
        BY JobValues
      <4> QED BY <3>1, <4>1
    <3> QED BY <1>5, <3>1, GiveCases
  <2> QED BY <1>1, <1>2, <2>1, <2>2
<1>6. ASSUME NEW j \in Jobs, Handshake(j) PROVE SlotsOK'
  <2>1. PICK conn \in BOOLEAN, ready \in BOOLEAN :
          job' = [job EXCEPT ![j] = Landing(j, conn, ready)]
    BY <1>6 DEF Handshake, Landing
  <2>2. session' = session /\ job[j].step = "working"
    BY <1>6 DEF Handshake
  <2>3. \A k \in Jobs, s \in Slots : HasSlot(k, s)' <=> HasSlot(k, s)
    <3>1. /\ Landing(j, conn, ready).step = "landing"
          /\ Landing(j, conn, ready).slot = job[j].slot
      BY JobValues
    <3> QED BY <2>1, <2>2, <3>1 DEF HasSlot
  <2> QED BY <1>1, <2>2, <2>3
<1>7. ASSUME NEW j \in Jobs, Land(j) PROVE SlotsOK'
  <2>1. /\ job[j].step = "landing"
        /\ session' = [session EXCEPT ![job[j].slot] = Landed(job[j].slot, j)]
        /\ job' = [job EXCEPT ![j] = JobOver(j)]
    BY <1>7, LandCases
  <2>2. job[j].slot \in Slots
    BY RecordTypes
  <2>3. \A k \in Jobs, s \in Slots : HasSlot(k, s)' <=> HasSlot(k, s) /\ k # j
    <3>1. JobOver(j).step \in {"destroys", "ended"}
      BY JobValues
    <3> QED BY <2>1, <3>1 DEF HasSlot
  <2>4. HasSlot(j, job[j].slot)
    BY <2>1 DEF HasSlot
  <2>5. /\ session'[job[j].slot].worker = FALSE
        /\ \A s \in Slots \ {job[j].slot} : session'[s] = session[s]
    <3>1. Landed(job[j].slot, j).worker = FALSE
      BY <2>2, SlotValues
    <3> QED BY <2>1, <2>2, <3>1
  <2>6. \A s \in Slots \ {job[j].slot} : ~HasSlot(j, s)
    BY DEF HasSlot
  <2> QED BY <2>2, <2>3, <2>4, <2>5, <2>6 DEF SlotsOK
<1>8. ASSUME NEW j \in Jobs, LandedDestroys(j) PROVE SlotsOK'
  <2>1. session' = session /\ job[j].step = "destroys"
        /\ job' = [job EXCEPT ![j] = [job[j] EXCEPT !.step = "ended"]]
    BY <1>8 DEF LandedDestroys
  <2>2. \A k \in Jobs, s \in Slots : HasSlot(k, s)' <=> HasSlot(k, s)
    <3>1. [job[j] EXCEPT !.step = "ended"].step = "ended"
      BY JobValues
    <3> QED BY <2>1, <3>1 DEF HasSlot
  <2> QED BY <1>1, <2>1, <2>2
<1>9. CASE AppStarts
  <2>1. session' = session /\ \A j \in Jobs : job'[j] = Untold(j)
    BY <1>9 DEF AppStarts, Untold
  <2>2. \A j \in Jobs : job'[j].step = job[j].step /\ job'[j].slot = job[j].slot
    BY <2>1, JobValues
  <2> QED BY <1>1, <1>2, <2>1, <2>2
<1>10. CASE CloseAll
  <2>1. job' = job /\ \A s \in Slots : session'[s] = Cleared(s)
    BY <1>10 DEF CloseAll
  <2>2. \A s \in Slots : Cleared(s).worker = session[s].worker /\ Cleared(s).conn = None
    BY SlotValues
  <2> QED BY <1>1, <1>2, <2>1, <2>2
<1>11. CASE UNCHANGED <<session, job>>
  BY <1>1, <1>2, <1>11
<1>12. CASE AppExits \/ CloseAllDestroys
  BY <1>11, <1>12 DEF AppExits, CloseAllDestroys
<1>13. ASSUME NEW t \in Tasks,
              \/ \E op \in {"connect", "transfer", "close"}, j \in Jobs \cup {None} : Begin(t, op, j)
              \/ Transfer(t) \/ Destroy(t)
       PROVE  SlotsOK'
  BY <1>11, <1>13 DEF Begin, Transfer, Destroy
<1> QED
  BY <1>3, <1>4, <1>5, <1>6, <1>7, <1>8, <1>9, <1>10, <1>12, <1>13, <1>15, <1>16
  DEF Next, AppCall, ConnectTask

\* A connection passes from one owner to the next in a single step, and the one
\* that frees it is the only one.
LEMMA OwnersStep ==
  ASSUME IInv, Next PROVE OwnersOK'
<1> USE Domains DEF IInv
<1>1. ASSUME \A c \in Jobs, s \in Slots : InSlot(c, s)' <=> InSlot(c, s),
             \A c \in Jobs, t \in Tasks : ClosesConn(c, t)' <=> ClosesConn(c, t),
             \A c \in Jobs : Lands(c)' <=> Lands(c),
             \A c \in Jobs : job[c].step = "ended" => job'[c].step = "ended",
             UNCHANGED <<live, closing, lost>>
      PROVE  OwnersOK'
  BY <1>1 DEF OwnersOK, GivenUp
<1>2. ASSUME session' = session PROVE \A c \in Jobs, s \in Slots : InSlot(c, s)' <=> InSlot(c, s)
  BY <1>2 DEF InSlot
<1>3. ASSUME call' = call PROVE \A c \in Jobs, t \in Tasks : ClosesConn(c, t)' <=> ClosesConn(c, t)
  BY <1>3 DEF ClosesConn
<1>4. ASSUME job' = job
      PROVE  /\ \A c \in Jobs : Lands(c)' <=> Lands(c)
             /\ \A c \in Jobs : job[c].step = "ended" => job'[c].step = "ended"
  BY <1>4 DEF Lands
<1>5. ASSUME NEW t \in Tasks, NEW op \in {"connect", "transfer", "close"},
             NEW j \in Jobs \cup {None}, Begin(t, op, j)
      PROVE  OwnersOK'
  <2>1. /\ call[t] = NoCall /\ UNCHANGED <<session, job, live, closing, lost>>
        /\ call' = [call EXCEPT ![t] = [op |-> op, step |-> "locked", of |-> j, conn |-> None]]
    BY <1>5 DEF Begin
  <2>2. \A c \in Jobs, u \in Tasks : ClosesConn(c, u)' <=> ClosesConn(c, u)
    BY <2>1, FieldValues DEF ClosesConn
  <2> QED BY <1>1, <1>2, <1>4, <2>1, <2>2
<1>6. ASSUME NEW t \in Tasks, Connect(t) PROVE OwnersOK'
  <2>1. call[t].op = "connect" /\ call[t].conn = None
    BY <1>6, ConnectCases DEF Locked, CallsOK
  <2>2. CASE ConnectFull(t)
    <3>1. \A c \in Jobs, u \in Tasks : ClosesConn(c, u)' <=> ClosesConn(c, u)
      BY <2>1, <2>2, FieldValues DEF ConnectFull, ClosesConn
    <3> QED BY <1>1, <1>2, <1>4, <2>2, <3>1 DEF ConnectFull
  <2>4. ASSUME NEW s \in Slots, NEW j \in Jobs, ConnectTakes(t, s, j) PROVE OwnersOK'
    <3>1. PICK h \in Handle : h = NextGeneration * SlotCount + s
      BY NextInRange
    <3>2. /\ session' = [session EXCEPT ![s] = Taken(h, j)]
          /\ job' = [job EXCEPT ![j] = Starting(j, s, h)]
          /\ call' = [call EXCEPT ![t] = OfJob(t, j)]
          /\ job[j].step = "unused" /\ session[s].conn = None
          /\ UNCHANGED <<live, closing, lost>>
      BY <2>4, <3>1 DEF ConnectTakes, ConnectCounts, FirstFree, IsFree
    <3>3. \A c \in Jobs, u \in Tasks : ClosesConn(c, u)' <=> ClosesConn(c, u)
      BY <2>1, <3>2, FieldValues DEF ClosesConn
    <3>4. Taken(h, j).conn = None
      BY SlotValues
    <3>5. \A c \in Jobs, r \in Slots : InSlot(c, r)' <=> InSlot(c, r)
      BY <3>2, <3>4 DEF InSlot
    <3>6. Starting(j, s, h).step = "starting" /\ ~job[j].conn
      BY <3>2, JobValues DEF JobsOK
    <3>7. /\ \A c \in Jobs : Lands(c)' <=> Lands(c)
          /\ \A c \in Jobs : job[c].step = "ended" => job'[c].step = "ended"
      BY <3>2, <3>6 DEF Lands
    <3> QED BY <1>1, <3>2, <3>3, <3>5, <3>7
  <2> QED BY <1>6, <2>2, <2>4, ConnectCases
<1>19. ASSUME NEW j \in Jobs, NEW step \in {"stranded", "working", "ended"},
              job[j].step = "starting", job' = [job EXCEPT ![j] = Stepped(j, step)]
       PROVE  /\ \A c \in Jobs : Lands(c)' <=> Lands(c)
              /\ \A c \in Jobs : job[c].step = "ended" => job'[c].step = "ended"
  <2>1. Stepped(j, step).step = step /\ Stepped(j, step).conn = job[j].conn
    BY JobValues
  <2>2. ~job[j].conn
    BY <1>19 DEF JobsOK
  <2> QED BY <1>19, <2>1, <2>2 DEF Lands
<1>20. ASSUME NEW t \in Tasks, ConnectStarts(t) PROVE OwnersOK'
  <2> DEFINE j == call[t].of
             s == job[j].slot
  <2>1. j \in Jobs /\ job[j].step = "starting" /\ call[t].op = "connect"
    BY <1>20, StartCases DEF StartsOK, CallsOK
  <2>2. s \in Slots
    BY <2>1, RecordTypes
  <2>3. session[s].conn = None
    BY <2>1, <2>2 DEF SlotsOK, HasSlot
  <2>4. FreeSlot.conn = None
    BY <2>2, SlotValues
  <2>5. \A c \in Jobs, r \in Slots : InSlot(c, r)' <=> InSlot(c, r)
    <3>1. session' = session \/ session' = [session EXCEPT ![s] = FreeSlot]
      BY <1>20, StartCases DEF StartRuns, StartFails
    <3>2. \A r \in Slots : session'[r].conn = session[r].conn
      BY <2>2, <2>3, <2>4, <3>1
    <3> QED BY <3>2 DEF InSlot
  <2>6. \A c \in Jobs, u \in Tasks : ClosesConn(c, u)' <=> ClosesConn(c, u)
    <3>1. call' = [call EXCEPT ![t] = Acted(t)] \/ call' = [call EXCEPT ![t] = Unstarted(t)]
      BY <1>20, StartCases DEF StartRuns, StartFails
    <3>2. Acted(t).op = "connect" /\ Unstarted(t).op = "connect"
      BY <2>1, FieldValues
    <3>3. /\ call'[t].op = "connect"
          /\ \A u \in Tasks : u # t => call'[u] = call[u]
      BY <3>1, <3>2
    <3> QED BY <2>1, <3>3 DEF ClosesConn
  <2>7. /\ \A c \in Jobs : Lands(c)' <=> Lands(c)
        /\ \A c \in Jobs : job[c].step = "ended" => job'[c].step = "ended"
    BY <1>19, <1>20, <2>1, StartCases DEF StartRuns, StartFails
  <2>8. UNCHANGED <<live, closing, lost>>
    BY <1>20, StartCases
  <2> QED BY <1>1, <2>5, <2>6, <2>7, <2>8
<1>7. ASSUME NEW t \in Tasks, Transfer(t) PROVE OwnersOK'
  <2>1. /\ call[t].op = "transfer" /\ UNCHANGED <<session, job, live, closing, lost>>
        /\ \/ call' = [call EXCEPT ![t] = Acted(t)]
           \/ \E s \in Slots : call' = [call EXCEPT ![t] = Took(t, session[s].conn)]
    BY <1>7 DEF Transfer, Locked, Reached
  <2>2. Acted(t).op = "transfer" /\ \A s \in Slots : Took(t, session[s].conn).op = "transfer"
    BY <2>1, FieldValues, RecordTypes
  <2>3. \A c \in Jobs, u \in Tasks : ClosesConn(c, u)' <=> ClosesConn(c, u)
    BY <2>1, <2>2 DEF ClosesConn
  <2> QED BY <1>1, <1>2, <1>4, <2>1, <2>3
<1>8. ASSUME NEW t \in Tasks, Close(t) PROVE OwnersOK'
  <2>1. /\ UNCHANGED <<job, live, closing, lost>>
        /\ call[t].op = "close" /\ call[t].conn = None
    BY <1>8, CloseCases DEF Locked, CallsOK
  <2>2. CASE call' = [call EXCEPT ![t] = Acted(t)] /\ session' = session
    <3>1. \A c \in Jobs, u \in Tasks : ClosesConn(c, u)' <=> ClosesConn(c, u)
      BY <2>1, <2>2, FieldValues DEF ClosesConn
    <3> QED BY <1>1, <1>2, <1>4, <2>1, <2>2, <3>1
  <2>3. ASSUME NEW s \in Slots, CloseCleared(t, s) PROVE OwnersOK'
    <3>1. session[s].conn \in Jobs \cup {None} /\ Cleared(s).conn = None
      BY RecordTypes, SlotValues
    <3>2. \A c \in Jobs, r \in Slots : InSlot(c, r)' <=> InSlot(c, r) /\ r # s
      BY <2>3, <3>1 DEF CloseCleared, InSlot
    <3>3. /\ Took(t, session[s].conn).op = "close"
          /\ Took(t, session[s].conn).conn = session[s].conn
      BY <2>1, <3>1, FieldValues
    <3>4. \A c \in Jobs, u \in Tasks :
            ClosesConn(c, u)' <=> ClosesConn(c, u) \/ (u = t /\ InSlot(c, s))
      BY <2>1, <2>3, <3>3 DEF CloseCleared, ClosesConn, InSlot
    <3> QED BY <2>1, <3>2, <3>4 DEF OwnersOK, GivenUp, Lands
  <2> QED BY <1>8, <2>2, <2>3, CloseCases
<1>9. ASSUME NEW t \in Tasks, Give(t) PROVE OwnersOK'
  <2>1. UNCHANGED <<live, closing, lost>>
    BY <1>9, GiveCases
  <2>2. \A c \in Jobs, s \in Slots : InSlot(c, s)' <=> InSlot(c, s)
    <3>1. ASSUME NEW r \in Slots, NEW st \in {"ready", "failed", "closed"},
                 session' = [session EXCEPT ![r] = Rated(r, st)]
          PROVE  \A s \in Slots : session'[s].conn = session[s].conn
      <4>1. Rated(r, st).conn = session[r].conn
        BY SlotValues
      <4> QED BY <3>1, <4>1
    <3> QED BY <1>2, <1>9, <3>1, GiveCases DEF InSlot
  <2>3. \A c \in Jobs, u \in Tasks : ClosesConn(c, u)' <=> ClosesConn(c, u)
    <3>1. Destroys(t).op = call[t].op /\ Destroys(t).conn = call[t].conn /\ NoCall.op = "none"
      BY FieldValues
    <3>2. CASE /\ call[t].op = "close" /\ call[t].conn # None
               /\ call' = [call EXCEPT ![t] = Destroys(t)]
      BY <3>1, <3>2 DEF ClosesConn
    <3>3. CASE /\ ~(call[t].op = "close" /\ call[t].conn # None)
               /\ call' = [call EXCEPT ![t] = NoCall]
      BY <3>1, <3>3 DEF ClosesConn
    <3> QED BY <1>9, <3>2, <3>3, GiveCases
  <2>4. /\ \A c \in Jobs : Lands(c)' <=> Lands(c)
        /\ \A c \in Jobs : job[c].step = "ended" => job'[c].step = "ended"
    <3>1. ASSUME NEW j \in Jobs, job' = [job EXCEPT ![j] = JobTold(j)]
          PROVE  \A c \in Jobs : job'[c].step = job[c].step /\ job'[c].conn = job[c].conn
      <4>1. JobTold(j).step = job[j].step /\ JobTold(j).conn = job[j].conn
        BY JobValues
      <4> QED BY <3>1, <4>1
    <3> QED BY <1>4, <1>9, <3>1, GiveCases DEF Lands
  <2> QED BY <1>1, <2>1, <2>2, <2>3, <2>4
<1>10. ASSUME NEW t \in Tasks, Destroy(t) PROVE OwnersOK'
  <2>1. /\ ClosesConn(call[t].conn, t) /\ call[t].conn \in Jobs
        /\ live' = live \ {call[t].conn}
        /\ UNCHANGED <<session, job, closing, lost>>
    BY <1>10, RecordTypes DEF Destroy, CallsOK, ClosesConn
  <2>2. \A c \in Jobs, u \in Tasks : ClosesConn(c, u)' <=> ClosesConn(c, u) /\ u # t
    BY <1>10, FieldValues DEF Destroy, ClosesConn
  <2>3. PICK k \in Jobs : ClosesConn(k, t) /\ live' = live \ {k}
    BY <2>1
  <2>4. \A c \in Jobs : ClosesConn(c, t) <=> c = k
    BY <2>3 DEF ClosesConn
  <2>5. UNCHANGED <<session, job, closing, lost>>
    BY <2>1
  <2>6. /\ \A u \in Tasks : ClosesConn(k, u) => u = t
        /\ \A s \in Slots : ~InSlot(k, s)
        /\ ~Lands(k) /\ ~GivenUp(k)
    BY <2>3 DEF OwnersOK, Lands
  <2>7. \A c \in Jobs, s \in Slots : InSlot(c, s)' <=> InSlot(c, s)
    BY <1>2, <2>5
  <2>8. \A c \in Jobs : (Lands(c)' <=> Lands(c)) /\ (GivenUp(c)' <=> GivenUp(c))
    BY <1>4, <2>5 DEF GivenUp
  <2>9. \A c \in Jobs : c \in live' <=> c \in live /\ c # k
    BY <2>3
  <2> QED BY <2>2, <2>4, <2>5, <2>6, <2>7, <2>8, <2>9 DEF OwnersOK
<1>11. ASSUME NEW t \in Tasks, DeleteTask(t) PROVE OwnersOK'
  <2>1. UNCHANGED <<session, live, closing>>
    BY <1>11 DEF DeleteTask
  <2>4. /\ \A c \in Jobs : Lands(c)' <=> Lands(c)
        /\ \A c \in Jobs : job[c].step = "ended" => job'[c].step = "ended"
    <3>1. CASE call[t].step = "starts"
      <4>1. call[t].of \in Jobs /\ job[call[t].of].step = "starting"
        BY <3>1 DEF StartsOK
      <4>2. job' = [job EXCEPT ![call[t].of] = Stepped(call[t].of, "stranded")]
        BY <1>11, <3>1 DEF DeleteTask, Stepped
      <4> QED BY <1>19, <4>1, <4>2
    <3>2. CASE call[t].step # "starts"
      BY <1>4, <1>11, <3>2 DEF DeleteTask
    <3> QED BY <3>1, <3>2
  <2>2. \A c \in Jobs, u \in Tasks : ClosesConn(c, u)' <=> ClosesConn(c, u) /\ u # t
    BY <1>11, FieldValues DEF DeleteTask, ClosesConn
  <2>3. \A c \in Jobs : c \in lost' <=> c \in lost \/ ClosesConn(c, t)
    BY <1>11 DEF DeleteTask, ClosesConn
  <2> QED BY <1>2, <2>1, <2>2, <2>3, <2>4 DEF OwnersOK, GivenUp
<1>12. ASSUME NEW j \in Jobs, Handshake(j) PROVE OwnersOK'
  <2>1. PICK conn \in BOOLEAN, ready \in BOOLEAN :
          /\ job' = [job EXCEPT ![j] = Landing(j, conn, ready)]
          /\ live' = IF conn THEN live \cup {j} ELSE live
    BY <1>12 DEF Handshake, Landing
  <2>2. job[j].step = "working" /\ UNCHANGED <<session, call, closing, lost>>
    BY <1>12 DEF Handshake
  <2>3. Landing(j, conn, ready).step = "landing" /\ Landing(j, conn, ready).conn = conn
    BY JobValues
  <2>4. /\ \A c \in Jobs : Lands(c)' <=> IF c = j THEN conn ELSE Lands(c)
        /\ \A c \in Jobs : job[c].step = "ended" => job'[c].step = "ended"
    BY <2>1, <2>2, <2>3 DEF Lands
  <2>5. j \notin live
    BY <2>2 DEF OwnersOK, Lands
  <2>6. \A c \in Jobs : c \in live' <=> IF c = j THEN conn ELSE c \in live
    BY <2>1, <2>5
  <2> QED BY <1>2, <1>3, <2>2, <2>4, <2>5, <2>6 DEF OwnersOK, GivenUp
<1>13. ASSUME NEW j \in Jobs, Land(j) PROVE OwnersOK'
  <2> DEFINE s == job[j].slot
  <2>1. /\ job[j].step = "landing"
        /\ session' = [session EXCEPT ![s] = Landed(s, j)]
        /\ job' = [job EXCEPT ![j] = JobOver(j)]
        /\ UNCHANGED <<call, live, closing, lost>>
    BY <1>13, LandCases
  <2>2. s \in Slots
    BY RecordTypes
  <2>3. session[s].conn = None
    BY <2>1, <2>2 DEF SlotsOK, HasSlot
  <2>4. Landed(s, j).conn = IF Kept(s, j) THEN j ELSE None
    BY <2>2, <2>3, SlotValues
  <2>5. \A c \in Jobs, r \in Slots :
          InSlot(c, r)' <=> InSlot(c, r) \/ (Kept(s, j) /\ c = j /\ r = s)
    BY <2>1, <2>2, <2>3, <2>4 DEF InSlot
  <2>6. /\ JobOver(j).step = (IF job[j].conn /\ ~Kept(s, j) THEN "destroys" ELSE "ended")
        /\ JobOver(j).conn = job[j].conn
    BY JobValues
  <2>7. Kept(s, j) => job[j].conn
    BY DEF Kept, JobsOK
  <2>8. /\ \A c \in Jobs : Lands(c)' <=> Lands(c) /\ ~(c = j /\ Kept(s, j))
        /\ \A c \in Jobs : job[c].step = "ended" => job'[c].step = "ended"
        /\ Kept(s, j) => job'[j].step = "ended" /\ Lands(j)
    BY <2>1, <2>6, <2>7 DEF Lands
  <2>9. /\ \A r \in Slots : ~InSlot(j, r)
        /\ \A t \in Tasks : ~ClosesConn(j, t)
        /\ ~GivenUp(j)
    BY <2>1 DEF OwnersOK
  <2> HIDE DEF s
  <2> QED BY <1>3, <2>1, <2>2, <2>5, <2>8, <2>9 DEF OwnersOK, GivenUp
<1>14. ASSUME NEW j \in Jobs, LandedDestroys(j) PROVE OwnersOK'
  <2>1. /\ job[j].step = "destroys" /\ live' = live \ {j}
        /\ job' = [job EXCEPT ![j] = [job[j] EXCEPT !.step = "ended"]]
        /\ UNCHANGED <<session, call, closing, lost>>
    BY <1>14 DEF LandedDestroys
  <2>2. [job[j] EXCEPT !.step = "ended"].step = "ended"
    BY JobValues
  <2>3. /\ \A c \in Jobs : Lands(c)' <=> Lands(c) /\ c # j
        /\ \A c \in Jobs : job[c].step = "ended" => job'[c].step = "ended"
    BY <2>1, <2>2 DEF Lands
  <2>4. /\ \A r \in Slots : ~InSlot(j, r)
        /\ \A t \in Tasks : ~ClosesConn(j, t)
        /\ ~GivenUp(j)
    BY <2>1 DEF OwnersOK
  <2> QED BY <1>2, <1>3, <2>1, <2>3, <2>4 DEF OwnersOK, GivenUp
<1>15. CASE AppStarts
  <2>1. UNCHANGED <<session, call, live, closing, lost>> /\ \A j \in Jobs : job'[j] = Untold(j)
    BY <1>15 DEF AppStarts, Untold
  <2>2. \A c \in Jobs : job'[c].step = job[c].step /\ job'[c].conn = job[c].conn
    BY <2>1, JobValues
  <2> QED BY <1>1, <1>2, <1>3, <2>1, <2>2 DEF Lands
<1>16. CASE CloseAll
  <2>1. /\ closing = {} /\ UNCHANGED <<job, call, live>>
        /\ \A s \in Slots : session'[s] = Cleared(s)
        /\ \/ closing' = Conns /\ lost' = lost
           \/ lost' = lost \cup Conns /\ closing' = closing
    BY <1>16 DEF CloseAll
  <2>2. \A c \in Jobs : c \in Conns <=> \E s \in Slots : InSlot(c, s)
    BY DEF Conns, InSlot
  <2>3. \A c \in Jobs, s \in Slots : ~InSlot(c, s)'
    <3>1. \A s \in Slots : Cleared(s).conn = None
      BY SlotValues
    <3> QED BY <2>1, <3>1 DEF InSlot
  <2> QED BY <1>3, <1>4, <2>1, <2>2, <2>3 DEF OwnersOK, GivenUp
<1>17. CASE CloseAllDestroys
  <2>1. live' = live \ closing /\ closing' = {} /\ UNCHANGED <<session, job, call, lost>>
    BY <1>17 DEF CloseAllDestroys
  <2>2. \A c \in Jobs, s \in Slots : InSlot(c, s)' <=> InSlot(c, s)
    BY <1>2, <2>1
  <2>3. \A c \in Jobs, t \in Tasks : ClosesConn(c, t)' <=> ClosesConn(c, t)
    BY <1>3, <2>1
  <2>4. \A c \in Jobs : Lands(c)' <=> Lands(c)
    BY <1>4, <2>1
  <2>5. \A c \in closing : /\ \A s \in Slots : ~InSlot(c, s)
                           /\ \A t \in Tasks : ~ClosesConn(c, t)
                           /\ ~Lands(c) /\ c \notin lost
    BY DEF OwnersOK, Lands, GivenUp, TypeOK
  <2>6. \A c \in Jobs : /\ c \in live' <=> c \in live /\ c \notin closing
                        /\ GivenUp(c)' <=> c \in lost
    BY <2>1 DEF GivenUp
  <2> QED BY <2>1, <2>2, <2>3, <2>4, <2>5, <2>6 DEF OwnersOK, GivenUp
<1>18. CASE AppExits
  BY <1>1, <1>2, <1>3, <1>4, <1>18 DEF AppExits
<1> QED
  BY <1>5, <1>6, <1>7, <1>8, <1>9, <1>10, <1>11, <1>12, <1>13, <1>14, <1>15, <1>16, <1>17,
     <1>18, <1>20
  DEF Next, AppCall, ConnectTask

\* Numbers are used once: a new handle differs from all that were ever given.
LEMMA HandlesStep ==
  ASSUME IInv, Next PROVE HandlesOK'
<1> USE Domains DEF IInv
<1> DEFINE Used(j) == job[j].step # "unused"
           Numbered(j, top) ==
             \E n \in 1 .. top : job[j].handle = (n % GenMod) * SlotCount + job[j].slot
           Owned(s) == /\ session[s].job \in Jobs /\ Used(session[s].job)
                       /\ job[session[s].job].handle = session[s].handle
<1>1. ASSUME UNCHANGED <<generation, attempts>>,
             \A j \in Jobs : /\ Used(j)' <=> Used(j)
                             /\ job'[j].handle = job[j].handle /\ job'[j].slot = job[j].slot,
             \A s \in Slots : \/ session'[s].handle = -1
                              \/ /\ session'[s].handle = session[s].handle
                                 /\ session'[s].job = session[s].job
      PROVE  HandlesOK'
  <2>1. generation' = attempts' % GenMod
    BY <1>1 DEF HandlesOK
  <2>2. \A j \in Jobs : Used(j)' => Numbered(j, attempts)'
    BY <1>1 DEF HandlesOK
  <2>3. \A j, k \in Jobs : Used(j)' /\ Used(k)' /\ job'[j].handle = job'[k].handle => j = k
    BY <1>1 DEF HandlesOK
  <2>4. \A s \in Slots : session'[s].handle # -1 => Owned(s)'
    BY <1>1 DEF HandlesOK
  <2> QED BY <2>1, <2>2, <2>3, <2>4 DEF HandlesOK
<1>2. ASSUME job' = job
      PROVE  \A j \in Jobs : /\ Used(j)' <=> Used(j)
                             /\ job'[j].handle = job[j].handle /\ job'[j].slot = job[j].slot
  BY <1>2
<1>3. ASSUME NEW s \in Slots, ConnectCounts(s)
      PROVE  /\ attempts' = attempts + 1 /\ generation' = attempts' % GenMod
             /\ attempts' \in 1 .. GenMod /\ attempts \in Nat
  <2>1. attempts \in 0 .. GenMod - 1 /\ GenMod \in Nat \ {0}
    BY <1>3, AppTlsAssumption DEF ConnectCounts, TypeOK
  <2>2. generation = attempts % GenMod
    BY DEF HandlesOK
  <2>3. ((attempts % GenMod) + 1) % GenMod = (attempts + 1) % GenMod
    BY <2>1, ModNext
  <2> QED BY <1>3, <2>1, <2>2, <2>3 DEF ConnectCounts, NextGeneration
<1>5. ASSUME NEW t \in Tasks, NEW s \in Slots, NEW j \in Jobs, ConnectTakes(t, s, j)
      PROVE  HandlesOK'
  <2>1. /\ attempts' = attempts + 1 /\ generation' = attempts' % GenMod
        /\ attempts' \in 1 .. GenMod /\ attempts \in Nat
    BY <1>3, <1>5 DEF ConnectTakes
  <2>2. PICK h \in Handle : h = NextGeneration * SlotCount + s
    BY NextInRange
  <2>3. h = (attempts' % GenMod) * SlotCount + s
    BY <1>5, <2>1, <2>2 DEF ConnectTakes, ConnectCounts
  <2>4. /\ session' = [session EXCEPT ![s] = Taken(h, j)]
        /\ job' = [job EXCEPT ![j] = Starting(j, s, h)]
        /\ job[j].step = "unused"
    BY <1>5, <2>2 DEF ConnectTakes
  <2>5. /\ Starting(j, s, h).step = "starting" /\ Starting(j, s, h).slot = s
        /\ Starting(j, s, h).handle = h
    BY JobValues
  <2>12. Taken(h, j).handle = h /\ Taken(h, j).job = j
    BY SlotValues
  <2>6. /\ Used(j)' /\ job'[j].handle = h /\ job'[j].slot = s
        /\ \A k \in Jobs \ {j} : job'[k] = job[k]
    BY <2>4, <2>5
  <2>7. 1 .. attempts \subseteq 1 .. attempts' /\ attempts' \in 1 .. attempts'
    BY <2>1
  <2>8. \A k \in Jobs : Used(k)' => Numbered(k, attempts)'
    <3>1. ASSUME NEW k \in Jobs, k # j, Used(k)' PROVE Numbered(k, attempts)'
      BY <2>6, <2>7, <3>1 DEF HandlesOK
    <3>2. Numbered(j, attempts)'
      BY <2>3, <2>6, <2>7
    <3> QED BY <3>1, <3>2
  <2>9. \A k \in Jobs \ {j} : Used(k) => job[k].handle # h
    <3> SUFFICES ASSUME NEW k \in Jobs, Used(k), job[k].handle = h PROVE FALSE
      OBVIOUS
    <3>1. PICK n \in 1 .. attempts : h = (n % GenMod) * SlotCount + job[k].slot
      BY DEF HandlesOK
    <3>2. job[k].slot \in 0 .. SlotCount - 1 /\ s \in 0 .. SlotCount - 1
      BY RecordTypes DEF Slots
    <3>3. GenMod \in Nat \ {0} /\ SlotCount \in Nat \ {0}
      BY AppTlsAssumption
    <3>4. n \in 1 .. GenMod /\ n # attempts'
      BY <2>1, <3>3
    <3>5. n % GenMod \in Nat /\ attempts' % GenMod \in Nat
      BY <2>1, <3>3, <3>4
    <3>6. n % GenMod = attempts' % GenMod
      BY <2>3, <3>1, <3>2, <3>3, <3>5, HandleDiffers
    <3> QED BY <2>1, <3>3, <3>4, <3>6, ModDiffers
  <2>10. \A k, i \in Jobs : Used(k)' /\ Used(i)' /\ job'[k].handle = job'[i].handle => k = i
    BY <2>6, <2>9 DEF HandlesOK
  <2>11. \A r \in Slots : session'[r].handle # -1 => Owned(r)'
    <3>1. session'[s].handle = h /\ session'[s].job = j
      BY <2>4, <2>12
    <3>2. ASSUME NEW r \in Slots, r # s, session'[r].handle # -1 PROVE Owned(r)'
      <4>1. session'[r] = session[r] /\ Owned(r)
        BY <2>4, <3>2 DEF HandlesOK
      <4>2. session[r].job # j
        BY <2>4, <4>1
      <4> QED BY <2>6, <4>1, <4>2
    <3> QED BY <2>6, <3>1, <3>2
  <2> QED BY <2>1, <2>8, <2>10, <2>11 DEF HandlesOK
<1>6. ASSUME NEW t \in Tasks, Connect(t) PROVE HandlesOK'
  BY <1>1, <1>2, <1>5, <1>6, ConnectCases DEF ConnectFull
<1>4. ASSUME NEW j \in Jobs, NEW step \in {"stranded", "working", "ended"},
             job[j].step = "starting", job' = [job EXCEPT ![j] = Stepped(j, step)]
      PROVE  \A k \in Jobs : /\ Used(k)' <=> Used(k)
                             /\ job'[k].handle = job[k].handle /\ job'[k].slot = job[k].slot
  <2>1. /\ Stepped(j, step).step = step /\ Stepped(j, step).handle = job[j].handle
        /\ Stepped(j, step).slot = job[j].slot
    BY JobValues
  <2> QED BY <1>4, <2>1
<1>15. ASSUME NEW t \in Tasks, ConnectStarts(t) PROVE HandlesOK'
  <2> DEFINE j == call[t].of
             s == job[j].slot
  <2>1. j \in Jobs /\ job[j].step = "starting" /\ UNCHANGED <<generation, attempts>>
    BY <1>15, StartCases DEF StartsOK
  <2>2. s \in Slots /\ FreeSlot.handle = -1
    BY <2>1, RecordTypes, SlotValues
  <2>3. session' = session \/ session' = [session EXCEPT ![s] = FreeSlot]
    BY <1>15, StartCases DEF StartRuns, StartFails
  <2>4. \A r \in Slots : session'[r].handle = -1 \/ session'[r] = session[r]
    BY <2>2, <2>3
  <2>5. \A k \in Jobs : /\ Used(k)' <=> Used(k)
                        /\ job'[k].handle = job[k].handle /\ job'[k].slot = job[k].slot
    BY <1>4, <1>15, <2>1, StartCases DEF StartRuns, StartFails
  <2> QED BY <1>1, <2>1, <2>4, <2>5
<1>16. ASSUME NEW t \in Tasks, DeleteTask(t) PROVE HandlesOK'
  <2>1. UNCHANGED <<session, generation, attempts>>
    BY <1>16 DEF DeleteTask
  <2>2. CASE call[t].step = "starts"
    <3>1. call[t].of \in Jobs /\ job[call[t].of].step = "starting"
      BY <2>2 DEF StartsOK
    <3>2. job' = [job EXCEPT ![call[t].of] = Stepped(call[t].of, "stranded")]
      BY <1>16, <2>2 DEF DeleteTask, Stepped
    <3>3. \A k \in Jobs : /\ Used(k)' <=> Used(k)
                          /\ job'[k].handle = job[k].handle /\ job'[k].slot = job[k].slot
      BY <1>4, <3>1, <3>2
    <3> QED BY <1>1, <2>1, <3>3
  <2>3. CASE call[t].step # "starts"
    BY <1>1, <1>2, <1>16, <2>1, <2>3 DEF DeleteTask
  <2> QED BY <2>2, <2>3
<1>7. ASSUME NEW t \in Tasks, Close(t) PROVE HandlesOK'
  <2>1. UNCHANGED <<job, generation, attempts>>
    BY <1>7, CloseCases
  <2>2. ASSUME NEW s \in Slots, CloseCleared(t, s)
        PROVE  \A r \in Slots : session'[r].handle = -1 \/ session'[r] = session[r]
    <3>1. Cleared(s).handle = -1
      BY SlotValues
    <3> QED BY <2>2, <3>1 DEF CloseCleared
  <2>3. \A r \in Slots : session'[r].handle = -1 \/ session'[r] = session[r]
    BY <1>7, <2>2, CloseCases
  <2> QED BY <1>1, <1>2, <2>1, <2>3
<1>8. ASSUME NEW t \in Tasks, Give(t) PROVE HandlesOK'
  <2>1. ASSUME NEW r \in Slots, NEW st \in {"ready", "failed", "closed"},
               session' = [session EXCEPT ![r] = Rated(r, st)]
        PROVE  \A s \in Slots : /\ session'[s].handle = session[s].handle
                                /\ session'[s].job = session[s].job
    <3>1. Rated(r, st).handle = session[r].handle /\ Rated(r, st).job = session[r].job
      BY SlotValues
    <3> QED BY <2>1, <3>1
  <2>2. ASSUME NEW j \in Jobs, job' = [job EXCEPT ![j] = JobTold(j)]
        PROVE  \A k \in Jobs : /\ Used(k)' <=> Used(k)
                               /\ job'[k].handle = job[k].handle /\ job'[k].slot = job[k].slot
    <3>1. /\ JobTold(j).step = job[j].step /\ JobTold(j).handle = job[j].handle
          /\ JobTold(j).slot = job[j].slot
      BY JobValues
    <3> QED BY <2>2, <3>1
  <2>3. UNCHANGED <<generation, attempts>>
    BY <1>8, GiveCases
  <2>4. \A s \in Slots : /\ session'[s].handle = session[s].handle
                         /\ session'[s].job = session[s].job
    BY <1>8, <2>1, GiveCases
  <2>5. \A k \in Jobs : /\ Used(k)' <=> Used(k)
                        /\ job'[k].handle = job[k].handle /\ job'[k].slot = job[k].slot
    BY <1>2, <1>8, <2>2, GiveCases
  <2> QED BY <1>1, <2>3, <2>4, <2>5
<1>9. ASSUME NEW j \in Jobs, ConnectTask(j) PROVE HandlesOK'
  <2>1. UNCHANGED <<generation, attempts>>
    BY <1>9, LandCases DEF ConnectTask, Handshake, LandedDestroys
  <2>2. CASE Handshake(j)
    <3>1. PICK conn \in BOOLEAN, ready \in BOOLEAN :
            job' = [job EXCEPT ![j] = Landing(j, conn, ready)]
      BY <2>2 DEF Handshake, Landing
    <3>2. job[j].step = "working" /\ session' = session
      BY <2>2 DEF Handshake
    <3>3. /\ Landing(j, conn, ready).step = "landing"
          /\ Landing(j, conn, ready).handle = job[j].handle
          /\ Landing(j, conn, ready).slot = job[j].slot
      BY JobValues
    <3>4. \A k \in Jobs : /\ Used(k)' <=> Used(k)
                          /\ job'[k].handle = job[k].handle /\ job'[k].slot = job[k].slot
      BY <3>1, <3>2, <3>3
    <3> QED BY <1>1, <2>1, <3>2, <3>4
  <2>3. CASE Land(j)
    <3> DEFINE s == job[j].slot
    <3>1. /\ job[j].step = "landing" /\ job' = [job EXCEPT ![j] = JobOver(j)]
          /\ session' = [session EXCEPT ![s] = Landed(s, j)]
      BY <2>3, LandCases
    <3>2. s \in Slots
      BY RecordTypes
    <3>3. /\ JobOver(j).step \in {"destroys", "ended"} /\ JobOver(j).handle = job[j].handle
          /\ JobOver(j).slot = job[j].slot
      BY JobValues
    <3>4. Landed(s, j).handle = session[s].handle /\ Landed(s, j).job = session[s].job
      BY <3>2, SlotValues
    <3>5. \A k \in Jobs : /\ Used(k)' <=> Used(k)
                          /\ job'[k].handle = job[k].handle /\ job'[k].slot = job[k].slot
      BY <3>1, <3>3
    <3>6. \A r \in Slots : /\ session'[r].handle = session[r].handle
                           /\ session'[r].job = session[r].job
      BY <3>1, <3>2, <3>4
    <3> QED BY <1>1, <2>1, <3>5, <3>6
  <2>4. CASE LandedDestroys(j)
    <3>1. /\ job[j].step = "destroys" /\ session' = session
          /\ job' = [job EXCEPT ![j] = [job[j] EXCEPT !.step = "ended"]]
      BY <2>4 DEF LandedDestroys
    <3>2. LET r == [job[j] EXCEPT !.step = "ended"]
          IN r.step = "ended" /\ r.handle = job[j].handle /\ r.slot = job[j].slot
      BY JobValues
    <3>3. \A k \in Jobs : /\ Used(k)' <=> Used(k)
                          /\ job'[k].handle = job[k].handle /\ job'[k].slot = job[k].slot
      BY <3>1, <3>2
    <3> QED BY <1>1, <2>1, <3>1, <3>3
  <2> QED BY <1>9, <2>2, <2>3, <2>4 DEF ConnectTask
<1>10. CASE AppStarts
  <2>1. /\ UNCHANGED <<session, generation, attempts>>
        /\ \A j \in Jobs : job'[j] = Untold(j)
    BY <1>10 DEF AppStarts, Untold
  <2>2. \A k \in Jobs : /\ Used(k)' <=> Used(k)
                        /\ job'[k].handle = job[k].handle /\ job'[k].slot = job[k].slot
    BY <2>1, JobValues
  <2> QED BY <1>1, <2>1, <2>2
<1>11. CASE CloseAll
  <2>1. UNCHANGED <<job, generation, attempts>> /\ \A s \in Slots : session'[s] = Cleared(s)
    BY <1>11 DEF CloseAll
  <2>2. \A s \in Slots : Cleared(s).handle = -1
    BY SlotValues
  <2> QED BY <1>1, <1>2, <2>1, <2>2
<1>12. CASE UNCHANGED <<session, job, generation, attempts>>
  BY <1>1, <1>2, <1>12
<1>13. CASE AppExits \/ CloseAllDestroys
  BY <1>12, <1>13 DEF AppExits, CloseAllDestroys
<1>14. ASSUME NEW t \in Tasks,
              \/ \E op \in {"connect", "transfer", "close"}, j \in Jobs \cup {None} : Begin(t, op, j)
              \/ Transfer(t) \/ Destroy(t)
       PROVE  HandlesOK'
  BY <1>12, <1>14 DEF Begin, Transfer, Destroy
<1> QED
  BY <1>6, <1>7, <1>8, <1>9, <1>10, <1>11, <1>13, <1>14, <1>15, <1>16 DEF Next, AppCall
-----------------------------------------------------------------------------
(***************************************************************************)
(* The results                                                             *)
(***************************************************************************)
LEMMA InitInvariant == Init => IInv
<1> SUFFICES ASSUME Init PROVE IInv
  OBVIOUS
<1>1. TypeOK
  BY InitTypes
<1>2. /\ \A t \in Tasks : call[t].op = "none" /\ call[t].step = "idle" /\ call[t].conn = None
      /\ \A s \in Slots : session[s].conn = None /\ session[s].handle = -1 /\ ~session[s].worker
      /\ \A j \in Jobs : job[j].step = "unused" /\ job[j].conn = FALSE /\ job[j].ready = FALSE
      /\ holder = None /\ closing = {} /\ live = {} /\ lost = {}
      /\ generation = 0 /\ attempts = 0
  BY DEF Init, NoCall, FreeSlot
<1>3. 0 % GenMod = 0
  BY AppTlsAssumption
<1>4. CallsOK /\ JobsOK /\ StartsOK
  BY <1>1, <1>2, Domains DEF CallsOK, JobsOK, StartsOK
<1>5. OwnersOK
  BY <1>1, <1>2, Domains DEF OwnersOK, InSlot, ClosesConn, Lands, GivenUp
<1>6. SlotsOK
  BY <1>2 DEF SlotsOK, HasSlot
<1>7. HandlesOK
  BY <1>2, <1>3 DEF HandlesOK
<1> QED BY <1>1, <1>4, <1>5, <1>6, <1>7 DEF IInv

LEMMA InvariantHolds == Spec => []IInv
<1>1. ASSUME IInv, UNCHANGED vars PROVE IInv'
  BY <1>1 DEF vars, IInv, TypeOK, CallsOK, JobsOK, StartsOK, OwnersOK, SlotsOK, HandlesOK,
              InSlot, ClosesConn, Lands, GivenUp, HasSlot
<1>2. ASSUME IInv, Next PROVE IInv'
  BY <1>2, NextTypes, CallsStep, JobsStep, StartsStep, OwnersStep, SlotsStep, HandlesStep DEF IInv
<1>3. IInv /\ [Next]_vars => IInv'
  BY <1>1, <1>2
<1> QED BY <1>3, InitInvariant, PTL DEF Spec

\* Every connection that is allocated has exactly one owner, which will free it or
\* has given it up, and no owner has one that is gone; a slot has one connect task
\* at most and is not handed out before that has ended, and one whose connect task is
\* still to be created has a call that will, or was stranded when that call's task was
\* deleted.  For any number of slots, connects and tasks, in every order of their steps.
THEOREM ConnectionsHaveOneOwner == Spec => []OneOwner
<1>1. IInv => OneOwner
  <2> SUFFICES ASSUME IInv PROVE OneOwner
    OBVIOUS
  <2> USE DEF IInv
  <2>1. ASSUME NEW c \in Jobs
        PROVE  c \in live <=> Owners(c) # {}
    <3>1. /\ \A s \in Slots : InSlot(c, s) => <<"slot", s>> \in Owners(c)
          /\ \A t \in Tasks : ClosesConn(c, t) => <<"task", t>> \in Owners(c)
          /\ Lands(c) => <<"connect">> \in Owners(c)
          /\ c \in closing => <<"loader">> \in Owners(c)
          /\ c \in lost => <<"lost">> \in Owners(c)
      BY DEF Owners, InSlot, ClosesConn, Lands
    <3>2. ASSUME NEW q \in Owners(c)
          PROVE  \/ \E s \in Slots : InSlot(c, s)
                 \/ \E t \in Tasks : ClosesConn(c, t)
                 \/ Lands(c) \/ GivenUp(c)
      BY DEF Owners, InSlot, ClosesConn, Lands, GivenUp
    <3> QED BY <3>1, <3>2 DEF OwnersOK, GivenUp
  <2>2. ASSUME NEW c \in Jobs, NEW o \in Owners(c), NEW p \in Owners(c)
        PROVE  o = p
    <3>1. \A q \in Owners(c) :
            \/ \E s \in Slots : q = <<"slot", s>> /\ InSlot(c, s)
            \/ \E t \in Tasks : q = <<"task", t>> /\ ClosesConn(c, t)
            \/ q = <<"connect">> /\ Lands(c)
            \/ q = <<"loader">> /\ c \in closing
            \/ q = <<"lost">> /\ c \in lost
      BY DEF Owners, InSlot, ClosesConn, Lands
    <3>2. CASE \E s \in Slots : InSlot(c, s)
      <4>1. PICK s \in Slots : InSlot(c, s)
        BY <3>2
      <4>2. \A q \in Owners(c) : q = <<"slot", s>>
        BY <3>1, <4>1 DEF OwnersOK, Lands, GivenUp
      <4> QED BY <4>2
    <3>3. CASE \E t \in Tasks : ClosesConn(c, t)
      <4>1. PICK t \in Tasks : ClosesConn(c, t)
        BY <3>3
      <4>2. \A q \in Owners(c) : q = <<"task", t>>
        BY <3>1, <4>1 DEF OwnersOK, Lands, GivenUp
      <4> QED BY <4>2
    <3>4. CASE (\A s \in Slots : ~InSlot(c, s)) /\ (\A t \in Tasks : ~ClosesConn(c, t))
      <4>1. \/ \A q \in Owners(c) : q = <<"connect">>
            \/ \A q \in Owners(c) : q = <<"loader">>
            \/ \A q \in Owners(c) : q = <<"lost">>
        BY <3>1, <3>4 DEF OwnersOK, Lands, GivenUp
      <4> QED BY <4>1
    <3> QED BY <3>2, <3>3, <3>4
  <2>3. ASSUME NEW s \in Slots
        PROVE  /\ session[s].worker <=> \E j \in Jobs : HasSlot(j, s)
               /\ \A j, k \in Jobs : HasSlot(j, s) /\ HasSlot(k, s) => j = k
    BY DEF SlotsOK
  <2>4. ASSUME NEW j \in Jobs, job[j].step = "starting"
        PROVE  \E t \in Tasks : holder = t /\ call[t].step = "starts" /\ call[t].of = j
    BY <2>4 DEF StartsOK, CallsOK
  <2> QED BY <2>1, <2>2, <2>3, <2>4 DEF OneOwner
<1> QED BY <1>1, InvariantHolds, PTL

\* No task reads or writes a connection that is freed.
THEOREM TransfersOnLive == Spec => []TransferOnLive
<1>1. IInv => TransferOnLive
  <2> SUFFICES ASSUME IInv, NEW t \in Tasks, call[t].op = "transfer", call[t].conn # None
               PROVE  call[t].conn \in live
    BY DEF TransferOnLive
  <2>1. call[t].conn \in Jobs
    BY RecordTypes DEF IInv
  <2> QED BY <2>1 DEF IInv, CallsOK, OwnersOK, InSlot
<1> QED BY <1>1, InvariantHolds, PTL

\* As long as the handle numbers do not repeat, a handle reaches the session it was
\* given for or none.
THEOREM HandlesReachTheirSession == Spec => []HandleReachesItsSession
<1>1. IInv => HandleReachesItsSession
  <2> SUFFICES ASSUME IInv, NEW j \in Jobs, NEW s \in Slots,
                      job[j].step # "unused", session[s].handle = job[j].handle
               PROVE  session[s].job = j
    BY DEF HandleReachesItsSession
  <2>1. job[j].handle # -1
    <3>1. PICK n \in 1 .. attempts : job[j].handle = (n % GenMod) * SlotCount + job[j].slot
      BY DEF IInv, HandlesOK
    <3>2. n % GenMod \in Nat /\ SlotCount \in Nat /\ job[j].slot \in Nat
      BY RecordTypes, AppTlsAssumption DEF IInv, TypeOK, Slots
    <3>3. (n % GenMod) * SlotCount \in Nat
      BY <3>2
    <3> QED BY <3>1, <3>2, <3>3
  <2> QED BY <2>1 DEF IInv, HandlesOK
<1> QED BY <1>1, InvariantHolds, PTL
-----------------------------------------------------------------------------
(***************************************************************************)
(* Tasks                                                                   *)
(***************************************************************************)

Busy(t) == ~In(t, "idle")

CallNames ==
  \A t \in Creators :
    /\ Busy(t) => taskCall[t].handle \in Handles
    /\ In(t, "enter") \/ In(t, "clear") => taskCall[t].entry \in Entry

\* What each call has in hand: a task that is in no entry yet, one that is in its
\* entry still, or one that is out of the registry.  Only of a task that has strayed may
\* the call look for an entry that is gone, and only one that has strayed may have
\* ended itself.
CallHasOf(t) ==
  LET h == taskCall[t].handle
      e == taskCall[t].entry
  IN   /\ Busy(t) => h \notin given
       /\ In(t, "remember") \/ In(t, "enter") \/ In(t, "refuse") =>
            /\ block[h] = "big" \/ (block[h] = "lost" /\ h \in strayed)
            /\ \A k \in Entry : registry[k] # h
       /\ In(t, "forget") \/ In(t, "deleteSmall") => block[h] \in {"small", "big"}
       /\ In(t, "forget") /\ block[h] = "big" /\ h \notin strayed =>
            \E k \in Entry : k >= e /\ registry[k] = h
       /\ In(t, "clear") => block[h] = "big" /\ \A k \in Entry : registry[k] = h => k = e
       /\ In(t, "deleteBig") => block[h] = "big" /\ \A k \in Entry : registry[k] # h
       /\ In(t, "deleteSmall") /\ block[h] = "big" => h \in strayed

CallHas == \A t \in Creators : CallHasOf(t)

\* A task is in one hand: of a call, or of the app.
HandsDistinct ==
  /\ \A t, u \in Creators :
       Busy(t) /\ Busy(u) /\ taskCall[t].handle = taskCall[u].handle => t = u
  /\ \A h \in given : block[h] \in {"small", "big"}

EntriesDistinct ==
  \A d, e \in Entry : registry[d] # NoHandle /\ registry[d] = registry[e] => d = e

\* What was deleted by the wrong function is not given out again.
MismatchedAreLost == \A h \in mismatched : block[h] = "lost"

TasksFit ==
  CallHas /\ HandsDistinct /\ EntriesDistinct /\ MismatchedAreLost /\ DeletedAsMade

TasksInv == TasksTypeOK /\ CallNames /\ TasksFit
-----------------------------------------------------------------------------
Calls == [Creators ->
  [step : {"idle", "remember", "enter", "refuse", "forget", "clear", "deleteSmall",
           "deleteBig"},
   handle : Handles \cup {NoHandle}, entry : 0 .. TaskMax]]

LEMMA TasksInitially == TasksInit => TasksInv
<1> SUFFICES ASSUME TasksInit PROVE TasksInv
  OBVIOUS
<1> USE TasksAssumption DEF TasksInit, NoTaskCall
<1>1. TasksTypeOK
  <2>1. taskCall \in Calls
    BY DEF Calls
  <2>2. registry \in [Entry -> Handles \cup {NoHandle}] /\ given \subseteq Handles
    BY DEF Entry
  <2>3. strayed \subseteq Handles /\ mismatched \subseteq Handles
    OBVIOUS
  <2> QED
    BY <2>1, <2>2, <2>3 DEF TasksTypeOK, Calls
<1>2. \A t \in Creators : taskCall[t].step = "idle"
  OBVIOUS
<1>3. CallNames /\ CallHas /\ HandsDistinct
  <2>1. CallNames
    BY <1>2 DEF CallNames, Busy, In
  <2>2. CallHas
    BY <1>2 DEF CallHas, CallHasOf, Busy, In
  <2>3. HandsDistinct
    BY <1>2 DEF HandsDistinct, Busy, In
  <2> QED
    BY <2>1, <2>2, <2>3
<1>4. EntriesDistinct /\ MismatchedAreLost /\ DeletedAsMade
  BY DEF EntriesDistinct, MismatchedAreLost, DeletedAsMade
<1> QED
  BY <1>1, <1>3, <1>4 DEF TasksInv, TasksFit

LEMMA DeleteType ==
  ASSUME TasksTypeOK, NEW h \in Handles, NEW withCaps \in BOOLEAN, Delete(h, withCaps)
  PROVE  block' \in [Handles -> {"free", "small", "big", "lost"}] /\ mismatched' \subseteq Handles
<1>1. block' \in [Handles -> {"free", "small", "big", "lost"}]
  BY DEF Delete, TasksTypeOK
<1>2. mismatched' \subseteq Handles
  BY DEF Delete, TasksTypeOK
<1> QED
  BY <1>1, <1>2

LEMMA ProceedsType ==
  ASSUME TasksTypeOK, NEW t \in Creators, NEW step, NEW entry \in 0 .. TaskMax,
         step \in {"remember", "enter", "refuse", "forget", "clear", "deleteSmall", "deleteBig"},
         Proceeds(t, step, entry)
  PROVE  /\ taskCall' \in Calls
         /\ taskCall'[t].step = step /\ taskCall'[t].entry = entry
         /\ taskCall'[t].handle = taskCall[t].handle
         /\ \A u \in Creators : u # t => taskCall'[u] = taskCall[u]
  BY DEF Proceeds, TasksTypeOK, Calls

LEMMA EndsType ==
  ASSUME TasksTypeOK, NEW t \in Creators, TaskCallEnds(t)
  PROVE  /\ taskCall' \in Calls
         /\ taskCall'[t].step = "idle"
         /\ \A u \in Creators : u # t => taskCall'[u] = taskCall[u]
  BY TasksAssumption DEF TaskCallEnds, NoTaskCall, TasksTypeOK, Calls

LEMMA TasksTypeKept ==
  ASSUME TasksTypeOK, CallNames, [TasksNext]_tasksVars
  PROVE  TasksTypeOK' /\ CallNames'
<1> USE TasksAssumption DEF TasksTypeOK, CallNames, Busy, In
<1>1. ASSUME NEW t \in Creators, NEW h \in Handles, CreateSmall(t, h)
      PROVE  TasksTypeOK' /\ CallNames'
  BY <1>1 DEF CreateSmall
<1>2. ASSUME NEW t \in Creators, NEW h \in Handles, CreateBig(t, h)
      PROVE  TasksTypeOK' /\ CallNames'
  BY <1>2 DEF CreateBig
<1>3. ASSUME NEW t \in Creators, NEW h \in Handles, DeleteBegins(t, h)
      PROVE  TasksTypeOK' /\ CallNames'
  BY <1>3 DEF DeleteBegins
<1>4. ASSUME NEW t \in Creators, Remembers(t) PROVE TasksTypeOK' /\ CallNames'
  <2>1. PICK step \in {"refuse", "enter", "remember"}, entry \in 0 .. TaskMax :
          Proceeds(t, step, entry) /\ (step = "enter" => entry \in Entry)
    BY <1>4 DEF Remembers, Entry
  <2>2. taskCall' \in Calls /\ UNCHANGED <<registry, block, given, strayed, mismatched>>
    BY <1>4, <2>1, ProceedsType DEF Remembers
  <2>3. TasksTypeOK'
    BY <2>2 DEF Calls
  <2>4. CallNames'
    BY <1>4, <2>1, ProceedsType DEF Remembers
  <2> QED
    BY <2>3, <2>4
<1>5. ASSUME NEW t \in Creators, Enters(t) PROVE TasksTypeOK' /\ CallNames'
  <2>0. taskCall[t].entry \in Entry /\ registry[taskCall[t].entry] \in Handles \cup {NoHandle}
    BY <1>5 DEF Enters
  <2>1. strayed' \subseteq Handles
    BY <1>5, <2>0 DEF Enters
  <2>2. registry' \in [Entry -> Handles \cup {NoHandle}] /\ given' \subseteq Handles
    BY <1>5 DEF Enters
  <2> QED
    BY <1>5, <2>1, <2>2, EndsType DEF Enters, Calls
<1>6. ASSUME NEW t \in Creators, Refuses(t) PROVE TasksTypeOK' /\ CallNames'
  BY <1>6, EndsType, DeleteType DEF Refuses, Calls
<1>7. ASSUME NEW t \in Creators, Forgets(t) PROVE TasksTypeOK' /\ CallNames'
  <2>1. PICK step \in {"forget", "clear", "deleteSmall"}, entry \in 0 .. TaskMax :
          Proceeds(t, step, entry) /\ (step = "clear" => entry \in Entry)
    <3>1. taskCall[t].entry \in 0 .. TaskMax
      OBVIOUS
    <3>2. \/ Proceeds(t, "deleteSmall", taskCall[t].entry)
          \/ taskCall[t].entry \in Entry /\ Proceeds(t, "clear", taskCall[t].entry)
          \/ taskCall[t].entry \in Entry /\ Proceeds(t, "forget", taskCall[t].entry + 1)
      BY <1>7, <3>1 DEF Forgets, Entry
    <3> QED BY <3>1, <3>2 DEF Entry
  <2> QED
    BY <1>7, <2>1, ProceedsType DEF Forgets, Calls
<1>8. ASSUME NEW t \in Creators, ClearsEntry(t) PROVE TasksTypeOK' /\ CallNames'
  <2>0. taskCall[t].entry \in Entry /\ registry[taskCall[t].entry] \in Handles \cup {NoHandle}
    BY <1>8 DEF ClearsEntry
  <2>1. registry' \in [Entry -> Handles \cup {NoHandle}] /\ strayed' \subseteq Handles
    BY <1>8, <2>0 DEF ClearsEntry
  <2>2. Proceeds(t, "deleteBig", 0) /\ 0 \in 0 .. TaskMax
    BY <1>8 DEF ClearsEntry
  <2> QED
    BY <1>8, <2>1, <2>2, ProceedsType DEF ClearsEntry, Calls
<1>9. ASSUME NEW t \in Creators, Deletes(t) PROVE TasksTypeOK' /\ CallNames'
  <2>1. PICK withCaps \in BOOLEAN : Delete(taskCall[t].handle, withCaps)
    BY <1>9 DEF Deletes
  <2> QED
    BY <1>9, <2>1, EndsType, DeleteType DEF Deletes, Calls
<1>10. ASSUME NEW t \in Creators, CreatorGoes(t) PROVE TasksTypeOK' /\ CallNames'
  BY <1>10, EndsType DEF CreatorGoes, Calls
<1>11. ASSUME NEW h \in Handles, DeletesItself(h) PROVE TasksTypeOK' /\ CallNames'
  BY <1>11 DEF DeletesItself
<1>12. CASE UNCHANGED tasksVars
  BY <1>12 DEF tasksVars
<1> QED
  BY <1>1, <1>2, <1>3, <1>4, <1>5, <1>6, <1>7, <1>8, <1>9, <1>10, <1>11, <1>12
  DEF TasksNext, TaskStep
-----------------------------------------------------------------------------
\* Making a task: its address was free, so that nothing is left of a task before it.
LEMMA TasksFitCreate ==
  ASSUME TasksInv, TasksTypeOK', CallNames', NEW t \in Creators, NEW h \in Handles,
         CreateSmall(t, h) \/ CreateBig(t, h) \/ DeleteBegins(t, h)
  PROVE  TasksFit'
<1> USE TasksAssumption
    DEF TasksInv, TasksFit, TasksTypeOK, CallNames, CallHas, CallHasOf, HandsDistinct,
        EntriesDistinct, MismatchedAreLost, DeletedAsMade, Busy, In
<1>1. CASE CreateSmall(t, h)
  <2>1. block[h] = "free" /\ h \notin mismatched /\ h \notin given
    BY <1>1 DEF CreateSmall
  <2>2. \A k \in Entry : registry[k] # h
    BY <2>1
  <2>3. CallHas'
    BY <1>1, <2>1, <2>2 DEF CreateSmall
  <2>4. HandsDistinct' /\ EntriesDistinct' /\ MismatchedAreLost'
    BY <1>1, <2>1, <2>2 DEF CreateSmall
  <2>5. DeletedAsMade'
    BY <1>1, <2>1, <2>2 DEF CreateSmall
  <2> QED BY <2>3, <2>4, <2>5
<1>2. CASE CreateBig(t, h)
  <2>1. block[h] = "free" /\ h \notin mismatched /\ h \notin given
    BY <1>2 DEF CreateBig
  <2>2. \A k \in Entry : registry[k] # h
    BY <2>1
  <2>3. CallHas'
    BY <1>2, <2>1, <2>2 DEF CreateBig
  <2>4. HandsDistinct' /\ EntriesDistinct' /\ MismatchedAreLost'
    BY <1>2, <2>1, <2>2 DEF CreateBig
  <2>5. DeletedAsMade'
    BY <1>2, <2>1, <2>2 DEF CreateBig
  <2> QED BY <2>3, <2>4, <2>5
<1>3. CASE DeleteBegins(t, h)
  <2>1. h \in given /\ In(t, "idle") /\ block[h] \in {"small", "big"}
    BY <1>3 DEF DeleteBegins
  <2>2. block[h] = "big" /\ h \notin strayed => \E k \in Entry : k >= 0 /\ registry[k] = h
    BY <2>1 DEF Entry
  <2>3. CallHas'
    BY <1>3, <2>1, <2>2 DEF DeleteBegins
  <2>4. HandsDistinct' /\ EntriesDistinct' /\ MismatchedAreLost' /\ DeletedAsMade'
    BY <1>3, <2>1 DEF DeleteBegins
  <2> QED BY <2>3, <2>4
<1> QED BY <1>1, <1>2, <1>3

\* Looking through the registry.
LEMMA TasksFitLook ==
  ASSUME TasksInv, TasksTypeOK', CallNames', NEW t \in Creators, Remembers(t) \/ Forgets(t)
  PROVE  TasksFit'
<1> USE TasksAssumption
    DEF TasksInv, TasksFit, TasksTypeOK, CallNames, CallHas, CallHasOf, HandsDistinct,
        EntriesDistinct, MismatchedAreLost, DeletedAsMade, Busy, In
<1> DEFINE e == taskCall[t].entry
           h == taskCall[t].handle
<1>1. UNCHANGED <<registry, block, given, strayed, mismatched>> /\ e \in 0 .. TaskMax
  BY DEF Remembers, Forgets
<1>2. CASE Remembers(t)
  <2>0. \/ e = TaskMax /\ Proceeds(t, "refuse", e)
        \/ e \in Entry /\ Proceeds(t, "enter", e)
        \/ e \in Entry /\ Proceeds(t, "remember", e + 1)
    BY <1>1, <1>2 DEF Remembers, Entry
  <2>1. PICK step \in {"refuse", "enter", "remember"}, entry \in 0 .. TaskMax :
          Proceeds(t, step, entry) /\ (step = "enter" => entry \in Entry)
    BY <2>0 DEF Entry
  <2>2. /\ taskCall'[t].step = step /\ taskCall'[t].entry = entry
        /\ taskCall'[t].handle = taskCall[t].handle
        /\ \A u \in Creators : u # t => taskCall'[u] = taskCall[u]
    BY <2>1, ProceedsType
  <2>3. In(t, "remember")
    BY <1>2 DEF Remembers
  <2>4. CallHas'
    BY <1>1, <2>1, <2>2, <2>3
  <2>5. HandsDistinct'
    BY <1>1, <2>1, <2>2, <2>3
  <2> QED BY <1>1, <2>4, <2>5
<1>3. CASE Forgets(t)
  <2>1. In(t, "forget") /\ h \in Handles
    BY <1>3 DEF Forgets
  <2>3. \/ e = TaskMax /\ Proceeds(t, "deleteSmall", e)
        \/ e \in Entry /\ registry[e] = h /\ Proceeds(t, "clear", e)
        \/ e \in Entry /\ registry[e] # h /\ Proceeds(t, "forget", e + 1)
    BY <1>1, <1>3 DEF Forgets, Entry
  <2>4. PICK step \in {"deleteSmall", "clear", "forget"}, entry \in 0 .. TaskMax :
          /\ Proceeds(t, step, entry)
          /\ step = "deleteSmall" /\ block[h] = "big" => h \in strayed
          /\ step = "clear" => entry \in Entry /\ registry[entry] = h
          /\ step = "forget" /\ block[h] = "big" /\ h \notin strayed =>
               \E k \in Entry : k >= entry /\ registry[k] = h
    BY <1>1, <2>1, <2>3 DEF Entry
  <2>5. /\ taskCall'[t].step = step /\ taskCall'[t].entry = entry
        /\ taskCall'[t].handle = taskCall[t].handle
        /\ \A u \in Creators : u # t => taskCall'[u] = taskCall[u]
    BY <2>4, ProceedsType
  <2>6. step = "clear" => block[h] = "big" /\ \A k \in Entry : registry[k] = h => k = entry
    BY <2>1, <2>4
  <2>7. CallHas'
    BY <1>1, <2>1, <2>4, <2>5, <2>6
  <2>8. HandsDistinct'
    BY <1>1, <2>1, <2>4, <2>5
  <2> QED BY <1>1, <2>7, <2>8
<1> QED BY <1>2, <1>3

\* Writing and clearing an entry: the task whose place it was has strayed.
LEMMA TasksFitWrite ==
  ASSUME TasksInv, TasksTypeOK', CallNames', NEW t \in Creators, Enters(t) \/ ClearsEntry(t)
  PROVE  TasksFit'
<1> USE TasksAssumption
    DEF TasksInv, TasksFit, TasksTypeOK, CallNames, CallHas, CallHasOf, HandsDistinct,
        EntriesDistinct, MismatchedAreLost, DeletedAsMade, Busy, In
<1> DEFINE e == taskCall[t].entry
           h == taskCall[t].handle
<1>1. CASE Enters(t)
  <2>1. /\ In(t, "enter") /\ h \in Handles /\ e \in Entry
        /\ registry' = [registry EXCEPT ![e] = h]
        /\ strayed' = strayed \cup ({registry[e]} \ {NoHandle})
        /\ given' = IF block[h] = "big" THEN given \cup {h} ELSE given
        /\ UNCHANGED <<block, mismatched>>
    BY <1>1 DEF Enters
  <2>2. /\ taskCall'[t].step = "idle"
        /\ \A u \in Creators : u # t => taskCall'[u] = taskCall[u]
    BY <1>1, EndsType DEF Enters
  <2>3. \A k \in Entry : registry[k] # h
    BY <2>1
  <2>4. CallHas'
    <3> SUFFICES ASSUME NEW u \in Creators, u # t PROVE CallHasOf(u)'
      BY <2>2
    <3>1. taskCall'[u] = taskCall[u]
      BY <2>2
    <3>2. Busy(u) => taskCall[u].handle # h
      BY <2>1
    <3>3. \A k \in Entry : registry'[k] = IF k = e THEN h ELSE registry[k]
      BY <2>1
    <3> QED BY <2>1, <3>1, <3>2, <3>3
  <2>5. HandsDistinct'
    BY <2>1, <2>2
  <2>6. EntriesDistinct' /\ MismatchedAreLost'
    BY <2>1, <2>3
  <2>7. DeletedAsMade'
    BY <2>1, <2>3
  <2> QED BY <2>4, <2>5, <2>6, <2>7
<1>2. CASE ClearsEntry(t)
  <2>1. /\ In(t, "clear") /\ h \in Handles /\ e \in Entry
        /\ registry' = [registry EXCEPT ![e] = NoHandle]
        /\ strayed' = strayed \cup ({registry[e]} \ {NoHandle, h})
        /\ UNCHANGED <<block, given, mismatched>>
    BY <1>2 DEF ClearsEntry
  <2>2. Proceeds(t, "deleteBig", 0) /\ 0 \in 0 .. TaskMax
    BY <1>2 DEF ClearsEntry
  <2>3. /\ taskCall'[t].step = "deleteBig" /\ taskCall'[t].handle = h
        /\ \A u \in Creators : u # t => taskCall'[u] = taskCall[u]
    BY <2>2, ProceedsType
  <2>4. \A k \in Entry : registry'[k] = IF k = e THEN NoHandle ELSE registry[k]
    BY <2>1
  <2>5. CallHas'
    <3>1. CallHasOf(t)'
      BY <2>1, <2>3, <2>4
    <3>2. ASSUME NEW u \in Creators, u # t PROVE CallHasOf(u)'
      <4>1. taskCall'[u] = taskCall[u] /\ (Busy(u) => taskCall[u].handle # h)
        BY <2>1, <2>3, <3>2
      <4>2. In(u, "forget") /\ block[taskCall[u].handle] = "big"
              /\ taskCall[u].handle \notin strayed' =>
                \E k \in Entry : k >= taskCall[u].entry /\ registry'[k] = taskCall[u].handle
        <5> SUFFICES ASSUME In(u, "forget"), block[taskCall[u].handle] = "big",
                            taskCall[u].handle \notin strayed'
                     PROVE  \E k \in Entry :
                              k >= taskCall[u].entry /\ registry'[k] = taskCall[u].handle
          OBVIOUS
        <5>1. PICK k \in Entry : k >= taskCall[u].entry /\ registry[k] = taskCall[u].handle
          BY <2>1
        <5>2. k # e
          BY <2>1, <4>1, <5>1
        <5> QED BY <2>4, <5>1, <5>2
      <4> QED BY <2>1, <2>4, <4>1, <4>2
    <3> QED BY <3>1, <3>2
  <2>6. HandsDistinct'
    BY <2>1, <2>3
  <2>7. EntriesDistinct' /\ MismatchedAreLost'
    BY <2>1, <2>4
  <2>8. DeletedAsMade'
    BY <2>1, <2>4
  <2> QED BY <2>5, <2>6, <2>7, <2>8
<1> QED BY <1>1, <1>2

\* Deleting: a task that goes by the wrong function has strayed, and is lost.
LEMMA TasksFitDelete ==
  ASSUME TasksInv, TasksTypeOK', CallNames', NEW t \in Creators, Refuses(t) \/ Deletes(t)
  PROVE  TasksFit'
<1> USE TasksAssumption
    DEF TasksInv, TasksFit, TasksTypeOK, CallNames, CallHas, CallHasOf, HandsDistinct,
        EntriesDistinct, MismatchedAreLost, DeletedAsMade, Busy, In
<1> DEFINE h == taskCall[t].handle
<1>1. PICK withCaps \in BOOLEAN :
        /\ Delete(h, withCaps)
        /\ withCaps => In(t, "refuse") \/ In(t, "deleteBig")
        /\ ~withCaps => In(t, "deleteSmall")
  BY DEF Refuses, Deletes
<1>2. h \in Handles /\ h \notin given /\ UNCHANGED <<registry, given, strayed>>
  BY DEF Refuses, Deletes
<1>3. /\ taskCall'[t].step = "idle"
      /\ \A u \in Creators : u # t => taskCall'[u] = taskCall[u]
  BY EndsType DEF Refuses, Deletes
<1>4. /\ \A g \in Handles : g # h => block'[g] = block[g]
      /\ block'[h] = IF block[h] = "lost" \/ (block[h] = "big" /\ ~withCaps)
                     THEN "lost" ELSE "free"
      /\ mismatched' = IF block[h] = (IF withCaps THEN "small" ELSE "big")
                       THEN mismatched \cup {h} ELSE mismatched
  BY <1>1, <1>2 DEF Delete
<1>5. withCaps => block[h] \in {"big", "lost"} /\ \A k \in Entry : registry[k] # h
  BY <1>1
<1>6. ~withCaps => block[h] \in {"small", "big"} /\ (block[h] = "big" => h \in strayed)
  BY <1>1
<1>7. CallHas'
  <2> SUFFICES ASSUME NEW u \in Creators, u # t PROVE CallHasOf(u)'
    BY <1>3
  <2>1. taskCall'[u] = taskCall[u] /\ (Busy(u) => taskCall[u].handle \in Handles \ {h})
    BY <1>1, <1>3
  <2>2. Busy(u) => block'[taskCall[u].handle] = block[taskCall[u].handle]
    BY <1>4, <2>1
  <2> QED BY <1>2, <2>1, <2>2
<1>8. HandsDistinct' /\ EntriesDistinct'
  BY <1>2, <1>3, <1>4
<1>9. MismatchedAreLost'
  BY <1>2, <1>4, <1>5, <1>6
<1>10. mismatched' \subseteq strayed'
  BY <1>2, <1>4, <1>5, <1>6
<1>11. \A k \in Entry : registry[k] = h => block[h] = "big" /\ ~withCaps /\ h \in strayed
  BY <1>2, <1>5, <1>6
<1>12. \A k \in Entry : registry'[k] # NoHandle =>
         block'[registry'[k]] \in
           IF registry'[k] \in strayed' THEN {"big", "lost"} ELSE {"big"}
  BY <1>2, <1>4, <1>11
<1>13. \A g \in given' : block'[g] = "big" /\ g \notin strayed' =>
         \E k \in Entry : registry'[k] = g
  BY <1>2, <1>4
<1> QED BY <1>7, <1>8, <1>9, <1>10, <1>12, <1>13

\* A task that ends itself has strayed when its stack is a large one, and is in no
\* call that looks at it any more.
LEMMA TasksFitItself ==
  ASSUME TasksInv, TasksTypeOK', CallNames', NEW h \in Handles, DeletesItself(h)
  PROVE  TasksFit'
<1> USE TasksAssumption
    DEF TasksInv, TasksFit, TasksTypeOK, CallNames, CallHas, CallHasOf, HandsDistinct,
        EntriesDistinct, MismatchedAreLost, DeletedAsMade, Busy, In
<1>1. /\ block[h] \in {"small", "big"} /\ Running(h)
      /\ UNCHANGED <<registry, taskCall, mismatched>> /\ given' = given \ {h}
      /\ strayed' = IF block[h] = "big" THEN strayed \cup {h} ELSE strayed
      /\ \A g \in Handles : g # h => block'[g] = block[g]
      /\ block'[h] = IF block[h] = "big" THEN "lost" ELSE "free"
  BY DEF DeletesItself
<1>2. \A u \in Creators : Busy(u) /\ taskCall[u].handle = h => In(u, "remember") \/ In(u, "enter")
  BY <1>1 DEF Running
<1>3. \A u \in Creators : Busy(u) /\ taskCall[u].handle = h => block[h] = "big"
  BY <1>1, <1>2
<1>4. CallHas'
  BY <1>1, <1>2, <1>3
<1>5. HandsDistinct' /\ EntriesDistinct' /\ MismatchedAreLost'
  BY <1>1
<1>6. DeletedAsMade'
  BY <1>1
<1> QED BY <1>4, <1>5, <1>6

\* Every step keeps what the calls, the app and the registry have.
LEMMA TasksFitKept ==
  ASSUME TasksInv, [TasksNext]_tasksVars, TasksTypeOK', CallNames'
  PROVE  TasksFit'
<1>1. ASSUME NEW t \in Creators, CreatorGoes(t) PROVE TasksFit'
  BY <1>1, TasksAssumption
     DEF CreatorGoes, TaskCallEnds, NoTaskCall, TasksInv, TasksFit, TasksTypeOK, CallNames,
         CallHas, CallHasOf, HandsDistinct, EntriesDistinct, MismatchedAreLost,
         DeletedAsMade, Busy, In
<1>2. CASE UNCHANGED tasksVars
  BY <1>2 DEF tasksVars, TasksInv, TasksFit, CallHas, CallHasOf, HandsDistinct, EntriesDistinct,
     MismatchedAreLost, DeletedAsMade, Busy, In
<1> QED
  BY <1>1, <1>2, TasksFitCreate, TasksFitLook, TasksFitWrite, TasksFitDelete, TasksFitItself
  DEF TasksNext, TaskStep

\* Every variable of the task registry keeps its range (papp_loader.cpp, task_create
\* and task_delete), for any number of tasks, entries and addresses.
THEOREM TasksTypeCorrect == TasksSpec => []TasksTypeOK
<1>1. TasksInv /\ [TasksNext]_tasksVars => TasksInv'
  BY TasksTypeKept, TasksFitKept DEF TasksInv
<1>2. TasksInv => TasksTypeOK
  BY DEF TasksInv
<1> QED
  BY TasksInitially, <1>1, <1>2, PTL DEF TasksSpec

\* No ordinary task is ever deleted WithCaps, and a task with a stack in PSRAM is found in
\* the registry and deleted WithCaps, unless its own entry was overwritten or cleared by a
\* call that ran beside or it has ended itself (papp_loader.cpp, task_create and
\* task_delete), for any number of creating tasks, entries and addresses.
THEOREM TasksDeletedAsMade == TasksSpec => []DeletedAsMade
<1>1. TasksInv /\ [TasksNext]_tasksVars => TasksInv'
  BY TasksTypeKept, TasksFitKept DEF TasksInv
<1>2. TasksInv => DeletedAsMade
  BY DEF TasksInv, TasksFit
<1> QED
  BY TasksInitially, <1>1, <1>2, PTL DEF TasksSpec
-----------------------------------------------------------------------------
(***************************************************************************)
(* Sockets                                                                 *)
(***************************************************************************)


SocketStepName == {"idle", "opening", "accepting", "accepted", "holding", "writing",
                   "looking", "closing", "clearing"}
Place == [step : SocketStepName, fd : Descriptors \cup {-1}, slot : 0 .. SocketMax]

\* A slot that is about to be written or cleared is one of the table, and what is
\* written or closed is a descriptor.
SlotFits(t) ==
  /\ At(t, "writing") \/ At(t, "closing") \/ At(t, "clearing") =>
       socketCall[t].slot \in SocketSlots
  /\ socketCall[t].step \in {"accepted", "holding", "writing", "closing", "clearing"} =>
       socketCall[t].fd \in Descriptors

Ranges == SocketsTypeOK /\ \A t \in Callers \cup {LoopTask} : SlotFits(t)
-----------------------------------------------------------------------------
USE SocketsAssumption

LEMMA PlaceType ==
  ASSUME NEW step \in SocketStepName, NEW fd \in Descriptors \cup {-1}, NEW s \in 0 .. SocketMax
  PROVE  [step |-> step, fd |-> fd, slot |-> s] \in Place
  BY DEF Place

\* What a step of a call leaves behind.
LEMMA GoesTo ==
  ASSUME SocketsTypeOK, NEW t \in Callers \cup {LoopTask},
         NEW step \in SocketStepName, NEW fd \in Descriptors \cup {-1}, NEW s \in 0 .. SocketMax,
         Goes(t, step, fd, s)
  PROVE  /\ socketCall' \in [Callers \cup {LoopTask} -> Place]
         /\ socketCall'[t] = [step |-> step, fd |-> fd, slot |-> s]
         /\ \A u \in Callers \cup {LoopTask} : u # t => socketCall'[u] = socketCall[u]
  BY PlaceType DEF Goes, SocketsTypeOK, Place, SocketStepName

LEMMA ReturnsTo ==
  ASSUME SocketsTypeOK, NEW t \in Callers \cup {LoopTask}, Returns(t)
  PROVE  /\ socketCall' \in [Callers \cup {LoopTask} -> Place]
         /\ socketCall'[t] = [step |-> "idle", fd |-> -1, slot |-> 0]
         /\ \A u \in Callers \cup {LoopTask} : u # t => socketCall'[u] = socketCall[u]
<1>1. NoSocketCall \in Place
  BY PlaceType DEF NoSocketCall, SocketStepName
<1>. QED BY <1>1 DEF Returns, SocketsTypeOK, Place, SocketStepName, NoSocketCall

\* The variables besides the calls.
Others ==
  /\ socketApp \in {"none", "running", "ending"}
  /\ table \in [SocketSlots -> Descriptors \cup {-1}]
  /\ opener \in [Descriptors -> {"nobody", "app", "system"}]
  /\ struck \in BOOLEAN

LEMMA RangesParts ==
  Ranges <=> /\ Others /\ socketCall \in [Callers \cup {LoopTask} -> Place]
             /\ \A t \in Callers \cup {LoopTask} : SlotFits(t)
  BY DEF Ranges, SocketsTypeOK, Others, Place, SocketStepName

LEMMA RangesAfter ==
  ASSUME Others', socketCall' \in [Callers \cup {LoopTask} -> Place],
         \A t \in Callers \cup {LoopTask} : SlotFits(t)'
  PROVE  Ranges'
  BY DEF Ranges, SocketsTypeOK, Others, Place, SocketStepName

\* The ranges after a step of one caller.
LEMMA GoesKeeps ==
  ASSUME Ranges, NEW t \in Callers \cup {LoopTask},
         NEW step \in SocketStepName, NEW fd \in Descriptors \cup {-1}, NEW s \in 0 .. SocketMax,
         Goes(t, step, fd, s), Others',
         step \in {"writing", "closing", "clearing"} => s \in SocketSlots,
         step \in {"accepted", "holding", "writing", "closing", "clearing"} => fd \in Descriptors
  PROVE  Ranges'
<1>1. /\ socketCall' \in [Callers \cup {LoopTask} -> Place]
      /\ socketCall'[t] = [step |-> step, fd |-> fd, slot |-> s]
      /\ \A u \in Callers \cup {LoopTask} : u # t => socketCall'[u] = socketCall[u]
  BY GoesTo DEF Ranges
<1>2. SlotFits(t)'
  BY <1>1 DEF SlotFits, At
<1>3. ASSUME NEW u \in Callers \cup {LoopTask}, u # t PROVE SlotFits(u)'
  BY <1>1, <1>3 DEF Ranges, SlotFits, At
<1>. QED BY <1>1, <1>2, <1>3, RangesAfter

LEMMA ReturnsKeeps ==
  ASSUME Ranges, NEW t \in Callers \cup {LoopTask}, Returns(t), Others'
  PROVE  Ranges'
<1>1. /\ socketCall' \in [Callers \cup {LoopTask} -> Place]
      /\ socketCall'[t] = [step |-> "idle", fd |-> -1, slot |-> 0]
      /\ \A u \in Callers \cup {LoopTask} : u # t => socketCall'[u] = socketCall[u]
  BY ReturnsTo DEF Ranges
<1>2. SlotFits(t)'
  BY <1>1 DEF SlotFits, At
<1>3. ASSUME NEW u \in Callers \cup {LoopTask}, u # t PROVE SlotFits(u)'
  BY <1>1, <1>3 DEF Ranges, SlotFits, At
<1>. QED BY <1>1, <1>2, <1>3, RangesAfter

\* What a step leaves alone keeps its range, and descriptors change hands within it.
LEMMA OthersKept ==
  ASSUME Others, UNCHANGED <<socketApp, table, struck>>,
         \/ UNCHANGED opener
         \/ \E fd \in Descriptors, o \in {"nobody", "app", "system"} :
              opener' = [opener EXCEPT ![fd] = o]
  PROVE  Others'
  BY DEF Others

LEMMA InitRanges == SocketsInit => Ranges
<1> SUFFICES ASSUME SocketsInit PROVE Ranges
  OBVIOUS
<1>1. NoSocketCall \in Place
  BY PlaceType DEF NoSocketCall, SocketStepName
<1>2. socketCall \in [Callers \cup {LoopTask} -> Place]
  BY <1>1 DEF SocketsInit
<1>3. \A t \in Callers \cup {LoopTask} : SlotFits(t)
  BY DEF SocketsInit, SlotFits, At, NoSocketCall
<1>4. struck \in BOOLEAN
  BY Zenon DEF SocketsInit
<1>5. opener \in [Descriptors -> {"nobody", "app", "system"}]
  BY DEF SocketsInit
<1>6. table \in [SocketSlots -> Descriptors \cup {-1}] /\ socketApp \in {"none", "running", "ending"}
  BY DEF SocketsInit
<1>. QED BY <1>2, <1>3, <1>4, <1>5, <1>6, RangesParts DEF Others

LEMMA SocketStepRanges ==
  ASSUME Ranges, NEW t \in Callers, SocketStep(t) PROVE Ranges'
<1>0. /\ Others /\ SlotFits(t) /\ t \in Callers \cup {LoopTask} /\ 0 \in 0 .. SocketMax
      /\ -1 \in Descriptors \cup {-1} /\ Descriptors \subseteq Descriptors \cup {-1}
      /\ {"opening", "accepting", "accepted", "holding", "writing", "looking"} \subseteq SocketStepName
  BY RangesParts DEF SocketStepName
<1>. USE <1>0
<1>1. CASE Open(t)
  <2>1. Goes(t, "opening", -1, 0) /\ Others'
    BY <1>1, OthersKept DEF Open
  <2>. QED BY <2>1, GoesKeeps
<1>2. CASE SocketOpens(t)
  <2>1. Others'
    BY <1>2, OthersKept DEF SocketOpens
  <2>2. CASE Returns(t)
    BY <2>1, <2>2, ReturnsKeeps
  <2>3. ASSUME NEW fd \in Descriptors, Goes(t, "holding", fd, 0) PROVE Ranges'
    BY <2>1, <2>3, GoesKeeps
  <2>. QED BY <1>2, <2>2, <2>3, Zenon DEF SocketOpens
<1>3. ASSUME NEW h \in Descriptors, Accept(t, h) PROVE Ranges'
  <2>1. Goes(t, "accepting", h, 0) /\ Others'
    BY <1>3, OthersKept DEF Accept
  <2>. QED BY <2>1, GoesKeeps
<1>4. CASE AcceptTakes(t)
  <2>1. Others'
    BY <1>4, OthersKept DEF AcceptTakes
  <2>2. CASE Returns(t)
    BY <2>1, <2>2, ReturnsKeeps
  <2>3. ASSUME NEW fd \in Descriptors, Goes(t, "accepted", fd, 0) PROVE Ranges'
    BY <2>1, <2>3, GoesKeeps
  <2>. QED BY <1>4, <2>2, <2>3, Zenon DEF AcceptTakes
<1>5. CASE AcceptKeeps(t)
  <2>1. socketCall[t].fd \in Descriptors
    BY <1>5 DEF AcceptKeeps, SlotFits, At
  <2>2. Others'
    BY <1>5, <2>1, OthersKept DEF AcceptKeeps
  <2>3. CASE Returns(t)
    BY <2>2, <2>3, ReturnsKeeps
  <2>4. CASE Goes(t, "holding", socketCall[t].fd, 0)
    BY <2>1, <2>2, <2>4, GoesKeeps
  <2>. QED BY <1>5, <2>3, <2>4, Zenon DEF AcceptKeeps
<1>6. CASE Remember(t)
  <2>1. socketCall[t].fd \in Descriptors
    BY <1>6 DEF Remember, SlotFits, At
  <2>2. Others'
    BY <1>6, OthersKept DEF Remember
  <2>3. CASE Returns(t)
    BY <2>2, <2>3, ReturnsKeeps
  <2>4. ASSUME NEW s \in SocketSlots, Goes(t, "writing", socketCall[t].fd, s) PROVE Ranges'
    <3>1. s \in 0 .. SocketMax
      BY DEF SocketSlots
    <3>. QED BY <2>1, <2>2, <2>4, <3>1, GoesKeeps
  <2>. QED BY <1>6, <2>3, <2>4, Zenon DEF Remember
<1>7. CASE RememberWrites(t)
  <2>1. Others'
    BY <1>7 DEF RememberWrites, SlotFits, At, Others
  <2>. QED BY <1>7, <2>1, ReturnsKeeps DEF RememberWrites
<1>8. ASSUME NEW h \in Descriptors, CloseSocket(t, h) PROVE Ranges'
  <2>1. Goes(t, "looking", h, 0) /\ Others'
    BY <1>8, OthersKept DEF CloseSocket
  <2>. QED BY <2>1, GoesKeeps
<1>. QED BY <1>1, <1>2, <1>3, <1>4, <1>5, <1>6, <1>7, <1>8, Zenon DEF SocketStep

LEMMA CloseStepRanges ==
  ASSUME Ranges, NEW t \in Callers \cup {LoopTask}, CloseStep(t) PROVE Ranges'
<1>0. /\ Others /\ SlotFits(t)
      /\ socketCall[t].fd \in Descriptors \cup {-1} /\ socketCall[t].slot \in 0 .. SocketMax
      /\ {"looking", "closing", "clearing"} \subseteq SocketStepName
  BY RangesParts DEF Place, SocketStepName
<1>. USE <1>0
<1>1. CASE Looks(t)
  <2>1. Others'
    BY <1>1 DEF Looks, Others
  <2>2. CASE Returns(t)
    BY <2>1, <2>2, ReturnsKeeps
  <2>3. CASE /\ socketCall[t].slot < SocketMax /\ Meant(t, table[socketCall[t].slot])
             /\ Goes(t, "closing", table[socketCall[t].slot], socketCall[t].slot)
    <3>1. socketCall[t].slot \in SocketSlots
      BY <2>3 DEF SocketSlots
    <3>2. table[socketCall[t].slot] \in Descriptors
      BY <2>3, <3>1 DEF Meant, Others
    <3>. QED BY <2>1, <2>3, <3>1, <3>2, GoesKeeps
  <2>4. CASE socketCall[t].slot # SocketMax /\ Goes(t, "looking", socketCall[t].fd, socketCall[t].slot + 1)
    <3>1. socketCall[t].slot + 1 \in 0 .. SocketMax
      BY <2>4
    <3>. QED BY <2>1, <2>4, <3>1, GoesKeeps
  <2>. QED BY <1>1, <2>2, <2>3, <2>4 DEF Looks
<1>2. CASE Closes(t)
  <2>1. struck' \in BOOLEAN
    BY <1>2, Zenon DEF Closes
  <2>2. Others'
    BY <1>2, <2>1 DEF Closes, Others
  <2>3. /\ Goes(t, "clearing", socketCall[t].fd, socketCall[t].slot)
        /\ socketCall[t].slot \in SocketSlots /\ socketCall[t].fd \in Descriptors
    BY <1>2 DEF Closes, SlotFits, At
  <2>. QED BY <2>2, <2>3, GoesKeeps
<1>3. CASE Clears(t)
  <2>1. Others'
    BY <1>3 DEF Clears, Others
  <2>2. /\ Goes(t, "looking", socketCall[t].fd, socketCall[t].slot + 1)
        /\ socketCall[t].slot + 1 \in 0 .. SocketMax
    BY <1>3 DEF Clears, SlotFits, SocketSlots
  <2>. QED BY <2>1, <2>2, GoesKeeps
<1>. QED BY <1>1, <1>2, <1>3 DEF CloseStep

LEMMA NextRanges == ASSUME Ranges, [SocketsNext]_socketsVars PROVE Ranges'
<1>0. Others
  BY RangesParts
<1>1. ASSUME socketCall' = socketCall, Others' PROVE Ranges'
  <2>1. \A t \in Callers \cup {LoopTask} : SlotFits(t)'
    BY <1>1 DEF Ranges, SlotFits, At
  <2>. QED BY <1>1, <2>1, RangesParts, RangesAfter
<1>2. CASE AppReturns
  <2>1. Goes(LoopTask, "looking", -1, 0) /\ Others'
    BY <1>0, <1>2 DEF AppReturns, Others
  <2>. QED BY <2>1, GoesKeeps DEF SocketStepName
<1>3. CASE SocketAppStarts
  BY <1>0, <1>1, <1>3 DEF SocketAppStarts, Others
<1>4. ASSUME NEW fd \in Descriptors, SystemOpens(fd) \/ SystemCloses(fd) PROVE Ranges'
  BY <1>0, <1>1, <1>4, OthersKept DEF SystemOpens, SystemCloses
<1>5. CASE UNCHANGED socketsVars
  BY <1>0, <1>1, <1>5, OthersKept DEF socketsVars
<1>. QED BY <1>2, <1>3, <1>4, <1>5, SocketStepRanges, CloseStepRanges DEF SocketsNext

LEMMA RangesHold == SocketsSpec => []Ranges
<1>1. Ranges /\ [SocketsNext]_socketsVars => Ranges'
  BY NextRanges
<1>. QED BY InitRanges, <1>1, PTL DEF SocketsSpec

\* What the table, the descriptors and the calls hold is in range, whatever the
\* tasks of an app do at the same time.
THEOREM SocketsTypeCorrect == SocketsSpec => []SocketsTypeOK
<1>1. Ranges => SocketsTypeOK
  BY DEF Ranges
<1>. QED BY RangesHold, <1>1, PTL
-----------------------------------------------------------------------------
(***************************************************************************)
(* Calls one after the other: any number of tasks, of which one at a time  *)
(* is in a call, the loop's clean-up at the exit counted as one.           *)
(***************************************************************************)
Actors == Callers \cup {LoopTask}

\* No two calls overlap.
OneCall == \A t, u \in Actors : ~At(t, "idle") /\ ~At(u, "idle") => t = u

\* The loop closes sockets only when the app has returned, and its tasks call only
\* before that.
LoopPlaces ==
  /\ socketApp = "ending" <=> ~At(LoopTask, "idle")
  /\ socketApp # "running" => \A t \in Callers : At(t, "idle")
  /\ socketCall[LoopTask].step \in {"idle", "looking", "closing", "clearing"}

\* What the table holds is open for the app, but for the slot of a close that has
\* yet to clear it, and no two slots hold the same descriptor.
TableOwned ==
  \A s \in SocketSlots : table[s] >= 0 =>
    \/ opener[table[s]] = "app"
    \/ \E t \in Actors : At(t, "clearing") /\ socketCall[t].slot = s

TableDistinct ==
  \A r, s \in SocketSlots : table[r] >= 0 /\ table[r] = table[s] => r = s

\* What a call has found out still holds at its next step.
CallFits(t) ==
  /\ At(t, "opening") \/ At(t, "holding") => SlotFree
  /\ At(t, "accepted") \/ At(t, "holding") \/ At(t, "writing") =>
       opener[socketCall[t].fd] = "app" /\ ~IsAppSocket(socketCall[t].fd)
  /\ At(t, "writing") => table[socketCall[t].slot] < 0
  /\ At(t, "closing") \/ At(t, "clearing") => table[socketCall[t].slot] = socketCall[t].fd
  /\ At(t, "closing") => opener[socketCall[t].fd] = "app"
  /\ At(t, "clearing") => opener[socketCall[t].fd] # "app"

OrderlyInv ==
  /\ Ranges /\ LoopPlaces /\ TableOwned /\ TableDistinct
  /\ \A t \in Actors : CallFits(t)
  /\ NothingLeaks /\ OnlyOwnClosed

LEMMA InitOrderly == ASSUME SocketsInit PROVE OrderlyInv
<1>1. Ranges
  BY InitRanges
<1>2. (\A t \in Actors : At(t, "idle")) /\ socketApp = "none" /\ struck = FALSE
  BY DEF SocketsInit, At, NoSocketCall, Actors
<1>3. \A s \in SocketSlots : table[s] = -1
  BY DEF SocketsInit
<1>4. \A fd \in Descriptors : opener[fd] # "app"
  BY DEF SocketsInit
<1>5. LoopPlaces /\ \A t \in Actors : CallFits(t)
  BY <1>2 DEF LoopPlaces, CallFits, At, Actors
<1>6. TableOwned /\ TableDistinct
  BY <1>3 DEF TableOwned, TableDistinct
<1>7. NothingLeaks /\ OnlyOwnClosed
  BY <1>2, <1>4 DEF NothingLeaks, OnlyOwnClosed
<1>. QED BY <1>1, <1>5, <1>6, <1>7 DEF OrderlyInv

\* The ranges in the form the steps need.
LEMMA OrderlyRanges ==
  ASSUME OrderlyInv
  PROVE  /\ AppMain \in Callers /\ LoopTask \notin Callers
         /\ table \in [SocketSlots -> Descriptors \cup {-1}]
         /\ opener \in [Descriptors -> {"nobody", "app", "system"}]
         /\ socketCall \in [Actors -> Place]
         /\ \A t \in Actors : SlotFits(t)
         /\ \A fd \in Descriptors : fd \in Nat
  BY RangesParts, SocketsAssumption DEF OrderlyInv, Others, Actors

\* After a step that leaves table and descriptors alone.
LEMMA OrderlyWhenKept ==
  ASSUME OrderlyInv, Ranges', UNCHANGED <<table, opener, struck>>,
         LoopPlaces', \A t \in Actors : CallFits(t)',
         \A t \in Actors : At(t, "clearing") =>
           At(t, "clearing")' /\ socketCall'[t].slot = socketCall[t].slot,
         \A t \in Actors : socketCall[t].step \in {"accepted", "holding", "writing"} =>
           /\ socketCall'[t].step \in {"accepted", "holding", "writing"}
           /\ socketCall'[t].fd = socketCall[t].fd
  PROVE  OrderlyInv'
<1>1. TableOwned'
  BY DEF OrderlyInv, TableOwned
<1>2. TableDistinct'
  BY DEF OrderlyInv, TableDistinct
<1>3. NothingLeaks' /\ OnlyOwnClosed'
  BY DEF OrderlyInv, NothingLeaks, OnlyOwnClosed, IsAppSocket, Actors
<1>. QED BY <1>1, <1>2, <1>3 DEF OrderlyInv

\* A step of a task is one while the other tasks and the loop are in no call.
LEMMA OthersWait ==
  ASSUME OrderlyInv, OneCall, OneCall', NEW t \in Callers, SocketStep(t)
  PROVE  /\ socketApp = "running" /\ socketApp' = socketApp /\ struck' = struck
         /\ \A u \in Actors : u # t => At(u, "idle") /\ socketCall'[u] = socketCall[u]
<1>0. socketCall \in [Actors -> Place] /\ t \in Actors /\ t # LoopTask
  BY OrderlyRanges DEF Actors
<1>1. \A u \in Actors : u # t => socketCall'[u] = socketCall[u]
  BY <1>0 DEF SocketStep, Open, SocketOpens, Accept, AcceptTakes, AcceptKeeps,
     Remember, RememberWrites, CloseSocket, Goes, Returns
<1>2. socketApp = "running"
  <2>1. ~At(t, "idle") \/ MayCall(t)
    BY DEF SocketStep, Open, SocketOpens, Accept, AcceptTakes, AcceptKeeps,
       Remember, RememberWrites, CloseSocket, At
  <2>. QED BY <2>1 DEF OrderlyInv, LoopPlaces, MayCall
<1>3. ~At(t, "idle") \/ ~At(t, "idle")'
  BY <1>0 DEF SocketStep, Open, SocketOpens, Accept, AcceptTakes, AcceptKeeps,
     Remember, RememberWrites, CloseSocket, Goes, At
<1>4. \A u \in Actors : u # t => At(u, "idle")
  BY <1>0, <1>1, <1>3 DEF OneCall, At
<1>5. socketApp' = socketApp /\ struck' = struck
  BY DEF SocketStep, Open, SocketOpens, Accept, AcceptTakes, AcceptKeeps,
     Remember, RememberWrites, CloseSocket
<1>. QED BY <1>1, <1>2, <1>4, <1>5

LEMMA SocketStepOrderly ==
  ASSUME OrderlyInv, OneCall, OneCall', NEW t \in Callers, SocketStep(t), Ranges'
  PROVE  OrderlyInv'
<1>0. /\ t # LoopTask /\ t \in Actors /\ LoopTask \in Actors
      /\ table \in [SocketSlots -> Descriptors \cup {-1}]
      /\ opener \in [Descriptors -> {"nobody", "app", "system"}]
      /\ socketCall \in [Actors -> Place]
      /\ SlotFits(t)
      /\ \A fd \in Descriptors : fd \in Nat
  BY OrderlyRanges DEF Actors
<1>1. /\ socketApp = "running" /\ socketApp' = socketApp /\ struck' = struck
      /\ \A u \in Actors : u # t => At(u, "idle") /\ socketCall'[u] = socketCall[u]
  BY <1>0, OthersWait
<1>2. DOMAIN socketCall' = Actors
  BY <1>0 DEF SocketStep, Open, SocketOpens, Accept, AcceptTakes, AcceptKeeps,
     Remember, RememberWrites, CloseSocket, Goes, Returns
<1>3. /\ LoopPlaces'
      /\ CallFits(t)' => \A u \in Actors : CallFits(u)'
  BY <1>0, <1>1 DEF OrderlyInv, LoopPlaces, CallFits, At
<1>4. \A u \in Actors : ~At(u, "clearing") \/ u = t
  BY <1>1 DEF At
<1>. USE <1>0
<1>5. CASE Open(t)
  <2>1. socketCall'[t].step = "opening" /\ At(t, "idle")
    BY <1>5 DEF Open, Goes, MayCall
  <2>2. CallFits(t)'
    BY <1>5, <2>1 DEF Open, CallFits, At, SlotFree
  <2>. QED BY <1>1, <1>2, <1>3, <1>5, <2>1, <2>2, OrderlyWhenKept DEF Open, At, Actors
\* A descriptor of nobody is in no slot, but for one that is being cleared.
<1>6. ASSUME NEW fd \in Descriptors, opener[fd] = "nobody", ~At(t, "clearing")
      PROVE  ~IsAppSocket(fd)
  BY <1>4, <1>6 DEF OrderlyInv, TableOwned, IsAppSocket
<1>7. ASSUME NEW fd \in Descriptors, opener[fd] = "nobody",
             opener' = [opener EXCEPT ![fd] = "app"], UNCHANGED table,
             NEW step \in {"holding", "accepted"}, Goes(t, step, fd, 0),
             At(t, "opening") \/ At(t, "accepting"),
             step = "holding" => SlotFree
      PROVE  OrderlyInv'
  <2>1. socketCall'[t] = [step |-> step, fd |-> fd, slot |-> 0]
    BY <1>7 DEF Goes
  <2>2. ~IsAppSocket(fd)
    BY <1>6, <1>7 DEF At
  <2>3. \A g \in Descriptors : g # fd => opener'[g] = opener[g]
    BY <1>7
  <2>4. opener'[fd] = "app"
    BY <1>7
  <2>5. CallFits(t)'
    BY <1>7, <2>1, <2>2, <2>4 DEF CallFits, At, IsAppSocket, SlotFree
  <2>6. TableOwned'
    <3> SUFFICES ASSUME NEW s \in SocketSlots, table[s] >= 0 PROVE opener'[table[s]] = "app"
      BY <1>7 DEF TableOwned
    <3>1. table[s] \in Descriptors
      OBVIOUS
    <3>2. opener[table[s]] = "app"
      BY <1>4, <1>7 DEF OrderlyInv, TableOwned, At
    <3>. QED BY <2>3, <2>4, <3>1, <3>2
  <2>7. TableDistinct'
    BY <1>7 DEF OrderlyInv, TableDistinct
  <2>8. NothingLeaks'
    <3> SUFFICES ASSUME NEW g \in Descriptors, opener'[g] = "app", g # fd PROVE IsAppSocket(g)
      BY <1>7, <2>1 DEF NothingLeaks, IsAppSocket
    <3>. QED BY <1>1, <1>7, <2>3 DEF OrderlyInv, NothingLeaks, At, Actors
  <2>. QED BY <1>1, <1>2, <1>3, <2>5, <2>6, <2>7, <2>8 DEF OrderlyInv, OnlyOwnClosed
<1>8. ASSUME Returns(t), UNCHANGED <<table, opener>>,
             ~(socketCall[t].step \in {"accepted", "holding", "writing", "clearing"})
      PROVE  OrderlyInv'
  <2>1. socketCall'[t].step = "idle"
    BY <1>8 DEF Returns, NoSocketCall
  <2>2. CallFits(t)'
    BY <2>1 DEF CallFits, At
  <2>. QED BY <1>1, <1>2, <1>3, <1>8, <2>1, <2>2, OrderlyWhenKept DEF At, Actors
<1>9. CASE SocketOpens(t)
  <2>1. At(t, "opening") /\ UNCHANGED table
    BY <1>9 DEF SocketOpens
  <2>2. SlotFree
    BY <2>1 DEF OrderlyInv, CallFits
  <2>3. CASE Returns(t) /\ UNCHANGED opener
    BY <1>8, <2>1, <2>3 DEF At
  <2>. QED BY <1>7, <1>9, <2>1, <2>2, <2>3 DEF SocketOpens
<1>10. ASSUME NEW h \in Descriptors, Accept(t, h) PROVE OrderlyInv'
  <2>1. socketCall'[t].step = "accepting" /\ At(t, "idle")
    BY <1>10 DEF Accept, Goes, MayCall
  <2>2. CallFits(t)'
    BY <2>1 DEF CallFits, At
  <2>. QED BY <1>1, <1>2, <1>3, <1>10, <2>1, <2>2, OrderlyWhenKept DEF Accept, At, Actors
<1>11. CASE AcceptTakes(t)
  <2>1. At(t, "accepting") /\ UNCHANGED table
    BY <1>11 DEF AcceptTakes
  <2>3. CASE Returns(t) /\ UNCHANGED opener
    BY <1>8, <2>1, <2>3 DEF At
  <2>. QED BY <1>7, <1>11, <2>1, <2>3 DEF AcceptTakes
<1>12. CASE AcceptKeeps(t)
  <2>. DEFINE fd == socketCall[t].fd
  <2>1. /\ At(t, "accepted") /\ UNCHANGED table /\ fd \in Descriptors
        /\ opener[fd] = "app" /\ ~IsAppSocket(fd)
    BY <1>12 DEF AcceptKeeps, SlotFits, OrderlyInv, CallFits, At
  <2>2. CASE SlotFree /\ Goes(t, "holding", fd, 0) /\ UNCHANGED opener
    <3>1. socketCall'[t].step = "holding" /\ socketCall'[t].fd = fd
      BY <2>2 DEF Goes
    <3>2. CallFits(t)'
      BY <2>1, <2>2, <3>1 DEF CallFits, At, SlotFree, IsAppSocket
    <3>. QED BY <1>1, <1>2, <1>3, <2>1, <2>2, <3>1, <3>2, OrderlyWhenKept DEF At, Actors
  <2>3. CASE Returns(t) /\ opener' = [opener EXCEPT ![fd] = "nobody"]
    <3>1. socketCall'[t].step = "idle"
      BY <2>3 DEF Returns, NoSocketCall
    <3>2. CallFits(t)'
      BY <3>1 DEF CallFits, At
    <3>3. \A g \in Descriptors : g # fd => opener'[g] = opener[g]
      BY <2>3
    <3>4. TableOwned'
      <4> SUFFICES ASSUME NEW s \in SocketSlots, table[s] >= 0 PROVE opener'[table[s]] = "app"
        BY <2>1 DEF TableOwned
      <4>1. table[s] \in Descriptors /\ table[s] # fd
        BY <2>1 DEF IsAppSocket
      <4>2. opener[table[s]] = "app"
        BY <1>4, <2>1 DEF OrderlyInv, TableOwned, At
      <4>. QED BY <3>3, <4>1, <4>2
    <3>5. TableDistinct'
      BY <2>1 DEF OrderlyInv, TableDistinct
    <3>6. opener'[fd] = "nobody"
      BY <2>1, <2>3
    <3>7. NothingLeaks'
      <4> SUFFICES ASSUME NEW g \in Descriptors, opener'[g] = "app" PROVE IsAppSocket(g)
        BY <2>1 DEF NothingLeaks, IsAppSocket
      <4>1. g # fd /\ opener[g] = "app"
        BY <3>3, <3>6
      <4>. QED BY <1>1, <2>1, <4>1 DEF OrderlyInv, NothingLeaks, At, Actors
    <3>. QED BY <1>1, <1>2, <1>3, <3>2, <3>4, <3>5, <3>7 DEF OrderlyInv, OnlyOwnClosed
  <2>. QED BY <1>12, <2>2, <2>3 DEF AcceptKeeps
<1>13. CASE Remember(t)
  <2>. DEFINE fd == socketCall[t].fd
  <2>1. At(t, "holding") /\ SlotFree /\ UNCHANGED <<table, opener>>
    BY <1>13 DEF Remember, OrderlyInv, CallFits, At
  <2>2. PICK s \in SocketSlots : table[s] < 0 /\ Goes(t, "writing", fd, s)
    BY <1>13, <2>1 DEF Remember
  <2>3. socketCall'[t] = [step |-> "writing", fd |-> fd, slot |-> s]
    BY <2>2 DEF Goes
  <2>4. CallFits(t)'
    BY <2>1, <2>2, <2>3 DEF OrderlyInv, CallFits, At, IsAppSocket
  <2>. QED BY <1>1, <1>2, <1>3, <2>1, <2>3, <2>4, OrderlyWhenKept DEF At, Actors
<1>14. CASE RememberWrites(t)
  <2>. DEFINE fd == socketCall[t].fd
              slot == socketCall[t].slot
  <2>1. /\ At(t, "writing") /\ fd \in Descriptors /\ slot \in SocketSlots
        /\ opener[fd] = "app" /\ ~IsAppSocket(fd) /\ table[slot] < 0
    BY <1>14 DEF RememberWrites, SlotFits, OrderlyInv, CallFits, At
  <2>2. UNCHANGED opener /\ table' = [table EXCEPT ![slot] = fd] /\ Returns(t)
    BY <1>14 DEF RememberWrites
  <2>3. socketCall'[t].step = "idle"
    BY <2>2 DEF Returns, NoSocketCall
  <2>4. CallFits(t)'
    BY <2>3 DEF CallFits, At
  <2>5. table'[slot] = fd /\ \A r \in SocketSlots : r # slot => table'[r] = table[r]
    BY <2>1, <2>2
  <2>6. TableOwned'
    <3> SUFFICES ASSUME NEW s \in SocketSlots, table'[s] >= 0 PROVE opener[table'[s]] = "app"
      BY <2>2 DEF TableOwned
    <3>. QED BY <1>4, <2>1, <2>5 DEF OrderlyInv, TableOwned, At
  <2>7. TableDistinct'
    BY <2>1, <2>5 DEF OrderlyInv, TableDistinct, IsAppSocket
  <2>8. NothingLeaks'
    <3> SUFFICES ASSUME NEW g \in Descriptors, opener[g] = "app" PROVE IsAppSocket(g)'
      BY <2>2 DEF NothingLeaks
    <3>1. CASE g = fd
      BY <2>1, <2>5, <3>1 DEF IsAppSocket
    <3>2. CASE g # fd
      <4>0. \A u \in Callers :
              ~(socketCall[u].fd = g /\ socketCall[u].step \in {"accepted", "holding", "writing"})
        BY <1>1, <3>2 DEF At, Actors
      <4>1. PICK s \in SocketSlots : table[s] = g
        BY <4>0 DEF OrderlyInv, NothingLeaks, IsAppSocket
      <4>2. table[slot] < 0 /\ g >= 0
        BY <2>1
      <4>3. s # slot
        BY <4>1, <4>2
      <4>4. table'[s] = table[s]
        BY <2>5, <4>3
      <4>5. table'[s] = g
        BY <4>1, <4>4
      <4>. QED BY <4>5 DEF IsAppSocket
    <3>. QED BY <3>1, <3>2
  <2>. QED BY <1>1, <1>2, <1>3, <2>4, <2>6, <2>7, <2>8 DEF OrderlyInv, OnlyOwnClosed
<1>15. ASSUME NEW h \in Descriptors, CloseSocket(t, h) PROVE OrderlyInv'
  <2>1. socketCall'[t].step = "looking" /\ At(t, "idle")
    BY <1>15 DEF CloseSocket, Goes, MayCall
  <2>2. CallFits(t)'
    BY <2>1 DEF CallFits, At
  <2>. QED BY <1>1, <1>2, <1>3, <1>15, <2>1, <2>2, OrderlyWhenKept DEF CloseSocket, At, Actors
<1>. QED BY <1>5, <1>9, <1>10, <1>11, <1>12, <1>13, <1>14, <1>15 DEF SocketStep

LEMMA CloseStepOrderly ==
  ASSUME OrderlyInv, OneCall, NEW t \in Actors, CloseStep(t), Ranges'
  PROVE  OrderlyInv'
<1>. DEFINE fd == socketCall[t].fd
            s == socketCall[t].slot
<1>0. /\ LoopTask \in Actors /\ LoopTask \notin Callers
      /\ table \in [SocketSlots -> Descriptors \cup {-1}]
      /\ opener \in [Descriptors -> {"nobody", "app", "system"}]
      /\ socketCall \in [Actors -> Place]
      /\ SlotFits(t)
      /\ \A h \in Descriptors : h \in Nat
      /\ CallFits(t)
  BY OrderlyRanges DEF Actors, OrderlyInv
<1>1. socketCall[t].step \in {"looking", "closing", "clearing"}
  BY DEF CloseStep, Looks, Closes, Clears, At
<1>2. ASSUME NEW u \in Actors, u # t PROVE At(u, "idle") /\ socketCall'[u] = socketCall[u]
  BY <1>0, <1>1, <1>2
     DEF OneCall, CloseStep, Looks, Closes, Clears, At, Goes, Returns
<1>3. ASSUME NEW u \in Actors, u # t PROVE CallFits(u)'
  BY <1>2, <1>3 DEF CallFits, At
<1>4. ASSUME CallFits(t)' PROVE \A u \in Actors : CallFits(u)'
  BY <1>3, <1>4
<1>. USE <1>0
<1>5. ASSUME NEW step \in {"looking", "closing", "clearing"}, NEW h, NEW r,
             Goes(t, step, h, r), socketApp' = socketApp
      PROVE  LoopPlaces' /\ socketCall'[t] = [step |-> step, fd |-> h, slot |-> r]
  <2>1. socketCall'[t] = [step |-> step, fd |-> h, slot |-> r]
    BY <1>5 DEF Goes
  <2>2. CASE t = LoopTask
    BY <1>0, <1>1, <1>2, <1>5, <2>1, <2>2 DEF OrderlyInv, LoopPlaces, At, Actors
  <2>3. CASE t # LoopTask
    BY <1>0, <1>1, <1>2, <1>5, <2>1, <2>3 DEF OrderlyInv, LoopPlaces, At, Actors
  <2>. QED BY <2>1, <2>2, <2>3
<1>6. CASE Looks(t)
  <2>1. At(t, "looking") /\ UNCHANGED <<table, opener, struck>>
    BY <1>6 DEF Looks
  <2>2. CASE Returns(t) /\ s = SocketMax
    <3>1. socketCall'[t].step = "idle"
      BY <2>2 DEF Returns, NoSocketCall
    <3>2. LoopPlaces'
      <4>1. CASE t = LoopTask
        BY <1>2, <1>6, <2>2, <3>1, <4>1 DEF OrderlyInv, LoopPlaces, At, Looks, Actors
      <4>2. CASE t # LoopTask
        BY <1>2, <1>6, <2>2, <3>1, <4>2 DEF OrderlyInv, LoopPlaces, At, Looks, Actors
      <4>. QED BY <4>1, <4>2
    <3>3. CallFits(t)'
      BY <3>1 DEF CallFits, At
    <3>. QED BY <1>2, <1>4, <2>1, <3>1, <3>2, <3>3, OrderlyWhenKept DEF At
  <2>3. CASE s < SocketMax /\ Meant(t, table[s]) /\ Goes(t, "closing", table[s], s) /\ socketApp' = socketApp
    <3>1. s \in SocketSlots /\ table[s] \in Descriptors
      BY <2>3, SocketsAssumption DEF SocketSlots, Meant, Place
    <3>2. LoopPlaces' /\ socketCall'[t] = [step |-> "closing", fd |-> table[s], slot |-> s]
      BY <1>5, <2>3
    <3>3. opener[table[s]] = "app"
      BY <1>2, <2>1, <3>1 DEF OrderlyInv, TableOwned, At
    <3>4. CallFits(t)'
      BY <2>1, <3>2, <3>3 DEF CallFits, At
    <3>. QED BY <1>2, <1>4, <2>1, <3>2, <3>4, OrderlyWhenKept DEF At
  <2>4. CASE Goes(t, "looking", fd, s + 1) /\ socketApp' = socketApp
    <3>1. LoopPlaces' /\ socketCall'[t] = [step |-> "looking", fd |-> fd, slot |-> s + 1]
      BY <1>5, <2>4
    <3>2. CallFits(t)'
      BY <3>1 DEF CallFits, At
    <3>. QED BY <1>2, <1>4, <2>1, <3>1, <3>2, OrderlyWhenKept DEF At
  <2>5. socketCall[t].slot \in 0 .. SocketMax /\ SocketMax \in Nat
    BY SocketsAssumption DEF Place
  <2>. QED BY <1>6, <2>2, <2>3, <2>4, <2>5 DEF Looks
<1>7. CASE Closes(t)
  <2>1. /\ At(t, "closing") /\ fd \in Descriptors /\ s \in SocketSlots
        /\ table[s] = fd /\ opener[fd] = "app"
    BY <1>7 DEF Closes, SlotFits, CallFits, At
  <2>2. /\ opener' = [opener EXCEPT ![fd] = "nobody"] /\ Goes(t, "clearing", fd, s)
        /\ socketApp' = socketApp /\ table' = table /\ (struck' <=> struck \/ opener[fd] = "system")
    BY <1>7, Zenon DEF Closes
  <2>3. LoopPlaces' /\ socketCall'[t] = [step |-> "clearing", fd |-> fd, slot |-> s]
    BY <1>5, <2>2
  <2>4. opener'[fd] = "nobody" /\ \A h \in Descriptors : h # fd => opener'[h] = opener[h]
    BY <2>1, <2>2
  <2>5. CallFits(t)'
    BY <2>1, <2>2, <2>3, <2>4 DEF CallFits, At
  <2>6. TableOwned'
    <3> SUFFICES ASSUME NEW r \in SocketSlots, table[r] >= 0, r # s
                 PROVE  opener'[table[r]] = "app"
      BY <2>2, <2>3 DEF TableOwned, At
    <3>1. table[r] \in Descriptors /\ table[r] # fd
      BY <2>1 DEF OrderlyInv, TableDistinct
    <3>2. opener[table[r]] = "app"
      BY <1>2, <2>1 DEF OrderlyInv, TableOwned, At
    <3>. QED BY <2>4, <3>1, <3>2
  <2>7. TableDistinct'
    BY <2>2 DEF OrderlyInv, TableDistinct
  <2>8. NothingLeaks'
    <3> SUFFICES ASSUME NEW h \in Descriptors, opener'[h] = "app" PROVE IsAppSocket(h)
      BY <2>2 DEF NothingLeaks, IsAppSocket
    <3>1. opener[h] = "app"
      BY <2>4
    <3>2. \A u \in Callers : ~(socketCall[u].step \in {"accepted", "holding", "writing"})
      BY <1>2, <2>1 DEF Actors, At
    <3>. QED BY <3>1, <3>2 DEF OrderlyInv, NothingLeaks
  <2>9. OnlyOwnClosed'
    BY <2>1, <2>2 DEF OrderlyInv, OnlyOwnClosed
  <2>. QED BY <1>4, <2>3, <2>5, <2>6, <2>7, <2>8, <2>9 DEF OrderlyInv
<1>8. CASE Clears(t)
  <2>1. /\ At(t, "clearing") /\ s \in SocketSlots /\ table[s] = fd /\ opener[fd] # "app"
    BY <1>8 DEF Clears, SlotFits, CallFits, At
  <2>2. /\ table' = [table EXCEPT ![s] = -1] /\ Goes(t, "looking", fd, s + 1)
        /\ socketApp' = socketApp /\ UNCHANGED <<opener, struck>>
    BY <1>8 DEF Clears
  <2>3. LoopPlaces' /\ socketCall'[t] = [step |-> "looking", fd |-> fd, slot |-> s + 1]
    BY <1>5, <2>2
  <2>4. CallFits(t)'
    BY <2>3 DEF CallFits, At
  <2>5. table'[s] = -1 /\ \A r \in SocketSlots : r # s => table'[r] = table[r]
    BY <2>1, <2>2
  <2>6. TableOwned'
    <3> SUFFICES ASSUME NEW r \in SocketSlots, table[r] >= 0, r # s PROVE opener[table[r]] = "app"
      BY <2>2, <2>5 DEF TableOwned
    <3>. QED BY <1>2, <2>1 DEF OrderlyInv, TableOwned, At
  <2>7. TableDistinct'
    BY <2>5 DEF OrderlyInv, TableDistinct
  <2>8. NothingLeaks'
    <3> SUFFICES ASSUME NEW h \in Descriptors, opener[h] = "app" PROVE IsAppSocket(h)'
      BY <2>2 DEF NothingLeaks
    <3>1. \A u \in Callers : ~(socketCall[u].step \in {"accepted", "holding", "writing"})
      BY <1>2, <2>1 DEF Actors, At
    <3>2. PICK r \in SocketSlots : table[r] = h
      BY <3>1 DEF OrderlyInv, NothingLeaks, IsAppSocket
    <3>3. table'[r] = h
      BY <2>1, <2>5, <3>2
    <3>. QED BY <3>3 DEF IsAppSocket
  <2>9. OnlyOwnClosed'
    BY <2>2 DEF OrderlyInv, OnlyOwnClosed
  <2>. QED BY <1>4, <2>3, <2>4, <2>6, <2>7, <2>8, <2>9 DEF OrderlyInv
<1>. QED BY <1>6, <1>7, <1>8 DEF CloseStep

\* The rest of the firmware takes only what nobody has, and gives up only its own.
LEMMA SystemStepOrderly ==
  ASSUME OrderlyInv, NEW fd \in Descriptors,
         SystemOpens(fd) \/ SystemCloses(fd), Ranges'
  PROVE  OrderlyInv'
<1>0. /\ table \in [SocketSlots -> Descriptors \cup {-1}]
      /\ \A t \in Actors : SlotFits(t)
      /\ \A h \in Descriptors : h \in Nat
      /\ UNCHANGED <<socketApp, table, socketCall, struck>>
  BY OrderlyRanges DEF SystemOpens, SystemCloses
<1>1. \A h \in Descriptors : opener'[h] = "app" <=> opener[h] = "app"
  BY OrderlyRanges DEF SystemOpens, SystemCloses
<1>2. ASSUME NEW t \in Actors, CallFits(t) PROVE CallFits(t)'
  <2>1. socketCall[t].step \in {"accepted", "holding", "writing", "closing", "clearing"} =>
          socketCall[t].fd \in Descriptors
    BY <1>0 DEF SlotFits
  <2>. QED BY <1>0, <1>1, <1>2, <2>1 DEF CallFits, At, SlotFree, IsAppSocket
<1>3. TableOwned'
  <2> SUFFICES ASSUME NEW s \in SocketSlots, table[s] >= 0, opener'[table[s]] # "app"
               PROVE  \E t \in Actors : At(t, "clearing") /\ socketCall[t].slot = s
    BY <1>0 DEF TableOwned, At
  <2>1. table[s] \in Descriptors
    BY <1>0
  <2>. QED BY <1>1, <2>1 DEF OrderlyInv, TableOwned
<1>4. TableDistinct' /\ LoopPlaces' /\ OnlyOwnClosed'
  BY <1>0 DEF OrderlyInv, TableDistinct, LoopPlaces, OnlyOwnClosed, At
<1>5. NothingLeaks'
  BY <1>0, <1>1 DEF OrderlyInv, NothingLeaks, IsAppSocket
<1>. QED BY <1>2, <1>3, <1>4, <1>5 DEF OrderlyInv, Actors

LEMMA NextOrderly ==
  ASSUME OrderlyInv, OneCall, OneCall', [SocketsNext]_socketsVars
  PROVE  OrderlyInv'
<1>0. Ranges' /\ LoopTask \in Actors /\ Callers \subseteq Actors /\ LoopTask \notin Callers
  BY NextRanges, OrderlyRanges DEF OrderlyInv, Actors
<1>1. ASSUME NEW t \in Callers, SocketStep(t) PROVE OrderlyInv'
  BY <1>0, <1>1, SocketStepOrderly
<1>2. ASSUME NEW t \in Actors, CloseStep(t) PROVE OrderlyInv'
  BY <1>0, <1>2, CloseStepOrderly
<1>3. CASE AppReturns
  <2>1. /\ At(LoopTask, "idle") /\ UNCHANGED <<table, opener, struck>>
        /\ socketApp' = "ending" /\ Goes(LoopTask, "looking", -1, 0)
    BY <1>3 DEF AppReturns, OrderlyInv, LoopPlaces
  <2>2. /\ socketCall'[LoopTask].step = "looking"
        /\ \A t \in Actors : t # LoopTask => socketCall'[t] = socketCall[t]
    BY <1>0, <2>1, OrderlyRanges DEF Goes
  <2>3. \A t \in Callers : At(t, "idle") /\ At(t, "idle")'
    BY <1>0, <2>2 DEF OneCall, At
  <2>4. LoopPlaces' /\ \A t \in Actors : CallFits(t)'
    BY <2>1, <2>2, <2>3 DEF LoopPlaces, CallFits, At, Actors
  <2>. QED BY <1>0, <2>1, <2>2, <2>3, <2>4, OrderlyWhenKept DEF At, Actors
<1>4. ASSUME UNCHANGED <<table, opener, socketCall, struck>>,
             UNCHANGED socketApp \/ SocketAppStarts
      PROVE  OrderlyInv'
  <2>1. LoopPlaces'
    BY <1>4 DEF OrderlyInv, LoopPlaces, At, SocketAppStarts
  <2>2. \A t \in Actors : CallFits(t)'
    BY <1>4 DEF OrderlyInv, CallFits, At, SlotFree, IsAppSocket
  <2>. QED BY <1>0, <1>4, <2>1, <2>2, OrderlyWhenKept DEF At
<1>5. ASSUME NEW fd \in Descriptors, SystemOpens(fd) \/ SystemCloses(fd) PROVE OrderlyInv'
  BY <1>0, <1>5, SystemStepOrderly
<1>. QED BY <1>0, <1>1, <1>2, <1>3, <1>4, <1>5 DEF SocketsNext, SocketAppStarts, socketsVars, Actors

LEMMA OrderlyHolds == SocketsSpec /\ []OneCall => []OrderlyInv
<1>1. SocketsInit => OrderlyInv
  BY InitOrderly
<1>2. OrderlyInv /\ OneCall /\ OneCall' /\ [SocketsNext]_socketsVars => OrderlyInv'
  BY NextOrderly
<1>. QED BY <1>1, <1>2, PTL DEF SocketsSpec

\* However many tasks of the app use sockets, as long as no two of their calls, nor a
\* call and the clean-up at the exit, overlap, "the loader remembers them so a
\* crashing or careless app cannot leak them past its exit" holds: whatever is open
\* for the app is in the table or about to be.
THEOREM NothingLeaksOneByOne == SocketsSpec /\ []OneCall => []NothingLeaks
<1>1. OrderlyInv => NothingLeaks
  BY DEF OrderlyInv
<1>. QED BY OrderlyHolds, <1>1, PTL

\* As long as no two calls overlap, svc_net_udp_close of any number and the clean-up
\* at the exit close only descriptors of the app, never one the firmware was given
\* meanwhile.
THEOREM ClosesOnlyItsOwnOneByOne == SocketsSpec /\ []OneCall => []OnlyOwnClosed
<1>1. OrderlyInv => OnlyOwnClosed
  BY DEF OrderlyInv
<1>. QED BY OrderlyHolds, <1>1, PTL

\* The calls of a single task never overlap: the clean-up begins when it is in none,
\* and it makes none before the next start.
LoopAlone ==
  /\ socketApp = "ending" \/ At(LoopTask, "idle")
  /\ socketApp = "running" \/ At(AppMain, "idle")

LEMMA OneTaskOneCall == Callers = {AppMain} /\ SocketsSpec => []OneCall
<1> SUFFICES ASSUME Callers = {AppMain} PROVE SocketsSpec => []OneCall
  OBVIOUS
<1>1. SocketsInit => LoopAlone
  BY DEF SocketsInit, LoopAlone, At, NoSocketCall
<1>2. Ranges /\ LoopAlone /\ [SocketsNext]_socketsVars => LoopAlone'
  <2> SUFFICES ASSUME Ranges, LoopAlone, [SocketsNext]_socketsVars PROVE LoopAlone'
    OBVIOUS
  <2>0. socketCall \in [{AppMain, LoopTask} -> Place] /\ AppMain # LoopTask
    BY RangesParts, SocketsAssumption
  <2>1. CASE SocketStep(AppMain)
    <3>1. /\ socketApp' = socketApp /\ socketCall'[LoopTask] = socketCall[LoopTask]
          /\ ~At(AppMain, "idle") \/ MayCall(AppMain)
      BY <2>0, <2>1 DEF SocketStep, Open, SocketOpens, Accept, AcceptTakes, AcceptKeeps,
         Remember, RememberWrites, CloseSocket, Goes, Returns, At
    <3>. QED BY <3>1 DEF LoopAlone, MayCall, At
  <2>2. ASSUME NEW t \in {AppMain, LoopTask}, CloseStep(t) PROVE LoopAlone'
    <3>1. \A u \in {AppMain, LoopTask} : u # t => socketCall'[u] = socketCall[u]
      BY <2>0, <2>2 DEF CloseStep, Looks, Closes, Clears, Goes, Returns
    <3>2. ~At(t, "idle")
      BY <2>2 DEF CloseStep, Looks, Closes, Clears, At
    <3>3. socketApp' = socketApp \/ (t = LoopTask /\ Returns(t) /\ socketApp' = "none")
      BY <2>2, <2>0 DEF CloseStep, Looks, Closes, Clears
    <3>. QED BY <2>0, <3>1, <3>2, <3>3 DEF LoopAlone, At, Returns, NoSocketCall
  <2>3. CASE AppReturns
    BY <2>0, <2>3 DEF AppReturns, LoopAlone, Goes, At
  <2>4. CASE SocketAppStarts \/ UNCHANGED socketsVars
             \/ \E fd \in Descriptors : SystemOpens(fd) \/ SystemCloses(fd)
    BY <2>4 DEF SocketAppStarts, SystemOpens, SystemCloses, socketsVars, LoopAlone, At
  <2>. QED BY <2>1, <2>2, <2>3, <2>4 DEF SocketsNext
<1>3. LoopAlone => OneCall
  BY DEF LoopAlone, OneCall, Actors
<1>. QED BY <1>1, <1>2, <1>3, RangesHold, PTL DEF SocketsSpec

\* With one task of the app that uses sockets, nothing leaks.
THEOREM NothingLeaksAlone == Callers = {AppMain} /\ SocketsSpec => []NothingLeaks
BY OneTaskOneCall, NothingLeaksOneByOne, PTL

\* With one such task, only descriptors of the app are closed.
THEOREM ClosesOnlyItsOwn == Callers = {AppMain} /\ SocketsSpec => []OnlyOwnClosed
BY OneTaskOneCall, ClosesOnlyItsOwnOneByOne, PTL
==============================================================================
