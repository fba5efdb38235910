------------------------------ MODULE AppSockets ------------------------------
(***************************************************************************)
(* UDP and TCP sockets of apps (papp_loader.cpp): a table of descriptors   *)
(* without a lock, filled by the calls of the app's tasks and emptied by   *)
(* the loop task once the app has returned.                                *)
(*                                                                         *)
(* A call is the sequence of its reads and writes of the table and of its  *)
(* system calls.  A descriptor number that is closed is given out again,   *)
(* to the app or to the rest of the firmware (web server, API, stream).    *)
(***************************************************************************)
EXTENDS Integers

CONSTANTS
  SocketMax,    \* APP_SOCKET_MAX
  Descriptors,  \* lwIP's descriptor numbers
  Callers,      \* the app's tasks that use sockets
  AppMain,      \* its main task
  LoopTask      \* the ESPHome loop, which runs close_app_sockets_

ASSUME SocketsAssumption ==
  /\ SocketMax \in Nat \ {0}
  /\ Descriptors \subseteq Nat
  /\ AppMain \in Callers /\ LoopTask \notin Callers

SocketSlots == 0 .. SocketMax - 1

VARIABLES
  socketApp,   \* "none", "running", or "ending" while the loop closes sockets
  table,       \* s_app_sockets
  opener,      \* who has each descriptor open: the app, the system or nobody
  socketCall,  \* where each caller, and the loop task, is in a call
  struck       \* history: the loader has closed a descriptor of the system

socketsVars == <<socketApp, table, opener, socketCall, struck>>

NoSocketCall == [step |-> "idle", fd |-> -1, slot |-> 0]

SocketsInit ==
  /\ socketApp = "none"
  /\ table = [s \in SocketSlots |-> -1]
  /\ opener \in [Descriptors -> {"nobody", "system"}]
  /\ socketCall = [t \in Callers \cup {LoopTask} |-> NoSocketCall]
  /\ struck = FALSE

Goes(t, step, fd, slot) ==
  socketCall' = [socketCall EXCEPT ![t] = [step |-> step, fd |-> fd, slot |-> slot]]
Returns(t) == socketCall' = [socketCall EXCEPT ![t] = NoSocketCall]

At(t, step) == socketCall[t].step = step
MayCall(t) == t \in Callers /\ socketApp = "running" /\ At(t, "idle")
-----------------------------------------------------------------------------
(***************************************************************************)
(* Opening: look for a free slot, open, remember                           *)
(***************************************************************************)

\* app_socket_slot_free
SlotFree == \E s \in SocketSlots : table[s] < 0

\* is_app_socket
IsAppSocket(h) == \E s \in SocketSlots : table[s] = h

\* Faulty variant: a socket is opened although there is no slot for it.
OpenAnyway(t) ==
  /\ MayCall(t)
  /\ Goes(t, "opening", -1, 0)
  /\ UNCHANGED <<socketApp, table, opener, struck>>

\* svc_net_udp_open, svc_net_tcp_connect and svc_net_tcp_listen up to socket().
Open(t) ==
  /\ MayCall(t) /\ SlotFree
  /\ Goes(t, "opening", -1, 0)
  /\ UNCHANGED <<socketApp, table, opener, struck>>

\* socket() and what is set up on it; when that fails the descriptor is closed
\* again at once.
SocketOpens(t) ==
  /\ At(t, "opening")
  /\ \/ Returns(t) /\ UNCHANGED opener
     \/ \E fd \in Descriptors :
          /\ opener[fd] = "nobody"
          /\ opener' = [opener EXCEPT ![fd] = "app"]
          /\ Goes(t, "holding", fd, 0)
  /\ UNCHANGED <<socketApp, table, struck>>

\* svc_net_tcp_accept: the listener is one of the app's ...
Accept(t, h) ==
  /\ MayCall(t) /\ IsAppSocket(h)
  /\ Goes(t, "accepting", h, 0)
  /\ UNCHANGED <<socketApp, table, opener, struck>>

\* ... a connection waits or not ...
AcceptTakes(t) ==
  /\ At(t, "accepting")
  /\ \/ Returns(t) /\ UNCHANGED opener
     \/ \E fd \in Descriptors :
          /\ opener[fd] = "nobody"
          /\ opener' = [opener EXCEPT ![fd] = "app"]
          /\ Goes(t, "accepted", fd, 0)
  /\ UNCHANGED <<socketApp, table, struck>>

\* ... and it is kept if there is a slot for it.
AcceptKeeps(t) ==
  /\ At(t, "accepted")
  /\ \/ SlotFree /\ Goes(t, "holding", socketCall[t].fd, 0) /\ UNCHANGED opener
     \/ Returns(t) /\ opener' = [opener EXCEPT ![socketCall[t].fd] = "nobody"]
  /\ UNCHANGED <<socketApp, table, struck>>

\* remember_app_socket: the first free slot is found, or none is, ...
Remember(t) ==
  /\ At(t, "holding")
  /\ \/ \E s \in SocketSlots :
          /\ table[s] < 0 /\ \A r \in SocketSlots : r < s => table[r] >= 0
          /\ Goes(t, "writing", socketCall[t].fd, s)
     \/ ~SlotFree /\ Returns(t)
  /\ UNCHANGED <<socketApp, table, opener, struck>>

\* ... and written, and the call returns the descriptor.
RememberWrites(t) ==
  /\ At(t, "writing")
  /\ table' = [table EXCEPT ![socketCall[t].slot] = socketCall[t].fd]
  /\ Returns(t)
  /\ UNCHANGED <<socketApp, opener, struck>>
-----------------------------------------------------------------------------
(***************************************************************************)
(* Closing: go through all slots                                           *)
(***************************************************************************)

\* svc_net_udp_close, of any number an app comes up with.
CloseSocket(t, h) ==
  /\ MayCall(t)
  /\ Goes(t, "looking", h, 0)
  /\ UNCHANGED <<socketApp, table, opener, struck>>

\* The app has returned: close_app_sockets_.
AppReturns ==
  /\ socketApp = "running" /\ At(AppMain, "idle")
  /\ socketApp' = "ending"
  /\ Goes(LoopTask, "looking", -1, 0)
  /\ UNCHANGED <<table, opener, struck>>

\* A close is for one descriptor, the loop's for every one.
Meant(t, fd) == fd >= 0 /\ (t = LoopTask \/ fd = socketCall[t].fd)

\* The test of a slot; after the last one the call returns.
Looks(t) ==
  LET s == socketCall[t].slot
  IN /\ At(t, "looking")
     /\ CASE s = SocketMax -> Returns(t)
          [] s < SocketMax /\ Meant(t, table[s]) -> Goes(t, "closing", table[s], s)
          [] OTHER -> Goes(t, "looking", socketCall[t].fd, s + 1)
     /\ socketApp' = IF t = LoopTask /\ s = SocketMax THEN "none" ELSE socketApp
     /\ UNCHANGED <<table, opener, struck>>

\* close(): of a descriptor that is not open it does nothing.
Closes(t) ==
  LET fd == socketCall[t].fd
  IN /\ At(t, "closing")
     /\ opener' = [opener EXCEPT ![fd] = "nobody"]
     /\ struck' = (struck \/ opener[fd] = "system")
     /\ Goes(t, "clearing", fd, socketCall[t].slot)
     /\ UNCHANGED <<socketApp, table>>

\* Faulty variant: the slot keeps the number of what was closed.
ClearsNothing(t) ==
  /\ At(t, "clearing")
  /\ Goes(t, "looking", socketCall[t].fd, socketCall[t].slot + 1)
  /\ UNCHANGED <<socketApp, table, opener, struck>>

\* The slot is free again, and the search goes on.
Clears(t) ==
  /\ At(t, "clearing")
  /\ table' = [table EXCEPT ![socketCall[t].slot] = -1]
  /\ Goes(t, "looking", socketCall[t].fd, socketCall[t].slot + 1)
  /\ UNCHANGED <<socketApp, opener, struck>>
-----------------------------------------------------------------------------
SocketAppStarts ==
  /\ socketApp = "none" /\ socketApp' = "running"
  /\ UNCHANGED <<table, opener, socketCall, struck>>

\* The rest of the firmware opens and closes descriptors of its own.
SystemOpens(fd) ==
  /\ opener[fd] = "nobody" /\ opener' = [opener EXCEPT ![fd] = "system"]
  /\ UNCHANGED <<socketApp, table, socketCall, struck>>

SystemCloses(fd) ==
  /\ opener[fd] = "system" /\ opener' = [opener EXCEPT ![fd] = "nobody"]
  /\ UNCHANGED <<socketApp, table, socketCall, struck>>

SocketStep(t) ==
  \/ Open(t) \/ SocketOpens(t)
  \/ (\E h \in Descriptors : Accept(t, h)) \/ AcceptTakes(t) \/ AcceptKeeps(t)
  \/ Remember(t) \/ RememberWrites(t)
  \/ \E h \in Descriptors : CloseSocket(t, h)

CloseStep(t) == Looks(t) \/ Closes(t) \/ Clears(t)

SocketsNext ==
  \/ \E t \in Callers : SocketStep(t)
  \/ \E t \in Callers \cup {LoopTask} : CloseStep(t)
  \/ \E fd \in Descriptors : SystemOpens(fd) \/ SystemCloses(fd)
  \/ SocketAppStarts \/ AppReturns

SocketsSpec == SocketsInit /\ [][SocketsNext]_socketsVars
-----------------------------------------------------------------------------
SocketsTypeOK ==
  /\ socketApp \in {"none", "running", "ending"}
  /\ table \in [SocketSlots -> Descriptors \cup {-1}]
  /\ opener \in [Descriptors -> {"nobody", "app", "system"}]
  /\ socketCall \in [Callers \cup {LoopTask} ->
       [step : {"idle", "opening", "accepting", "accepted", "holding", "writing",
                "looking", "closing", "clearing"},
        fd : Descriptors \cup {-1}, slot : 0 .. SocketMax]]
  /\ struck \in BOOLEAN

\* "The loader remembers them so a crashing or careless app cannot leak them
\* past its exit": every socket the app has open is in the table, where its exit
\* finds it, or in the hands of a call that will put it there.
NothingLeaks ==
  \A fd \in Descriptors : opener[fd] = "app" =>
    \/ IsAppSocket(fd)
    \/ \E t \in Callers : socketCall[t].fd = fd /\ socketCall[t].step \in {"accepted", "holding", "writing"}

\* Whatever numbers an app closes, the loader closes only sockets of the app,
\* never one that the rest of the firmware was given the same number for.
OnlyOwnClosed == ~struck
=============================================================================
