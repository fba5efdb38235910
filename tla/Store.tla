--------------------------------- MODULE Store ---------------------------------
(***************************************************************************)
(* The store: library sources, their listings and the installed badges     *)
(* (papp_loader.cpp loop() and refresh_catalog, papp_store.cpp).           *)
(*                                                                         *)
(* The loop task owns all of it.  A catalog task fetches the page of a     *)
(* source, an info task the listings of its apps, an install task writes   *)
(* an app; each leaves its result for the pass of loop() that finds it     *)
(* done.  A pass goes through the steps "info", "deferred", "install",     *)
(* "catalog" and "rebuild"; "callbacks" is the time between two passes,    *)
(* when buttons, touches, automations and the launcher run.                *)
(*                                                                         *)
(* A source stands for the entries it lists: entries = s says the list of  *)
(* s is shown, and None that the list is empty.                            *)
(***************************************************************************)
EXTENDS Integers

CONSTANTS
  Pages,        \* HTTP catalog sources
  Folders,      \* folder sources
  Apps,         \* apps that can be installed
  None,
  TasksFail,    \* BOOLEAN: a task may fail to be created
  MaxRequests   \* bound: how often a source is selected or refreshed

ASSUME StoreAssumption ==
  /\ Pages \cap Folders = {}
  /\ None \notin Pages \cup Folders
  /\ TasksFail \in BOOLEAN /\ MaxRequests \in Nat

VARIABLES
  at,               \* the step of loop()
  launched,         \* launched_
  online,           \* network::is_connected()
  url,              \* catalog_url_
  entries,          \* catalog_entries_
  generation,       \* catalog_generation_
  appInfo,          \* app_info_: whose listings, None when blank
  catalogTask,      \* catalog_loading_, catalog_fetch_url_, catalog_result_
  catalogDeferred,  \* catalog_deferred_
  infoTask,         \* info_loading_, info_urls_, info_generation_ and results
  infoDeferred,     \* info_deferred_
  installTask,      \* install_task_handle_ and its result
  card,             \* the apps with a listing in install_dir
  badges,           \* installed_
  uiPending,        \* catalog_ui_pending_
  shown,            \* what the tiles were last built from
  requests          \* history: selects and refreshes so far

request == <<url, requests>>
listing == <<entries, generation, appInfo>>
fetches == <<catalogTask, catalogDeferred, infoTask, infoDeferred>>
install == <<installTask, card, badges>>
ui      == <<uiPending, shown>>
vars    == <<at, launched, online, request, listing, fetches, install, ui>>

Sources == Pages \cup Folders
NoTask == [step |-> "none"]

Init ==
  /\ at = "callbacks"
  /\ launched = FALSE
  /\ online \in BOOLEAN
  /\ url \in Sources
  /\ entries = None /\ generation = 0 /\ appInfo = None
  /\ catalogTask = NoTask /\ catalogDeferred = FALSE
  /\ infoTask = NoTask /\ infoDeferred = FALSE
  /\ installTask = NoTask
  /\ card \in SUBSET Apps /\ badges = {}
  /\ uiPending = FALSE
  /\ shown = [entries |-> None, loading |-> FALSE, badges |-> {}]
  /\ requests = 0
-----------------------------------------------------------------------------
(***************************************************************************)
(* Starting fetches                                                        *)
(***************************************************************************)

\* start_info_fetch_ for the entries e: a new generation, listings blank; a
\* fetch that runs will notice, one is put off while an app is there.  bump is
\* 0 where the generation is first set back.
StartInfo(e, bump, busy, deferred) ==
  /\ generation' = generation + bump
  /\ appInfo' = None
  /\ IF busy \/ e = None
     THEN infoTask' = (IF busy THEN infoTask ELSE NoTask) /\ infoDeferred' = deferred
     ELSE IF launched
     THEN infoTask' = NoTask /\ infoDeferred' = TRUE
     ELSE /\ \/ infoTask' = [step |-> "running", urls |-> e, gen |-> generation']
             \/ TasksFail /\ infoTask' = NoTask
          /\ infoDeferred' = deferred

InfoBusy == infoTask.step # "none"

\* list_catalog_folder_: the files of the folder, at once.
ListFolder(f, bump, deferred) ==
  /\ entries' \in {f, None}
  /\ StartInfo(entries', bump, InfoBusy, deferred)
  /\ uiPending' = TRUE

\* refresh_catalog for a page: a running request will look again; offline or
\* under an app there is none.
FetchPage(p, busy, deferred) ==
  IF busy \/ ~online
  THEN catalogTask' = (IF busy THEN catalogTask ELSE NoTask) /\ catalogDeferred' = deferred
  ELSE IF launched
  THEN catalogTask' = NoTask /\ catalogDeferred' = TRUE
  ELSE /\ \/ catalogTask' = [step |-> "fetching", url |-> p]
          \/ TasksFail /\ catalogTask' = NoTask
       /\ catalogDeferred' = deferred

CatalogBusy == catalogTask.step # "none"
-----------------------------------------------------------------------------
(***************************************************************************)
(* Between two passes                                                      *)
(***************************************************************************)
Callbacks == at = "callbacks" /\ UNCHANGED at

\* select_catalog_index: the list is cleared and the source's own fetched.
Select(s) ==
  /\ Callbacks /\ requests < MaxRequests /\ requests' = requests + 1
  /\ url' = s
  /\ IF s \in Folders
     THEN ListFolder(s, 2, infoDeferred) /\ UNCHANGED <<catalogTask, catalogDeferred>>
     ELSE /\ entries' = None
          /\ StartInfo(None, 1, InfoBusy, infoDeferred)
          /\ uiPending' = TRUE
          /\ FetchPage(s, CatalogBusy, catalogDeferred)
  /\ UNCHANGED <<launched, online, install, shown>>

\* refresh_catalog, asked for by an automation or after a folder changed.
Refresh ==
  /\ Callbacks /\ requests < MaxRequests /\ requests' = requests + 1
  /\ IF url \in Folders
     THEN ListFolder(url, 1, infoDeferred) /\ UNCHANGED <<catalogTask, catalogDeferred>>
     ELSE FetchPage(url, CatalogBusy, catalogDeferred)
          /\ UNCHANGED <<listing, infoTask, infoDeferred, uiPending>>
  /\ UNCHANGED <<launched, online, url, install, shown>>

\* start_install_ and request_install_url.
Install(a) ==
  /\ Callbacks /\ ~launched /\ installTask = NoTask
  /\ installTask' = [step |-> "writing", app |-> a]
  /\ UNCHANGED <<launched, online, request, listing, fetches, card, badges, ui>>

\* uninstall_app: refused under an app or an install, not under a fetch.
Uninstall(a) ==
  /\ Callbacks /\ ~launched /\ installTask = NoTask
  /\ a \in card /\ requests < MaxRequests /\ requests' = requests + 1
  /\ card' = card \ {a}
  /\ badges' = badges \ {a}
  /\ uiPending' = TRUE
  /\ IF url \in Folders
     THEN ListFolder(url, 1, infoDeferred)
     ELSE UNCHANGED <<listing, infoTask, infoDeferred>>
  /\ UNCHANGED <<launched, online, url, catalogTask, catalogDeferred, installTask, shown>>

\* An app starts or ends (module Launcher); the network comes and goes.
AppStarts ==
  /\ Callbacks /\ ~launched /\ launched' = TRUE
  /\ UNCHANGED <<online, request, listing, fetches, install, ui>>

AppEnds ==
  /\ Callbacks /\ launched /\ launched' = FALSE
  /\ UNCHANGED <<online, request, listing, fetches, install, ui>>

NetworkChanges ==
  /\ online' = ~online
  /\ UNCHANGED <<at, launched, request, listing, fetches, install, ui>>
-----------------------------------------------------------------------------
(***************************************************************************)
(* loop()                                                                  *)
(***************************************************************************)
PassBegins ==
  /\ at = "callbacks" /\ at' = "info"
  /\ UNCHANGED <<launched, online, request, listing, fetches, install, ui>>

\* Faulty variants: an interrupted fetch is forgotten; the result is shown
\* whatever was selected meanwhile.
PollInfoForgets ==
  /\ at = "info" /\ at' = "deferred"
  /\ IF infoTask.step # "done"
     THEN UNCHANGED <<listing, infoTask, infoDeferred, badges, uiPending>>
     ELSE IF infoTask.interrupted
     THEN /\ infoTask' = NoTask
          /\ UNCHANGED <<listing, infoDeferred, badges, uiPending>>
     ELSE IF infoTask.gen # generation
     THEN /\ StartInfo(entries, 0, FALSE, infoDeferred)
          /\ UNCHANGED <<entries, badges, uiPending>>
     ELSE /\ appInfo' = infoTask.urls /\ badges' = infoTask.seen
          /\ infoTask' = NoTask /\ uiPending' = TRUE
          /\ UNCHANGED <<entries, generation, infoDeferred>>
  /\ UNCHANGED <<launched, online, request, catalogTask, catalogDeferred,
                 installTask, card, shown>>

PollInfoUnchecked ==
  /\ at = "info" /\ at' = "deferred"
  /\ IF infoTask.step # "done"
     THEN UNCHANGED <<listing, infoTask, infoDeferred, badges, uiPending>>
     ELSE IF infoTask.interrupted
     THEN /\ infoTask' = NoTask /\ infoDeferred' = TRUE
          /\ UNCHANGED <<listing, badges, uiPending>>
     ELSE /\ appInfo' = infoTask.urls /\ badges' = infoTask.seen
          /\ infoTask' = NoTask /\ uiPending' = TRUE
          /\ UNCHANGED <<entries, generation, infoDeferred>>
  /\ UNCHANGED <<launched, online, request, catalogTask, catalogDeferred,
                 installTask, card, shown>>

\* poll_info_fetch_.
PollInfo ==
  /\ at = "info" /\ at' = "deferred"
  /\ IF infoTask.step # "done"
     THEN UNCHANGED <<listing, infoTask, infoDeferred, badges, uiPending>>
     ELSE IF infoTask.interrupted
     THEN /\ infoTask' = NoTask /\ infoDeferred' = TRUE
          /\ UNCHANGED <<listing, badges, uiPending>>
     ELSE IF infoTask.gen # generation
     THEN /\ StartInfo(entries, 0, FALSE, infoDeferred)
          /\ UNCHANGED <<entries, badges, uiPending>>
     ELSE /\ appInfo' = infoTask.urls /\ badges' = infoTask.seen
          /\ infoTask' = NoTask /\ uiPending' = TRUE
          /\ UNCHANGED <<entries, generation, infoDeferred>>
  /\ UNCHANGED <<launched, online, request, catalogTask, catalogDeferred,
                 installTask, card, shown>>

\* Faulty variant: that listings were put off is not forgotten.
PollDeferredKeeps ==
  /\ at = "deferred" /\ at' = "install"
  /\ IF launched \/ ~infoDeferred
     THEN UNCHANGED <<listing, fetches, uiPending>>
     ELSE /\ StartInfo(entries, 0, InfoBusy, TRUE)
          /\ UNCHANGED <<entries, catalogTask, catalogDeferred, uiPending>>
  /\ UNCHANGED <<launched, online, request, install, shown>>

\* What was put off while an app was there.
PollDeferred ==
  /\ at = "deferred" /\ at' = "install"
  /\ IF launched \/ ~(catalogDeferred \/ infoDeferred)
     THEN UNCHANGED <<listing, fetches, uiPending>>
     ELSE IF ~catalogDeferred
     THEN /\ StartInfo(entries, 0, InfoBusy, FALSE)
          /\ UNCHANGED <<entries, catalogTask, catalogDeferred, uiPending>>
     ELSE IF url \in Folders
     THEN ListFolder(url, 1, FALSE) /\ catalogDeferred' = FALSE /\ UNCHANGED catalogTask
     ELSE /\ FetchPage(url, CatalogBusy, FALSE)
          /\ infoDeferred' = FALSE
          /\ UNCHANGED <<listing, infoTask, uiPending>>
  /\ UNCHANGED <<launched, online, request, install, shown>>

\* poll_install_.
PollInstall ==
  /\ at = "install" /\ at' = "catalog"
  /\ IF installTask.step = "done"
     THEN installTask' = NoTask /\ badges' = installTask.seen /\ uiPending' = TRUE
     ELSE UNCHANGED <<installTask, badges, uiPending>>
  /\ UNCHANGED <<launched, online, request, listing, fetches, card, shown>>

\* Faulty variant: the tiles are not built again.
NoPageUndrawn ==
  /\ catalogTask' = NoTask
  /\ UNCHANGED <<listing, catalogDeferred, infoTask, infoDeferred, uiPending>>

\* The request failed: the list stays as it is.
NoPage ==
  /\ catalogTask' = NoTask /\ uiPending' = TRUE
  /\ UNCHANGED <<listing, catalogDeferred, infoTask, infoDeferred>>

\* The catalog request has finished: for another source than the one selected
\* now, with a page, or without one.
PollCatalog ==
  /\ at = "catalog" /\ at' = "rebuild"
  /\ CASE catalogTask.step \notin {"ok", "failed"} ->
            UNCHANGED <<listing, fetches, uiPending>>
       [] CatalogBusy /\ catalogTask.url # url /\ url \in Folders ->
            ListFolder(url, 1, infoDeferred) /\ catalogTask' = NoTask /\ UNCHANGED catalogDeferred
       [] CatalogBusy /\ catalogTask.url # url /\ url \in Pages ->
            FetchPage(url, FALSE, catalogDeferred)
            /\ UNCHANGED <<listing, infoTask, infoDeferred, uiPending>>
       [] catalogTask.step = "ok" /\ catalogTask.url = url ->
            /\ catalogTask' = NoTask /\ UNCHANGED catalogDeferred
            /\ entries' \in {url, None}
            /\ StartInfo(entries', 1, InfoBusy, infoDeferred)
            /\ uiPending' = TRUE
       [] OTHER -> NoPage
  /\ UNCHANGED <<launched, online, request, install, shown>>

\* update_catalog_ui_, not under an app.
Rebuild ==
  /\ at = "rebuild" /\ at' = "callbacks"
  /\ IF uiPending /\ ~launched
     THEN /\ uiPending' = FALSE
          /\ shown' = [entries |-> entries, badges |-> badges,
                       loading |-> entries = None /\ CatalogBusy]
     ELSE UNCHANGED ui
  /\ UNCHANGED <<launched, online, request, listing, fetches, install>>
-----------------------------------------------------------------------------
(***************************************************************************)
(* The tasks                                                               *)
(***************************************************************************)
CatalogFetched ==
  /\ catalogTask.step = "fetching"
  /\ \E r \in {"ok", "failed"} : catalogTask' = [catalogTask EXCEPT !.step = r]
  /\ UNCHANGED <<at, launched, online, request, listing, catalogDeferred, infoTask,
                 infoDeferred, install, ui>>

\* The info task has every listing, or stops because an app is there; then it
\* scans what is installed.
InfoFetched ==
  /\ infoTask.step = "running"
  /\ \E i \in BOOLEAN :
       /\ i => launched
       /\ infoTask' = [step |-> "fetched", urls |-> infoTask.urls, gen |-> infoTask.gen,
                       interrupted |-> i]
  /\ UNCHANGED <<at, launched, online, request, listing, catalogTask, catalogDeferred,
                 infoDeferred, install, ui>>

InfoScans ==
  /\ infoTask.step = "fetched"
  /\ infoTask' = [step |-> "done", urls |-> infoTask.urls, gen |-> infoTask.gen,
                  interrupted |-> infoTask.interrupted, seen |-> card]
  /\ UNCHANGED <<at, launched, online, request, listing, catalogTask, catalogDeferred,
                 infoDeferred, install, ui>>

\* The install task writes the app and its listing, or fails; then it scans.
InstallWrites ==
  /\ installTask.step = "writing"
  /\ installTask' = [step |-> "written"]
  /\ card' \in {card, card \cup {installTask.app}}
  /\ UNCHANGED <<at, launched, online, request, listing, fetches, badges, ui>>

InstallScans ==
  /\ installTask.step = "written"
  /\ installTask' = [step |-> "done", seen |-> card]
  /\ UNCHANGED <<at, launched, online, request, listing, fetches, card, badges, ui>>
-----------------------------------------------------------------------------
Loop == PassBegins \/ PollInfo \/ PollDeferred \/ PollInstall \/ PollCatalog \/ Rebuild

Task == CatalogFetched \/ InfoFetched \/ InfoScans \/ InstallWrites \/ InstallScans

Next ==
  \/ \E s \in Sources : Select(s)
  \/ \E a \in Apps : Install(a) \/ Uninstall(a)
  \/ Refresh \/ AppStarts \/ AppEnds \/ NetworkChanges
  \/ Loop \/ Task

Spec == Init /\ [][Next]_vars

\* loop() runs for ever and every task ends; nobody has to ask for anything.
FairSpec ==
  /\ Spec /\ WF_vars(Loop)
  /\ WF_vars(CatalogFetched) /\ WF_vars(InfoFetched \/ InfoScans)
  /\ WF_vars(InstallWrites \/ InstallScans)
-----------------------------------------------------------------------------
TypeOK ==
  /\ at \in {"callbacks", "info", "deferred", "install", "catalog", "rebuild"}
  /\ {launched, online, catalogDeferred, infoDeferred, uiPending} \subseteq BOOLEAN
  /\ url \in Sources /\ entries \in Sources \cup {None}
  /\ appInfo \in Sources \cup {None}
  /\ generation \in Nat /\ requests \in 0 .. MaxRequests
  /\ catalogTask \in [step : {"none"}] \cup [step : {"fetching", "ok", "failed"}, url : Pages]
  /\ infoTask.step \in {"none", "running", "fetched", "done"}
  /\ InfoBusy => infoTask.urls \in Sources /\ infoTask.gen \in 0 .. generation
  /\ installTask.step \in {"none", "writing", "written", "done"}
  /\ card \subseteq Apps /\ badges \subseteq Apps
  /\ shown \in [entries : Sources \cup {None}, loading : BOOLEAN, badges : SUBSET Apps]

\* The list is never one of a source that is no longer selected, whichever request
\* answers late; and listings (title, version, hash, what to install) are shown
\* beside the entries they were fetched for, never beside those of another source.
ListingsOfSelection ==
  /\ entries # None => entries = url
  /\ appInfo # None => appInfo = entries

\* Fetches put off, interrupted or overtaken do not start each other for ever.
StoreSettles ==
  <>[]~launched => <>[](~InfoBusy /\ ~CatalogBusy /\ ~infoDeferred /\ ~catalogDeferred)

\* Listings an app held back or interrupted come when it has ended, as long as
\* nobody asks for a list meanwhile and no page has to be fetched first.
ListingsComeAfterApp ==
  \A s \in Sources, n \in 0 .. MaxRequests :
    ((infoDeferred \/ InfoBusy) /\ ~catalogDeferred /\ ~launched /\ entries = s /\ requests = n)
      ~> (appInfo = s \/ entries # s \/ requests # n \/ launched)

\* "Replace Loading... with the empty list": on a device that is always online
\* the list does not say Loading for ever, however requests overtake each other.
LoadingGoes == []online /\ <>[]~launched => <>[]~shown.loading
=============================================================================
