------------------------------ MODULE StoreProofs ------------------------------
(***************************************************************************)
(* Proofs about Store for any number of sources, apps and requests: the    *)
(* ranges, and that what is listed belongs to what is selected.            *)
(***************************************************************************)
EXTENDS Store, TLAPS

(***************************************************************************)
(* The inductive invariant.  A fetch of listings of the current generation *)
(* is for the entries there are now: every change of the entries makes a   *)
(* new generation.  It is what lets a late answer be told from a current   *)
(* one by its number alone.                                                *)
(***************************************************************************)
Flags == /\ launched \in BOOLEAN /\ online \in BOOLEAN
         /\ catalogDeferred \in BOOLEAN /\ infoDeferred \in BOOLEAN /\ uiPending \in BOOLEAN

CatalogTasks == [step : {"none"}] \cup [step : {"fetching", "ok", "failed"}, url : Pages]

InfoFits ==
  /\ infoTask.step \in {"none", "running", "fetched", "done"}
  /\ InfoBusy => /\ infoTask.urls \in Sources
                 /\ infoTask.gen \in Nat /\ infoTask.gen <= generation
                 /\ infoTask.gen = generation => infoTask.urls = entries
  /\ infoTask.step = "done" => infoTask.seen \subseteq Apps

InstallFits ==
  /\ installTask.step \in {"none", "writing", "written", "done"}
  /\ installTask.step = "writing" => installTask.app \in Apps
  /\ installTask.step = "done" => installTask.seen \subseteq Apps
  /\ card \subseteq Apps /\ badges \subseteq Apps

\* The list, its number and its listings.
ListFits ==
  /\ url \in Sources /\ entries \in Sources \cup {None} /\ generation \in Nat
  /\ ListingsOfSelection

ShownFits == shown \in [entries : Sources \cup {None}, loading : BOOLEAN, badges : SUBSET Apps]

Steps == at \in {"callbacks", "info", "deferred", "install", "catalog", "rebuild"}

IInv ==
  /\ Steps /\ Flags /\ ListFits /\ catalogTask \in CatalogTasks /\ InfoFits /\ InstallFits
  /\ ShownFits /\ requests \in 0 .. MaxRequests
-----------------------------------------------------------------------------
USE StoreAssumption

LEMMA InitIInv == Init => IInv
<1> SUFFICES ASSUME Init PROVE IInv
  OBVIOUS
<1>1. Flags
  BY Zenon DEF Init, Flags
<1>2. ListFits /\ catalogTask \in CatalogTasks
  BY DEF Init, ListFits, ListingsOfSelection, CatalogTasks, NoTask, Sources
<1>3. InfoFits /\ InstallFits
  BY DEF Init, InfoFits, InfoBusy, InstallFits, NoTask
<1>4. ShownFits
  BY DEF Init, ShownFits
<1>. QED BY <1>1, <1>2, <1>3, <1>4 DEF Init, IInv, Steps

\* A fetch of listings that is started, put off, left running or not possible: it is
\* for the new entries e, or of an older generation.
LEMMA StartInfoFits ==
  ASSUME ListFits, InfoFits, NEW e \in Sources \cup {None}, NEW bump \in Nat,
         NEW busy \in BOOLEAN, NEW deferred \in BOOLEAN, infoDeferred \in BOOLEAN,
         StartInfo(e, bump, busy, deferred), entries' = e,
         e = entries \/ bump > 0, busy => InfoBusy
  PROVE  /\ generation' \in Nat /\ generation' >= generation /\ appInfo' = None
         /\ InfoFits' /\ infoDeferred' \in BOOLEAN
<1>1. generation' = generation + bump /\ generation \in Nat /\ appInfo' = None
  BY DEF StartInfo, ListFits
<1>2. ASSUME infoTask' = infoTask PROVE InfoFits'
  <2>1. ~InfoBusy \/ bump = 0 \/ infoTask.gen < generation'
    BY <1>1 DEF InfoFits
  <2>. QED BY <1>1, <1>2, <2>1 DEF InfoFits, InfoBusy
<1>3. ASSUME infoTask' = NoTask PROVE InfoFits'
  BY <1>3 DEF InfoFits, InfoBusy, NoTask
<1>4. ASSUME e # None, infoTask' = [step |-> "running", urls |-> e, gen |-> generation']
      PROVE  InfoFits'
  BY <1>1, <1>4 DEF InfoFits, InfoBusy
<1>5. infoTask' = infoTask \/ infoTask' = NoTask
        \/ (e # None /\ infoTask' = [step |-> "running", urls |-> e, gen |-> generation'])
  BY DEF StartInfo
<1>6. infoDeferred' \in BOOLEAN
  BY DEF StartInfo
<1>7. InfoFits'
  BY <1>2, <1>3, <1>4, <1>5
<1>. QED BY <1>1, <1>6, <1>7

\* A list of the selected source, or none, with a new generation.
LEMMA NewList ==
  ASSUME ListFits, InfoFits, NEW bump \in Nat \ {0}, NEW deferred \in BOOLEAN,
         infoDeferred \in BOOLEAN, url' \in Sources, entries' \in {url', None},
         StartInfo(entries', bump, InfoBusy, deferred)
  PROVE  ListFits' /\ InfoFits' /\ infoDeferred' \in BOOLEAN
<1>1. InfoBusy \in BOOLEAN
  BY DEF InfoBusy
<1>2. /\ generation' \in Nat /\ appInfo' = None
      /\ InfoFits' /\ infoDeferred' \in BOOLEAN
  BY <1>1, StartInfoFits
<1>. QED BY <1>2 DEF ListFits, ListingsOfSelection

\* A page asked for is the selected one, which is no folder.
LEMMA FetchPageFits ==
  ASSUME catalogTask \in CatalogTasks, catalogDeferred \in BOOLEAN, NEW p \in Pages,
         NEW busy \in BOOLEAN, NEW deferred \in BOOLEAN, FetchPage(p, busy, deferred)
  PROVE  catalogTask' \in CatalogTasks /\ catalogDeferred' \in BOOLEAN
<1>1. catalogDeferred' \in BOOLEAN
  BY Zenon DEF FetchPage
<1>2. \/ catalogTask' = catalogTask \/ catalogTask' = NoTask
      \/ catalogTask' = [step |-> "fetching", url |-> p]
  BY DEF FetchPage
<1>3. NoTask \in CatalogTasks /\ [step |-> "fetching", url |-> p] \in CatalogTasks
  BY DEF NoTask, CatalogTasks
<1>. QED BY <1>1, <1>2, <1>3

\* What a callback does to the lists.
LEMMA SelectStep == ASSUME IInv, NEW s \in Sources, Select(s) PROVE IInv'
<1>. USE DEF IInv
<1>0. /\ at' = at /\ requests < MaxRequests /\ requests' = requests + 1 /\ url' = s
      /\ UNCHANGED <<launched, online, installTask, card, badges, shown>>
  BY DEF Select, Callbacks, install
<1>1. requests' \in 0 .. MaxRequests /\ Steps' /\ ShownFits' /\ InstallFits'
  BY <1>0 DEF Steps, ShownFits, InstallFits
<1>2. CASE s \in Folders
  <2>1. ListFolder(s, 2, infoDeferred) /\ UNCHANGED <<catalogTask, catalogDeferred>>
    BY <1>2 DEF Select
  <2>2. /\ entries' \in {s, None} /\ uiPending' = TRUE
        /\ StartInfo(entries', 2, InfoBusy, infoDeferred)
    BY <2>1 DEF ListFolder
  <2>3. ListFits' /\ InfoFits' /\ infoDeferred' \in BOOLEAN
    BY <1>0, <2>2, NewList DEF Flags
  <2>. QED BY <1>0, <1>1, <2>1, <2>2, <2>3 DEF Flags
<1>3. CASE s \notin Folders
  <2>1. /\ entries' = None /\ uiPending' = TRUE
        /\ StartInfo(None, 1, InfoBusy, infoDeferred)
        /\ FetchPage(s, CatalogBusy, catalogDeferred)
    BY <1>3 DEF Select
  <2>2. ListFits' /\ InfoFits' /\ infoDeferred' \in BOOLEAN
    BY <1>0, <2>1, NewList DEF Flags
  <2>3. s \in Pages /\ CatalogBusy \in BOOLEAN
    BY <1>3 DEF Sources, CatalogBusy
  <2>4. catalogTask' \in CatalogTasks /\ catalogDeferred' \in BOOLEAN
    BY <2>1, <2>3, FetchPageFits DEF Flags
  <2>. QED BY <1>0, <1>1, <2>1, <2>2, <2>4 DEF Flags
<1>. QED BY <1>2, <1>3

LEMMA RefreshStep == ASSUME IInv, Refresh PROVE IInv'
<1>. USE DEF IInv
<1>0. /\ at' = at /\ requests < MaxRequests /\ requests' = requests + 1
      /\ UNCHANGED <<launched, online, url, installTask, card, badges, shown>>
  BY DEF Refresh, Callbacks, install
<1>1. requests' \in 0 .. MaxRequests /\ Steps' /\ ShownFits' /\ InstallFits'
  BY <1>0 DEF Steps, ShownFits, InstallFits
<1>2. CASE url \in Folders
  <2>1. ListFolder(url, 1, infoDeferred) /\ UNCHANGED <<catalogTask, catalogDeferred>>
    BY <1>2 DEF Refresh
  <2>2. /\ entries' \in {url, None} /\ uiPending' = TRUE
        /\ StartInfo(entries', 1, InfoBusy, infoDeferred)
    BY <2>1 DEF ListFolder
  <2>3. ListFits' /\ InfoFits' /\ infoDeferred' \in BOOLEAN
    BY <1>0, <2>2, NewList DEF Flags, ListFits
  <2>. QED BY <1>0, <1>1, <2>1, <2>2, <2>3 DEF Flags
<1>3. CASE url \notin Folders
  <2>1. /\ FetchPage(url, CatalogBusy, catalogDeferred)
        /\ UNCHANGED <<entries, generation, appInfo, infoTask, infoDeferred, uiPending>>
    BY <1>3 DEF Refresh, listing
  <2>2. url \in Pages /\ CatalogBusy \in BOOLEAN
    BY <1>3 DEF ListFits, Sources, CatalogBusy
  <2>3. catalogTask' \in CatalogTasks /\ catalogDeferred' \in BOOLEAN
    BY <2>1, <2>2, FetchPageFits DEF Flags
  <2>4. ListFits' /\ InfoFits'
    BY <1>0, <2>1 DEF ListFits, ListingsOfSelection, InfoFits, InfoBusy
  <2>. QED BY <1>0, <1>1, <2>1, <2>3, <2>4 DEF Flags
<1>. QED BY <1>2, <1>3

LEMMA UninstallStep == ASSUME IInv, NEW a \in Apps, Uninstall(a) PROVE IInv'
<1>. USE DEF IInv
<1>0. /\ at' = at /\ requests < MaxRequests /\ requests' = requests + 1
      /\ card' = card \ {a} /\ badges' = badges \ {a} /\ uiPending' = TRUE
      /\ UNCHANGED <<launched, online, url, catalogTask, catalogDeferred, installTask, shown>>
  BY DEF Uninstall, Callbacks
<1>1. requests' \in 0 .. MaxRequests /\ Steps' /\ ShownFits' /\ InstallFits'
  BY <1>0 DEF Steps, ShownFits, InstallFits
<1>2. CASE url \in Folders
  <2>1. /\ entries' \in {url, None} /\ StartInfo(entries', 1, InfoBusy, infoDeferred)
    BY <1>2 DEF Uninstall, ListFolder
  <2>2. ListFits' /\ InfoFits' /\ infoDeferred' \in BOOLEAN
    BY <1>0, <2>1, NewList DEF Flags, ListFits
  <2>. QED BY <1>0, <1>1, <2>2 DEF Flags
<1>3. CASE url \notin Folders
  <2>1. UNCHANGED <<entries, generation, appInfo, infoTask, infoDeferred>>
    BY <1>3 DEF Uninstall, listing
  <2>2. ListFits' /\ InfoFits'
    BY <1>0, <2>1 DEF ListFits, ListingsOfSelection, InfoFits, InfoBusy
  <2>. QED BY <1>0, <1>1, <2>1, <2>2 DEF Flags
<1>. QED BY <1>2, <1>3

\* Steps that leave the lists and their fetches alone.
LEMMA ListsKept ==
  ASSUME IInv, UNCHANGED <<request, listing, fetches, shown>>,
         Steps', launched' \in BOOLEAN, online' \in BOOLEAN, uiPending' \in BOOLEAN, InstallFits'
  PROVE  IInv'
<1>1. ListFits' /\ InfoFits' /\ ShownFits'
  BY DEF IInv, ListFits, ListingsOfSelection, InfoFits, InfoBusy, ShownFits,
     request, listing, fetches
<1>. QED BY <1>1 DEF IInv, Flags, request, fetches

LEMMA QuietStep ==
  ASSUME IInv,
         \/ \E a \in Apps : Install(a)
         \/ AppStarts \/ AppEnds \/ NetworkChanges \/ PassBegins \/ PollInstall
         \/ InstallWrites \/ InstallScans \/ UNCHANGED vars
  PROVE  IInv'
<1>. USE DEF IInv, Steps, Flags, install, ui
<1>1. ASSUME NEW a \in Apps, Install(a) PROVE IInv'
  <2>1. InstallFits'
    BY <1>1 DEF Install, InstallFits
  <2>. QED BY <1>1, <2>1, ListsKept DEF Install, Callbacks
<1>2. CASE AppStarts \/ AppEnds \/ PassBegins
  <2>1. InstallFits' /\ launched' \in BOOLEAN
    BY <1>2 DEF AppStarts, AppEnds, PassBegins, InstallFits
  <2>. QED BY <1>2, <2>1, ListsKept DEF AppStarts, AppEnds, PassBegins, Callbacks
<1>3. CASE NetworkChanges
  <2>1. InstallFits'
    BY <1>3 DEF NetworkChanges, InstallFits
  <2>2. online' \in BOOLEAN
    BY <1>3, Zenon DEF NetworkChanges
  <2>. QED BY <1>3, <2>1, <2>2, ListsKept DEF NetworkChanges
<1>4. CASE PollInstall
  <2>1. InstallFits'
    BY <1>4 DEF PollInstall, InstallFits, NoTask
  <2>2. uiPending' \in BOOLEAN
    BY <1>4, Zenon DEF PollInstall
  <2>. QED BY <1>4, <2>1, <2>2, ListsKept DEF PollInstall
<1>5. CASE InstallWrites \/ InstallScans
  <2>1. InstallFits'
    BY <1>5 DEF InstallWrites, InstallScans, InstallFits
  <2>. QED BY <1>5, <2>1, ListsKept DEF InstallWrites, InstallScans
<1>6. CASE UNCHANGED vars
  <2>1. InstallFits'
    BY <1>6 DEF vars, InstallFits
  <2>. QED BY <1>6, <2>1, ListsKept DEF vars
<1>. QED BY <1>1, <1>2, <1>3, <1>4, <1>5, <1>6

\* The result of a fetch of listings is used only if it is of the current generation.
LEMMA PollInfoStep == ASSUME IInv, PollInfo PROVE IInv'
<1>. USE DEF IInv
<1>0. /\ Steps' /\ UNCHANGED <<launched, online, url, requests, catalogTask, catalogDeferred,
                               installTask, card, shown>>
  BY DEF PollInfo, Steps, request
<1>1. ShownFits' /\ catalogTask' \in CatalogTasks /\ requests' \in 0 .. MaxRequests
  BY <1>0 DEF ShownFits
<1>2. CASE infoTask.step # "done"
  <2>1. UNCHANGED <<entries, generation, appInfo, infoTask, infoDeferred, badges, uiPending>>
    BY <1>2 DEF PollInfo, listing
  <2>2. ListFits' /\ InfoFits' /\ InstallFits'
    BY <1>0, <2>1 DEF ListFits, ListingsOfSelection, InfoFits, InfoBusy, InstallFits
  <2>. QED BY <1>0, <1>1, <2>1, <2>2 DEF Flags
<1>3. CASE infoTask.step = "done" /\ infoTask.interrupted
  <2>1. /\ infoTask' = NoTask /\ infoDeferred' = TRUE
        /\ UNCHANGED <<entries, generation, appInfo, badges, uiPending>>
    BY <1>3 DEF PollInfo, listing
  <2>2. ListFits' /\ InfoFits' /\ InstallFits'
    BY <1>0, <2>1 DEF ListFits, ListingsOfSelection, InfoFits, InfoBusy, InstallFits, NoTask
  <2>. QED BY <1>0, <1>1, <2>1, <2>2 DEF Flags
<1>4. CASE infoTask.step = "done" /\ ~infoTask.interrupted /\ infoTask.gen # generation
  <2>1. StartInfo(entries, 0, FALSE, infoDeferred) /\ UNCHANGED <<entries, badges, uiPending>>
    BY <1>4 DEF PollInfo
  <2>2. /\ generation' \in Nat /\ appInfo' = None /\ InfoFits' /\ infoDeferred' \in BOOLEAN
    BY <2>1, StartInfoFits DEF ListFits, Flags
  <2>3. ListFits' /\ InstallFits'
    BY <1>0, <2>1, <2>2 DEF ListFits, ListingsOfSelection, InstallFits
  <2>. QED BY <1>0, <1>1, <2>1, <2>2, <2>3 DEF Flags
<1>5. CASE infoTask.step = "done" /\ ~infoTask.interrupted /\ infoTask.gen = generation
  <2>1. /\ appInfo' = infoTask.urls /\ badges' = infoTask.seen
        /\ infoTask' = NoTask /\ uiPending' = TRUE
        /\ UNCHANGED <<entries, generation, infoDeferred>>
    BY <1>5 DEF PollInfo
  <2>2. appInfo' = entries /\ infoTask.seen \subseteq Apps
    BY <1>5, <2>1 DEF InfoFits, InfoBusy
  <2>3. ListFits' /\ InfoFits' /\ InstallFits'
    BY <1>0, <2>1, <2>2 DEF ListFits, ListingsOfSelection, InfoFits, InfoBusy, InstallFits, NoTask
  <2>. QED BY <1>0, <1>1, <2>1, <2>3 DEF Flags
<1>. QED BY <1>2, <1>3, <1>4, <1>5

LEMMA PollDeferredStep == ASSUME IInv, PollDeferred PROVE IInv'
<1>. USE DEF IInv
<1>0. /\ Steps' /\ UNCHANGED <<launched, online, url, requests, installTask, card, badges, shown>>
  BY DEF PollDeferred, Steps, request, install
<1>1. /\ ShownFits' /\ InstallFits' /\ requests' \in 0 .. MaxRequests
      /\ InfoBusy \in BOOLEAN /\ CatalogBusy \in BOOLEAN
  BY <1>0 DEF ShownFits, InstallFits, InfoBusy, CatalogBusy
<1>2. CASE launched \/ ~(catalogDeferred \/ infoDeferred)
  <2>1. UNCHANGED <<entries, generation, appInfo, catalogTask, catalogDeferred,
                    infoTask, infoDeferred, uiPending>>
    BY <1>2 DEF PollDeferred, listing, fetches
  <2>2. ListFits' /\ InfoFits'
    BY <1>0, <2>1 DEF ListFits, ListingsOfSelection, InfoFits, InfoBusy
  <2>. QED BY <1>0, <1>1, <2>1, <2>2 DEF Flags
<1>3. CASE ~launched /\ infoDeferred /\ ~catalogDeferred
  <2>1. /\ StartInfo(entries, 0, InfoBusy, FALSE)
        /\ UNCHANGED <<entries, catalogTask, catalogDeferred, uiPending>>
    BY <1>3 DEF PollDeferred
  <2>2. /\ generation' \in Nat /\ appInfo' = None /\ InfoFits' /\ infoDeferred' \in BOOLEAN
    BY <1>1, <2>1, StartInfoFits DEF ListFits, Flags
  <2>3. ListFits'
    BY <1>0, <2>1, <2>2 DEF ListFits, ListingsOfSelection
  <2>. QED BY <1>0, <1>1, <2>1, <2>2, <2>3 DEF Flags
<1>4. CASE ~launched /\ catalogDeferred /\ url \in Folders
  <2>1. /\ ListFolder(url, 1, FALSE) /\ catalogDeferred' = FALSE /\ UNCHANGED catalogTask
    BY <1>4 DEF PollDeferred
  <2>2. /\ entries' \in {url, None} /\ uiPending' = TRUE
        /\ StartInfo(entries', 1, InfoBusy, FALSE) /\ url' \in Sources /\ url' = url
    BY <1>0, <2>1 DEF ListFolder, ListFits
  <2>3. ListFits' /\ InfoFits' /\ infoDeferred' \in BOOLEAN
    <3>1. ListFits /\ InfoFits /\ infoDeferred \in BOOLEAN /\ FALSE \in BOOLEAN /\ 1 \in Nat \ {0}
      BY DEF Flags
    <3>. QED BY <2>2, <3>1, NewList
  <2>. QED BY <1>0, <1>1, <2>1, <2>2, <2>3 DEF Flags
<1>5. CASE ~launched /\ catalogDeferred /\ url \notin Folders
  <2>1. /\ FetchPage(url, CatalogBusy, FALSE) /\ infoDeferred' = FALSE
        /\ UNCHANGED <<entries, generation, appInfo, infoTask, uiPending>>
    BY <1>5 DEF PollDeferred, listing
  <2>2. url \in Pages
    BY <1>5 DEF ListFits, Sources
  <2>3. catalogTask' \in CatalogTasks /\ catalogDeferred' \in BOOLEAN
    BY <1>1, <2>1, <2>2, FetchPageFits DEF Flags
  <2>4. ListFits' /\ InfoFits'
    BY <1>0, <2>1 DEF ListFits, ListingsOfSelection, InfoFits, InfoBusy
  <2>. QED BY <1>0, <1>1, <2>1, <2>3, <2>4 DEF Flags
<1>. QED BY <1>2, <1>3, <1>4, <1>5

\* A late answer of a page that is no longer selected is never the list.
LEMMA PollCatalogStep == ASSUME IInv, PollCatalog PROVE IInv'
<1>. USE DEF IInv
<1>0. /\ Steps' /\ UNCHANGED <<launched, online, url, requests, installTask, card, badges, shown>>
  BY DEF PollCatalog, Steps, request, install
<1>1. /\ ShownFits' /\ InstallFits' /\ requests' \in 0 .. MaxRequests
  BY <1>0 DEF ShownFits, InstallFits
<1>2. NoTask \in CatalogTasks
  BY DEF NoTask, CatalogTasks
<1>3. CASE UNCHANGED <<entries, generation, appInfo, infoTask, infoDeferred>>
             /\ uiPending' \in BOOLEAN /\ catalogTask' \in CatalogTasks /\ catalogDeferred' \in BOOLEAN
  <2>1. ListFits' /\ InfoFits'
    BY <1>0, <1>3 DEF ListFits, ListingsOfSelection, InfoFits, InfoBusy
  <2>. QED BY <1>0, <1>1, <1>3, <2>1 DEF Flags
<1>4. CASE UNCHANGED <<listing, fetches, uiPending>>
  BY <1>3, <1>4 DEF listing, fetches, Flags
<1>5. CASE url \in Pages /\ FetchPage(url, FALSE, catalogDeferred)
             /\ UNCHANGED <<listing, infoTask, infoDeferred, uiPending>>
  <2>1. catalogTask' \in CatalogTasks /\ catalogDeferred' \in BOOLEAN
    BY <1>5, FetchPageFits DEF Flags
  <2>. QED BY <1>3, <1>5, <2>1 DEF listing, Flags
<1>6. ASSUME entries' \in {url, None}, StartInfo(entries', 1, InfoBusy, infoDeferred),
             uiPending' = TRUE, catalogTask' = NoTask, UNCHANGED catalogDeferred
      PROVE  IInv'
  <2>1. ListFits' /\ InfoFits' /\ infoDeferred' \in BOOLEAN
    BY <1>0, <1>6, NewList DEF Flags, ListFits
  <2>. QED BY <1>0, <1>1, <1>2, <1>6, <2>1 DEF Flags
<1>7. CASE ListFolder(url, 1, infoDeferred) /\ catalogTask' = NoTask /\ UNCHANGED catalogDeferred
  BY <1>6, <1>7 DEF ListFolder
<1>8. CASE NoPage
  BY <1>2, <1>3, <1>8 DEF NoPage, listing, Flags
<1>. QED BY <1>4, <1>5, <1>6, <1>7, <1>8 DEF PollCatalog

LEMMA RebuildStep == ASSUME IInv, Rebuild PROVE IInv'
<1>. USE DEF IInv
<1>1. /\ Steps' /\ UNCHANGED <<launched, online, request, listing, fetches, install>>
  BY DEF Rebuild, Steps
<1>2. shown' = shown \/ shown' = [entries |-> entries, badges |-> badges,
                                  loading |-> entries = None /\ CatalogBusy]
  BY DEF Rebuild, ui
<1>3. ShownFits' /\ uiPending' \in BOOLEAN
  <2>1. uiPending' \in BOOLEAN
    BY DEF Rebuild, ui, Flags
  <2>2. (entries = None /\ CatalogBusy) \in BOOLEAN
    BY DEF CatalogBusy
  <2>3. [entries |-> entries, badges |-> badges, loading |-> entries = None /\ CatalogBusy]
          \in [entries : Sources \cup {None}, loading : BOOLEAN, badges : SUBSET Apps]
    BY <2>2 DEF ListFits, InstallFits
  <2>. QED BY <1>2, <2>1, <2>3 DEF ShownFits
<1>4. ListFits' /\ InfoFits' /\ InstallFits'
  BY <1>1 DEF ListFits, ListingsOfSelection, InfoFits, InfoBusy, InstallFits,
     request, listing, fetches, install
<1>. QED BY <1>1, <1>3, <1>4 DEF Flags, request, fetches

LEMMA TaskStep == ASSUME IInv, CatalogFetched \/ InfoFetched \/ InfoScans PROVE IInv'
<1>. USE DEF IInv
<1>0. /\ UNCHANGED <<at, launched, online, request, listing, catalogDeferred,
                     infoDeferred, install, ui>>
  BY DEF CatalogFetched, InfoFetched, InfoScans
<1>1. /\ Steps' /\ ShownFits' /\ InstallFits' /\ ListFits' /\ Flags'
      /\ requests' \in 0 .. MaxRequests
  BY <1>0 DEF Steps, ShownFits, InstallFits, ListFits, ListingsOfSelection, Flags,
     request, listing, install, ui
<1>2. CASE CatalogFetched
  <2>1. catalogTask' \in CatalogTasks
    BY <1>2 DEF CatalogFetched, CatalogTasks
  <2>2. InfoFits'
    BY <1>0, <1>2 DEF CatalogFetched, InfoFits, InfoBusy, listing
  <2>. QED BY <1>1, <2>1, <2>2
<1>3. CASE InfoFetched \/ InfoScans
  <2>1. /\ catalogTask' = catalogTask /\ InfoBusy /\ infoTask'.step \in {"fetched", "done"}
        /\ infoTask'.urls = infoTask.urls /\ infoTask'.gen = infoTask.gen
        /\ infoTask'.step = "done" => infoTask'.seen = card
    BY <1>3 DEF InfoFetched, InfoScans, InfoBusy
  <2>2. InfoFits'
    BY <1>0, <2>1 DEF InfoFits, InfoBusy, InstallFits, listing
  <2>. QED BY <1>1, <2>1, <2>2
<1>. QED BY <1>2, <1>3

LEMMA NextStep == ASSUME IInv, [Next]_vars PROVE IInv'
  BY SelectStep, RefreshStep, UninstallStep, QuietStep, PollInfoStep, PollDeferredStep,
     PollCatalogStep, RebuildStep, TaskStep
     DEF Next, Loop, Task

LEMMA Invariant == Spec => []IInv
<1>1. IInv /\ [Next]_vars => IInv'
  BY NextStep
<1>. QED BY InitIInv, <1>1, PTL DEF Spec

\* Every variable of the store keeps its range: a page task only ever fetches pages,
\* whatever is selected while it runs, and a fetch of listings is never of a later
\* generation than the list's.
THEOREM TypeCorrect == Spec => []TypeOK
<1>1. IInv => TypeOK
  <2> SUFFICES ASSUME IInv PROVE TypeOK
    OBVIOUS
  <2>. USE DEF IInv
  <2>1. {launched, online, catalogDeferred, infoDeferred, uiPending} \subseteq BOOLEAN
    BY Zenon DEF Flags
  <2>2. InfoBusy => infoTask.urls \in Sources /\ infoTask.gen \in 0 .. generation
    BY DEF InfoFits, ListFits
  <2>3. appInfo \in Sources \cup {None}
    BY DEF ListFits, ListingsOfSelection
  <2>. QED BY <2>1, <2>2, <2>3 DEF TypeOK, Steps, ListFits, CatalogTasks, InfoFits, InstallFits, ShownFits
<1>. QED BY Invariant, <1>1, PTL

\* However requests overtake each other, fail or are put off by an app, the list is of
\* the selected source or empty, and listings stand only beside the entries they were
\* fetched for (papp_loader.cpp:807-832, papp_store.cpp:358-383).
THEOREM ListsBelongToSelection == Spec => []ListingsOfSelection
<1>1. IInv => ListingsOfSelection
  BY DEF IInv, ListFits
<1>. QED BY Invariant, <1>1, PTL
================================================================================
