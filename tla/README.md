# ESPHomeBrew: a verification project

ESPHomeBrew is a firmware component for ESP32-P4 panels that loads small native
applications (`.papp` files) into PSRAM and runs them beside ESPHome.  This
directory holds TLA+ modules for the parts of it whose correctness depends on the
order in which tasks, callbacks, downloads and crashes meet, the TLC
configurations that check them on small instances, and proofs of the properties
that hold for every instance.

The code modelled is `src/esphome/components/papp_loader/` (`papp_loader.cpp`,
`papp_store.cpp` and their headers; "loader" and "store" below) and
`src/esphome/components/usb_midi/` and `usb_msc/`.  All line numbers refer to the
commit beside which this directory lies.  `PROJECT.json` says, definition by
definition, which lines a definition stands for, and lists every component, hazard,
run, mutant and theorem.

Run the modules from this directory:

    tlc -workers 4 -config MCLauncher_safety.cfg MCLauncher
    tlapm LauncherProofs.tla

## 1. The system

### The tasks that meet

| task | what it runs |
| --- | --- |
| ESPHome loop task | `loop()` of the loader and of `usb_msc`, and between two passes LVGL, buttons, timers, API actions |
| load task | downloads a network app and its missing data, one at a time |
| app main task | the app's `main`, with the service table of the loader |
| app helper tasks | tasks the app itself creates; they may outlive a call, and be deleted inside one |
| catalog, info and install tasks | the store's fetches and writes, one of each at a time |
| TLS connect tasks | one per connect of an app; owns its slot until it ends |
| stream task | serves the diagnostic stream on port 3233, one client at a time |
| keyboard task | USB keyboard: puts presses and releases into the queue of the app |
| USB client task | `usb_midi`: opens and closes devices and runs the transfer callbacks |
| MSC driver task | `usb_msc`: reports that a stick came or went |

They share flags (mostly plain or `volatile` booleans), a few structures under a
FreeRTOS mutex (TLS sessions, frame and sound of the stream, key events, the MIDI
transmit queue), tables and rings without one (sockets, tasks, received MIDI bytes), and the
card's file system.

### Components

| component | state | operations | hard behaviour | what makes it correct |
| --- | --- | --- | --- | --- |
| Launcher and hand-off | `launched_`, `launch_pending_`, chain, close flags, load result, worker, image handle, touch shield, LVGL | launch, close, buttons, autostart, `loop()`, load task, `app_open`, app return | requests arrive between any two steps; three failure paths; late calls of helper tasks | images owned once; closes not lost; depth bounded; the user gets the menu back |
| TLS for apps | session table, generation, mutex, connect tasks | connect, read/write, close, clean-up after the app | a task deleted inside a call; exit under a handshake; reused slots | one owner per connection; nothing freed under a transfer; stale handles reach nothing |
| Sockets of apps | 16 descriptors, no lock | open, accept, close, clean-up after the app | two tasks of an app on one slot; numbers the stack gives out again | no descriptor lost, none closed for another |
| Tasks of apps | registry of tasks with large stacks, no lock | create, delete | two creates on one entry; addresses given out again; a creator deleted inside a call | each task deleted the way it was made |
| Store | selected source, entries, listings, badges, three tasks, deferred requests | select, refresh, install, uninstall, passes of `loop()` | answers that arrive late; fetches put off by an app; network loss | what is shown belongs to what is selected; deferred work comes, once |
| Settings of apps | `settings.json`: canvas sizes, favourites | three setters, the Screen button | each setter rewrites the whole file; read limit; torn writes | what was saved stays; every choice of the button comes |
| Files of an app | `.papp`, listing, data files, `.part`, `.upload.bak`, manifest | install, upload, data sync, uninstall, boot | power cut between two calls; full card; two tasks on one file | no broken file; own data untouched; an update never loses the app |
| Remote files (`write_file`) | a file and its `.bak` | write, delete | failing calls, power cut during the write | the old or the new file |
| Diagnostic stream | request flags, menu picture, frame, sound ring, session | requests, snapshots, flush, submit, the stream task | flags shared without a lock; give-up after 1500 ms; clients that go | pictures owned once and fresh; frames whole; requests answered |
| Keyboard | ring under a mutex, `launched_` read before it | tap, launch, read | ring full; a tap across a launch | an app reads the keys of its own launch |
| USB MIDI | a ring; two transfers, a queue under a lock | plug, unplug, callbacks, read, write | callbacks against writers; reset under a read | whole messages; nothing freed under the host; closed when pulled |
| USB sticks | two `volatile` variables, device, volume | driver's reports, passes, mount, unmount | reports between two reads of a pass | no stale mount; unmounted stays unmounted |
| Pattern matching (`glob_match`) | two places in pattern and name | one comparison | goes back to the last `*` only | answers as a full search |
| Touch, mouse; sound, canvas, heap | buffers | service calls | blocking writes, rounding | arithmetic of sizes |
| Path rules, archives, versions, data lists, image loading, reports | none, a file or a mapped image | parsing, mapping, loading | edge cases of strings, failure in the middle | inside the card; newest version; nothing left mapped |
| Chat bridge, device bridge, build tools, code generation | per process | jobs, builds | few | sequential |
| Apps and ports, zlib, PNGdec | - | - | - | use the services; third-party |

How they interact: the launcher starts and ends the worker; the end of an app calls
the clean-up of TLS and sockets, resumes LVGL and lets the store's deferred fetches
go on; the store queues launches and installs; install and load task meet on the card;
the stream task reads `launched_` to choose between menu snapshot and app canvas; the
keyboard task reads it to choose whether to queue; the canvas size saved in the
settings decides what an app is given when it starts.

## 2. Modules

| module | models | checked by | proved in |
| --- | --- | --- | --- |
| `HandoffChain` | class `Chain` (`papp_handoff.h`): operators | with `Launcher` | `LauncherProofs` |
| `Launcher` | the launcher, all tasks | `MCLauncher_*` | `LauncherProofs` |
| `Navigation` | abstract: which app is there, who comes back | implemented by `Launcher` | `LauncherProofs` |
| `Store` | sources, listings, badges | `MCStore` | `StoreProofs` |
| `AppFiles` | one app's files on the card | `MCAppFiles`, `AppFiles_*` | `AppFilesProofs` |
| `ScreenStream` | the diagnostic stream | `ScreenStream`, `ScreenStream_*` | `ScreenStreamProofs` |
| `AppTls` | TLS sessions | `MCServices` | `AppServicesProofs` |
| `AppSockets` | UDP and TCP sockets of apps | `MCServices`, `AppSockets_*` | `AppServicesProofs` |
| `AppTasks` | tasks of apps, their registry | `MCServices`, `AppTasks_*` | `AppServicesProofs` |
| `UsbMidi` | transfers of a MIDI device | `MCServices` | `UsbProofs` |
| `MidiRing` | the ring of received MIDI bytes | `MCServices` | `UsbProofs` |
| `UsbMsc` | USB sticks | `MCServices` | `UsbProofs` |
| `Keys` | the keyboard queue | `MCServices`, `Keys_*` | `UsbProofs` |
| `RemoteFile` | `write_file`, `delete_file` | `MCServices` | `CardTextsProofs` |
| `Settings` | `settings.json`, the Screen button | `MCServices`, `Settings_*` | `CardTextsProofs` |
| `Glob` | `glob_match` | `MCServices` | `CardTextsProofs` |

`MCLauncher` only defines the small sets the configurations name. `MCStore` runs `Store`
on three kinds of device, one chosen at the start: a *rough* one, where tasks may not be
created, one with *apps* to install and remove, and a *steady* one, where the loop and
the tasks are fair. `MCServices` has ten modules side by side. `ServicesTogether` is any
interleaving of their steps. The models share no variable, so what holds of each by
itself holds of all together, which `ServicesProofs` proves of `ServicesTogether`. TLC
checks `ServicesSpec`, where a behaviour belongs to one part, chosen at the start, and
the state space is the sum of theirs. What the services do have in common in the code,
the app that ends and tasks that are deleted, is in each model an event of its own.
`MCAppFiles` runs `AppFiles` on three kinds of card, one chosen at the start: a *rough*
one, where the power may be cut, writes find the card full and renames and deletions
fail, and whose last data file stays; a *quiet* one, where both data files come and go
and no record is lost; and a *small* one, whose manifest is over its limit as soon as it
has two records. Definitions marked *Faulty variant* are plausible bugs of the operator
that follows; they are not part of any specification. `PROJECT.json` ("mutants") says
which property each of them breaks.

### Launcher

One pass of `loop()` is two actions, `LoopPoll` (buttons, touch, LVGL) and `LoopTail`
(load result, finished app or queued launch), because the other tasks run between
them; everything else of the loop task (`RequestLaunch`, `RequestClose`,
`ToggleEdge`, `LaunchButtonEdge`, `AutostartTimer`, `LvglResumesOnInput`) happens
between two passes.  `app_open` is a look-up that may take 20 s followed by the
request, so `AppOpenBegins` reads the close flags and `AppOpenAsks` acts on them
later, after any other step; `AppOpenCloses` is its last statement.  Loading an image
has outcomes (a handle, no handle, no worker) instead of contents; `images` counts
images in PSRAM, and an unload of what is not there makes it negative, which
`TypeOK` excludes.  The chain (`pending`, `stack`) is that of `papp_handoff.h`.

`Navigation` states what an app author can rely on of what `psram_app.h` and
`docs/building.md` promise: open from the menu, hand over, come back when the successor
ends *or cannot start*, else the menu.  It is weaker than the promise in one point: the
caller comes back with the resume argument it had when it asked, not with the last one
it set (section 5).  `Launcher!Nav` gives the refinement
mapping; the property `Navigates` says every behaviour of the launcher is one of
`Navigation`, which bounds the depth as well.

### Store

A pass is the steps *info, deferred, install, catalog, rebuild* of `loop()`, in that
order and nothing of the loop task between them; *callbacks* is the time between
passes.  A source stands for the list it yields, so `entries = s` reads "the list of s
is shown".  Tasks leave a result that the next pass finds.  `generation` is
`catalog_generation_`, which tells late listings from current ones.

### AppFiles

One app: file 0 is the `.papp`, files 1..NData its data. Every file system call that a
power cut or the other task can come between is one action (open, receive, rename to the
real name, delete, back up, put back, truncate, write), with an action for its failure
where the code goes on after it (`RemoveDataFails`, `SettleFails`, `WriteFails`) or
gives up (`RemovePappFails`, `StageFails`). Contents are *absent*, *own* (the user's or
older), *twin* (the user's, of the very size the list gives, which is all that an
uninstall compares), *fetched* or *broken*. A launch streams the app (`Launch`), or
starts the copy on the card without a look at its data (`LaunchCopy`). FAT's rename
never replaces an existing file (`CanRename`; the code says so at
`papp_loader.cpp:4515`). An uninstall is on the loop task, which does nothing else until
it has ended. A truncated manifest or listing reads like none and is modelled as none;
so does a manifest over `MANIFEST_MAX_BYTES` (one not in `Readable`) or one that cannot
be opened (`Reading`). `mishaps` records what has made the code lose a record or leave a
backup.

### ScreenStream

The stream task's `at` goes through accept, unlocked reset, probe of the client,
screenshot (with the hand-over of the menu's picture by the loop task), file, batch
under `stream_mutex_`, push, end of session. A request is two writes of the loop task,
the request flag and then `stream_enabled_`. The app's flush and `audio_submit_` hold
`stream_mutex_`; the stream task takes and gives it within one step, and skips when it
is taken, as the code's try-lock does. `slipped` says that the newest request came
between the read of the flags and the write of `stream_enabled_`. The number of a frame
stands for its pixels, and samples are counted, in `Width`-valued unsigned arithmetic,
without their place in the ring.

### AppTls

A call is: take the mutex, act, give it back, and for a close destroy the connection
after that. `DeleteTask` removes a helper at any step of a call; if it held the mutex,
`holder` becomes `"deleted"` until `CloseAll` gives the sessions up and makes a new
mutex. `Connect` marks the slot, and creating the connect task is a step after it
(`ConnectStarts`): a helper deleted between the two leaves a slot whose task never comes
(`"stranded"`). A connect task goes through `Handshake`, `Land` and `LandedDestroys`. A
wait that runs out is a call that changes nothing and is left out. `live`, `closing` and
`lost` record which connections are allocated, about to be freed by the loader, or given
up on purpose.

### AppSockets

`table` is `s_app_sockets`, which has no lock.  A call is the sequence of its accesses:
the test for a free slot, the system call, the search for the slot, the store.  A
search of the whole table that does nothing else is one step; the search of a close,
which has a `close()` in the middle and goes on behind it, is one step per slot
(`Looks`, `Closes`, `Clears`).  `opener` says whether the app or the rest of the
firmware has a descriptor open, and a number given back may at once be given to the
other.  `struck` records that the loader closed a number of the firmware's.

### AppTasks

A task with a stack of more than 32 KB is made and deleted with ESP-IDF's WithCaps
functions, and `papp_cap_task_handles` (`registry`) tells which tasks those are. The two
searches of the registry go entry by entry, and a write is a step after the test
(`Remembers`, `Enters`; `Forgets`, `ClearsEntry`), since nothing locks it. A handle is
the address of a control block (`block`), which the next task may be given once it is
free. A creator may be deleted inside a call. `strayed` has the large tasks whose own
entry another call has overwritten or cleared, or that have deleted themselves
(`task_delete(NULL)`, `DeletesItself`); `mismatched` those deleted through their handle
by the wrong function.

### MidiRing and UsbMidi

`MidiRing` has the two indices of the ring of received bytes, each load and store a
step: a message is written and then published, a read copies and then gives the room
back, and opening a device resets the ring in two stores (`ResetHead`, `ResetTail`).
`raced` is set when a reset meets a read, where the ring promises nothing.

In `UsbMidi` a transfer is *none*, *idle*, with the *host*, or *back* with its callback
still to run.  The client task opens the device, runs callbacks, and frees everything
when it is gone and nothing is out (`CheckIdle`, `CloseDevice`).  A writer holds
`tx_lock_` from the submit to the store of `out_busy_`; the client reads `out_busy_`
without the lock, and `overlooked` records that it found nothing out while a writer was
in that gap.  Every submit may fail also with the device there; `refused` says that the
last one of an OUT transfer did.

### UsbMsc

A pass of `loop()` goes access by access through the two volatile variables
(`PassRemoved`, `PassUnmounts`, `PassReads`, `PassClears`, `PassInstalls`), since the
driver's task may report in between.  A number stands for a stick with its address,
device handle and volume; installing and mounting may fail.  `ejected` remembers what
the user has unmounted.

### Keys

The ring is only touched under `keyboard_mutex_`, so an access is one step;
`launched_` is read before it (`TestLaunched`), and a launch clears the ring between
(`KeysCleared`).  `pending` is the queue as a list, against which the ring of places
is compared; `late` is set when an event goes in that was tested before the launch.

### RemoteFile

`write_file`: delete the old `.bak`, rename the file to it, open, write, and on failure
delete what was written and rename back; every call may fail and the power may go
between any two.  A content is the number of the write it came with.  `kept` is the
last content that was whole; `spoilt` that a write began over what a cut had broken.

### Settings

All three setters read `settings.json`, change one entry and rewrite the file; it may
not open, or the write may stop half-way. The read has a limit of 16 KB, the write has
none: `Read` of a longer, torn or missing file is empty, and so is a reading that fails
(`Readings`); a button reads the file once more than its setter. `chosen` is what every
setter that reported success has asked for, `outgrown` that the file has been torn,
longer than is read, or rewritten unread. `Pressed`, `Options`, `Given` and `Label` are
the Screen button: where it goes next, what it offers, what the app gets and what is
shown, over every listing of sizes.

### Glob

One action per branch of the loop, for every pattern and name; `Matches` is the
reference definition: some way to lay every character of the pattern over the name.

## 3. Runs

Twelve configurations.  State counts are distinct states.

| run | bounds | what it shows |
| --- | --- | --- |
| `MCLauncher_safety` | two apps, one of the network, `MaxDepth` 2, one argument, toggle and launch button, no helper; 2.7 M | `ImagesOwned`, `LvglRests`; `ReportedClosedIsClosed`, `CloseStaysClosed`; and `Navigates`: the launcher implements `Navigation` |
| `MCLauncher_live` | one app, `MaxDepth` 1, one helper task, autostart, fair; 0.3 M | `ArgOnlyByHandoff` with hand-offs accepted after the app's end; `CloseEnds`, `HandoffHappens` |
| `MCServices` | ten parts, see below; 0.2 M | *TLS* `OneOwner`, `TransferOnLive`, `HandleReachesItsSession`, `LeftOpenIsFreed`; *sockets* `NothingLeaks`, `OnlyOwnClosed` with one calling task; *tasks* `DeletedAsMade`; *MIDI* `StreamWhole`, `FreedIsBack`; *sticks* `EjectedStaysUnmounted`; both `UsbGoesOn`; *keys* `KeysOfThisRun`; *remote files* `LastContentKept`; *settings* `SettingsKept`, `EveryChoiceComes`; *patterns* `SearchIsRight`; and `TypesOK` |
| `MCStore` | two requests; rough: two pages and a folder; apps: a page, a folder, an app; steady: two pages, fair; 0.7 M | `ListingsOfSelection`; on the steady device `SettlesWhenSteady`, `ListingsWhenSteady`, `LoadingGoesWhenSteady` (`StoreSettles`, `ListingsComeAfterApp` and `LoadingGoes` of `Store`) |
| `MCAppFiles` | two data files; three kinds of card: rough, with one kind of mishap in a behaviour; quiet, with none; small, with room for one record in the manifest; downloads fail on all; 3.2 M | `NoBrokenFile`, `AppSurvives`, `AppReturns`, `OwnDataStays`, `DownloadsRecorded`, `StartsWithData` |
| `AppFiles_NoBrokenFile` | one data file, a launch during an install | violated: see section 5 |
| `ScreenStream` | two screenshots, two thumbnails, ring and packet of one sample, any number of file requests and clients, fair; 1.1 M | `PicturesOwned`, `ShotIsFresh`, `FrameWhole`, `SoundInRing`, `OthersTaken` |
| `ScreenStream_RequestsTaken` | one screenshot, no thumbnails, fair | violated: see section 5 |
| `AppSockets_NothingLeaks` | two slots, two calling tasks | violated: see section 5 |
| `AppTasks_MatchingDelete` | one entry, two addresses, two creators | violated: see section 5 |
| `Keys_NoMenuKeys` | three keys, two launches | violated: see section 5 |
| `Settings_NothingForgotten` | as in `MCServices`, no read or write fails | violated: see section 5 |

Why the bounds are enough.

* *Launcher.*  A step looks at one app, the next one and the top of the stack, so two
  apps and a stack of two show every shape of chain, full and overfull requests
  included.  A helper task multiplies the states by its place in `app_open`, so it is
  in the run with one app and depth one, where the late hand-off still meets an
  empty, a full and a finished chain.  The depth and the sets of apps, arguments and
  helpers are arbitrary in the proofs of the invariants.
* *TLS: two slots, two connects, main and a helper, `GenMod` 2.*  The code's table has
  four slots; two show a slot that is busy and one that is free, and two connects on
  them use a slot again under a late connect task.  `GenMod` is 2^16 in the code;
  within `MaxConnects` numbers do not repeat, which is the condition under which
  `HandleReachesItsSession` is claimed.
* *Sockets: two slots, three descriptors, one calling task.*  More descriptors than
  slots, so that the table is full while the firmware and the app take numbers from
  each other.  A second calling task breaks `NothingLeaks` (section 5).
* *Tasks: two entries, three addresses, two creators.*  The registry is full with one
  more task to make, a search goes past an entry, and an address is used again.
* *MIDI: `RxSize` 4, three messages of one to three bytes; `TxMax` 2, `OutMax` 1, two
  writers, four writes.*  The ring wraps, overflows and is reset by a second
  device; the queue is full, and one packet is left when a transfer comes back.
* *Sticks: three.*  One is pulled, one comes in its place, and a third comes while the
  report of the second is acted on.
* *Keys: `QueueSize` 3 (two events), two taps (four events), two launches.*  The
  ring overflows twice and wraps, and a tap can meet the launch after the next.
* *Remote files: four writes, two power cuts.*  A cut during a write, one during the
  next, and a write over what they left.
* *Settings: two apps, one game, four sizes, of which the panel shows three and three
  are standard, `MaxFields` 3 of 5 possible entries.*  A size can be custom,
  recommended, not fitting or the panel's own, and the file outgrows its limit while
  an app and a game are set.
* *Patterns: up to four characters of A, b, `*`, `?`; names up to three of a, b.*  Two
  `*` with a letter behind each, the shortest pattern for which going back to the last
  `*` could be wrong.
* *Store.*  Two pages and a folder are the kinds of source between which a late answer
  can be mistaken, and two requests are what it takes to overtake one.
* *AppFiles.*  Two tasks meet on one file at a time; a second data file adds the order
  of several downloads and of manifest records, and one record more than the small card's
  manifest may have.  The proofs have any number of files and mishaps, and any limit.
* *ScreenStream.*  The second screenshot is asked for while the first is given up on;
  a second thumbnail can overwrite the first.  A ring of one sample and a packet of
  one overflow at once.  `Width` is larger than twice the ring, as `size_t` is.

`CHECK_DEADLOCK FALSE` is given where bounded connects, writes, requests or launches
let the system come to rest: `MCServices`, `MCStore` and `Keys_NoMenuKeys`.

### Fairness

| run or part | fair | why |
| --- | --- | --- |
| `MCLauncher_live` | both halves of `loop()`, the load task, the steps of `app_open`, and the return of an app that sees a quit | ESPHome calls `loop()` for ever; the HTTP client and the look-up have timeouts; an app that polls its buttons sees the quit combination. An app never asked to close need not end |
| TLS | connect tasks, running calls, the loader's clean-up | they are scheduled and have timeouts; the app need not exit, so the property starts when it is gone |
| MIDI | the client task, with strong fairness for the report that a device is gone and for the callback of an OUT transfer; begun writes; the completion of an OUT transfer by the device | the client task runs for ever and handles its events in the order they come, so that none waits for ever behind others; the lock is held only across a submit. Nobody has to write, plug or unplug |
| sticks | a pass of `loop()`, the driver's reports | both tasks run for ever; the user has to do nothing |
| `MCStore`, steady | `loop()`, the three tasks | as above; nobody has to ask, and no app has to end |
| `ScreenStream` | the stream task, loop steps already begun, calls already inside the mutex | priority 6, above the apps' tasks; sends and waits have timeouts. No client has to come or stay |

There is no fairness for users, clients, the network or the power.

## 4. Proofs

Eight modules hold TLAPS proofs, for every value of the constants that satisfies the
named assumptions of the modules they are about (`ChainAssumption`,
`LauncherAssumption`, `FilesAssumption`, `StreamAssumption`, `SocketsAssumption` and so
on; TLC evaluates them in the runs).

| module | inductive invariant | theorems |
| --- | --- | --- |
| `LauncherProofs` | `IInv` = `TypeOK`, `DepthBound`, `ImagesOwned`, `Consistent`, `LvglRests`; with it `MenuTouch`, `QueueInv`; and, for calls in time, `InTimeInv` | `TypeCorrect`, `DepthBounded`, `ImagesAreOwned`, `LvglIsAtRest`, `MenuTakesTouchUnlessStartFails`, `ArgumentsAreHandedOver`, `CloseIsSticky`; `ReportsOnlyItsClose`, `ClosedStaysClosed`, `ImplementsNavigation`, each also as `...InTime` |
| `AppServicesProofs` | TLS: `IInv` = `TypeOK`, `CallsOK`, `JobsOK`, `StartsOK`, `OwnersOK`, `SlotsOK`, `HandlesOK` | `TypeCorrect`, `ConnectionsHaveOneOwner`, `TransfersOnLive`, `HandlesReachTheirSession` |
| | tasks: `TasksInv` = `TasksTypeOK`, `CallNames`, `CallHas`, `HandsDistinct`, `EntriesDistinct`, `MismatchedAreLost`, `DeletedAsMade` | `TasksTypeCorrect`, `TasksDeletedAsMade` |
| | sockets: `Ranges`; and, one call at a time, `OrderlyInv` = `Ranges`, `LoopPlaces`, `TableOwned`, `TableDistinct`, `CallFits`, `NothingLeaks`, `OnlyOwnClosed` | `SocketsTypeCorrect`; `NothingLeaksOneByOne`, `ClosesOnlyItsOwnOneByOne`, and for one caller `NothingLeaksAlone`, `ClosesOnlyItsOwn` |
| `StoreProofs` | `IInv` = `Steps`, `Flags`, `ListFits`, `CatalogTasks`, `InfoFits`, `InstallFits`, `ShownFits` | `TypeCorrect`, `ListsBelongToSelection` |
| `AppFilesProofs` | `IInv` = `TypeOK`, `Alone`, `TasksFit`; with it `Whole`, `Held`, `Back`, `DataComes`, `Ledger` | `TypeCorrect`, `OwnDataIsSafe`, `AppNeverLost`, `AppComesBack`; `NoBrokenFileApart`, `NoStartWithoutDataApart`, `EveryDownloadRecordedApart`, and for `~Overlap` `NoBrokenFileAlone`, `NoStartWithoutData`, `EveryDownloadRecorded` |
| `ScreenStreamProofs` | `IInv` = `TypeOK`, `PicturesOwned`, `HandOver`, `Freshness`, `Count`; and `Frames` | `TypeCorrect`, `PicturesAreOwned`, `ShotsAreFresh`, `FramesAreWhole`, `SoundStaysInRing` |
| `UsbProofs` | transfers `MidiIInv` = `MidiTypeOK`, `Closing`, `OutIsKnown`, `FreedIsBack`; ring `RingIInv` = `RingSound`, `ReadSound` and, unless `raced`, `Flows`, `Beyond`; sticks `MscIInv` = `InOrder`, `UpTo`, `Before`; keys `KeysIInv` = `QueueHolds`, `AllOf`, and `AtAppInv` | `FreedTransfersAreBack`, `MidiStreamIsWhole`, `EjectedIsLeftAlone`, `KeysReachTheirApp`, `NoMenuKeysUnlessLoading`, `UsbTypes` |
| `CardTextsProofs` | settings `Saved`; patterns `GlobIInv` = `OnTrack`, `SearchIsRight`; remote files `Placed` | `SettingsAreKept`, `EveryChoiceCanBeMade`, `GlobIsRight`, `LastContentIsKept`, `CardTypes` |
| `ServicesProofs` | none of its own | `ServicesCompose`, `ServicesTypeCorrect`, `ServicesKeepPromises` (`ServicesSafe`) |

*Launcher.* An image count depends on who may hold an image, so `ImagesOwned` needs
`Consistent`: no app means no load and no worker, and a load comes before a worker.
`DepthBound` needs only itself, because a request is counted when it is accepted (there
is room for its caller). `MenuTouch` says the shield is down whenever there is no
worker; it is kept by every step but `WorkerFails`, so that a worker that cannot be
created is the only way to lose the menu's touch (section 5). `QueueInv` says that a
queued argument comes with a queued hand-off and that a hand-off is queued only with no
app there; it is why a launch from the menu cannot inherit an argument, with any number
of helper tasks.

The last three theorems are for `InTimeSpec`: every call of `app_open` ends before its
app does (`InTime`), and the autostart timer does not fire under an app
(`TimerInMenu`).  Any number of helper tasks may call at once.  An app's late hand-off or
the timer's launch breaks each of the three (section 5).  `InTimeInv` adds what an
accepted request has left in the chain (`OpenFits`), what may be queued (`QueueFits`),
and whose a close or a button still held is (`CloseFits`, `ButtonFits`).  Without helper
tasks and autostart both hypotheses hold (`AloneInTime`): the main task cannot return
from inside its own call.  `ImplementsNavigation` takes the steps of the launcher one by
one to a step of `Navigation` or a stutter.

*AppTls.* A connection is in exactly one hand, so the proof follows the hands: what a
call at each step has taken (`CallsOK`), a connect task (`JobsOK`) or one about to be
created (`StartsOK`), a slot (`SlotsOK`: it is marked exactly while a connect task has
it, is about to, or was never created), and that no two of them hold one (`OwnersOK`).
`HandlesOK` says no two connects share a handle, which holds while `MaxConnects <=
GenMod`.

*Store.*  `ListFits` has the property itself, and `InfoFits` that a fetch of listings
with the current generation is one for the entries shown; a late one has an older
generation and is dropped.

*AppFiles.* `Alone` says who can be at work together and `TasksFit` which file a task
can have at which step; they make `TypeOK` inductive and `OwnDataIsSafe` a matter of one
step. `AppNeverLost` needs `Held`: the old copy stays as a backup for as long as the new
one may fail. `AppComesBack` adds `Back`: the app is in its place, or the install task
has it put aside and has not yet come past the step that puts it back; only a power cut
or a rename back that fails ends that. All this holds with overlapping launches, any
failures, a full card and power cuts anywhere.

Three promises two tasks at once can break. Each is proved with overlapping launches as
long as the two do not meet in one place, and that they never do without overlapping
launches is a case of it (`OneTask`: one of the two tasks is idle). `NoBrokenFileApart`
forbids that both have the same `.part` (`Meet`); the invariant `Whole` strengthens the
property to backups and `.part` files: what a task has verified is what its `.part`
holds, since no other has it. `NoStartWithoutDataApart` is about apps that are streamed
and have a list; it forbids an upload to the app while a launch of it is at work
(`UploadMeets`); it follows the list of the load task (`DataComes`): what is still
missing is on it, and it reaches the image with nothing missing, for an install beside
it takes no data file away and an uninstall keeps the loop busy.
`EveryDownloadRecordedApart` forbids that both have read the manifest and are about to
write it (`RecordMeet`). It has the manifest as a ledger (`Ledger`): what a task has
read of it covers what it is about to write over, and a fetched file is in it, about to
be recorded, or on the list of an uninstall. Of the mishaps only the backup that stays
leaves it intact (`Kept`).

*ScreenStream.*  `HandOver` describes who has the menu's picture at each step of the
exchange, the only reason why two tasks can share the pointer without a lock.
`Freshness` orders pictures and requests.  `Count` says what a submit under way may
find after a reset that did not take its mutex.

*AppSockets.*  `SocketsTypeCorrect` has any callers, and so have the others as long as no
two calls overlap (`OneCall`), the loop's clean-up being one of them: then a number in
the table is open and the app's unless the one call is just between its close and its
clearing (`TableOwned`, `CallFits`), and in the table once (`TableDistinct`), or else the
search that goes on behind a close would strike again.  `LoopPlaces` has the clean-up
begin when every call has returned.  An app with one calling task is a case
(`OneTaskOneCall`); two that call at once break `NothingLeaks` (section 5).

*AppTasks.*  A task is in one hand, of a call or of the app (`HandsDistinct`), and
`CallHas` says for each step whether the one in hand is in the registry: a search to
forget a large one has not yet come past its entry.  Both except the tasks of `strayed`
one by one, so that a task whose entry nobody else has written goes by its own function
whatever happened to others.  Any number of creators.

*UsbMidi, MidiRing.* `Closing`: between the check and the freeing no transfer starts,
for `connected_` is off; `OutIsKnown`: a transfer that is out is in `out_busy_` or in
the hands of the writer that is between its submit and the store, so that a test that
finds nothing out is right unless it came in that gap. In the ring a place is a number
modulo the size, so the proof first states what the size's arithmetic does (`DistIs`,
`NthIs`, `Passed`); `Flows` then says that the bytes from the reader's last one on
follow each other up to what is published, and `Beyond` the same of the bytes of a
message that are written but not yet published. The stores of the two indices move the
border between them. Any size of the ring.

*Keys.*  `QueueHolds` relates the ring to the list of pending events through every
overflow, which moves both ends, and `AllOf` says they are of this run until one that
was tested under another goes in.  `NoMenuKeysUnlessLoading` adds that no key waits for
the queue while the app is being loaded (`WaitsWhileLoading`): the queue is empty when
the loading begins, and what is put into it later was tested with the app running
(`AtAppInv`).

*UsbMsc.*  The numbers of sticks grow, and the driver reports them in that order
(`InOrder`, `UpTo`).  What the component has had, an installed or mounted stick or the
one the user has unmounted, is older than every arrival still to be reported (`Before`)
and than the address a pass is about to install; so what a pass mounts is none of them.

*Settings.*  `Saved` has the property on the file as it is, not as it is read: whole and
short enough, or not there and empty.  `EveryChoiceCanBeMade` is about the button alone:
the choices of any listing are its sizes in their order, each once
(`LargestFirstIs`, a counting argument), "no setting" takes the place of the recommended
one (`OptionsAre`), and a press goes to the next place (`StopsAre`), so that as many
presses as there are places come past all of them.

*Glob.*  A character of a pattern lies on a stretch of the name, and `Over(p, n, i, j)`
says that the pattern from i on can be laid over the name from j on.  While the loop
runs, the question asked is the one from where it stands (`Here`), or, behind a `*`, the
one from that `*` on with this run or a longer one (`StillOpen`).  At the next `*` every
longer run of the earlier one is covered by a longer run of the new one (`OpenAtRun`),
which is why the loop need not go back further than to the last.

*RemoteFile.*  `Placed`: at each step of a write, where the last whole content is.

*ServicesProofs.*  A step of `ServicesTogether`, of any of the ten, is for each a step of
its own or a stutter (`StepsApart`), so that a behaviour of all is a behaviour of each
(`ServicesCompose`), and the theorems about each hold of all of them together, however
their steps interleave.  What TLC checks is a special case (`OneByOneIsTogether`).

For five of the six properties that section 5 finds violated a theorem says when they do
hold: `NoBrokenFileApart`, `NothingLeaksOneByOne`, `TasksDeletedAsMade`,
`NoMenuKeysUnlessLoading` and `SettingsAreKept`.  The sixth, `RequestsTaken`, is temporal;
`OthersTaken` says it of every request that does not come at that moment.

Only model-checked: what is temporal under fairness (`CloseEnds`, `HandoffHappens`,
`LeftOpenIsFreed`, `UsbGoesOn`, `SettlesWhenSteady`, `ListingsWhenSteady`,
`LoadingGoesWhenSteady`, `OthersTaken`), which is beyond the prover's reach. Every
safety property of the passing runs is stated by a theorem. `TypeOK` of `Launcher`,
`Store`, `AppFiles` and `ScreenStream`, `DepthBound` and `CloseSticky` are only proved.

## 5. Where code and documents disagree

Six runs are expected to find a violation.

* `AppFiles_NoBrokenFile`: a launch and an install may download the same data file to
  the same `.part` (`papp_loader.cpp:5883`).  Each hashes the bytes it received, and
  the file that is renamed is what both wrote.  `docs/esphome-store.md:166` says an
  interrupted download never leaves a broken file.
* `AppSockets_NothingLeaks`: two tasks of an app that open a socket at once both pass
  the test for a free slot (`papp_loader.cpp:3655`), and one socket is remembered
  nowhere.  The comment at 3641 says that a careless app cannot leak them past its exit.
* `AppTasks_MatchingDelete`: two tasks of an app that create tasks with large stacks at
  once may write one entry of the registry (`papp_loader.cpp:159`); the task that is
  overwritten is later deleted by the ordinary function, and its stack is lost.  The
  comment at 146 says such stacks must be deleted through the matching WithCaps API.
* `Keys_NoMenuKeys`: keys typed after the launch and while the app is still being
  downloaded are queued (`papp_loader.cpp:1265`) and read by it.  `papp_loader.h:269`
  says events are queued only while an app runs, so that keyboard input for the menu
  cannot leak into an app.
* `ScreenStream_RequestsTaken`: a screenshot asked for between the read of the request
  flags and the write of `stream_enabled_` (`papp_loader.cpp:2632`) is left with the
  stream off.  The comment at 2631 says that such a request waits for the next client.
* `Settings_NothingForgotten`: a settings file of more than 16 KB is written but not
  read (`papp_store.cpp:450`); the next setting saved after that is the only one left.
  `docs/esphome-store.md:127` says other entries are kept when the store rewrites it.

Further differences met while modelling.  The models follow the code; none of these
is excluded by a property, and the properties that come close say so.

* The resume argument is taken when the hand-off is asked for (`papp_loader.cpp:4370`);
  `docs/building.md:160` promises the one last passed to `app_set_resume_arg`.
* When the worker of an app cannot be created, `start_loaded_app_`
  (`papp_loader.cpp:1247`) leaves the touch shield up and LVGL's inputs off: the launcher
  takes no touch until another app has run.  No text says what should hold there;
  `MenuTakesTouchUnlessStartFails` says that this is the only way to it.
* A hand-off may be accepted under a close that came during the look-up
  (`papp_loader.cpp:4369`), and is then reported as closed (2134).
* `toggle_wait_release_` is written and never read (846, 3225): a toggle button still
  held closes the app that starts next.
* The autostart timer queues its launch under a running app (604).
* After a load that failed, `global_close_requested_` stays set (915) and cancels
  later installs at their first chunk, until the next launch.
* Offline, `loop()` drops deferred listings (797) and leaves "Loading" (814).
* The badge of an app uninstalled while listings load comes back
  (`papp_store.cpp:379`).
* The copy of an app on the card is started without a look at its data
  (`papp_loader.cpp:1154`), also after an install whose data could not be fetched;
  `docs/esphome-store.md:166` says the app does not start if a download fails.
  `StartsWithData` is about streamed apps.
* An uninstall with data deletes a file of the recorded size, whose ever it is
  (`papp_store.cpp:766`); the comment at 764 says that a file the user replaced is
  theirs.  `OwnDataStays` excepts that case.
* A manifest over 16 KB counts as empty (729), and one that lists a file that could not
  be deleted goes all the same (858, 875): the store then no longer knows what it
  fetched.  `DownloadsRecorded` excepts both.
* Two tasks that record a download can lose one record of the manifest
  (`papp_store.cpp:729`); an update that stops after the app was replaced leaves the
  new app under the old listing (1098); on a full card the listing is missing (1103).
* A task of an app that is deleted between marking a TLS slot and creating the connect
  task (`papp_loader.cpp:4055`, 4058) strands the slot for ever.  When every slot is
  stranded no app gets TLS until a restart; the comment at 4205 has it that deleting
  a task inside a TLS call costs only its sessions, "so later apps still get TLS".
  `OneOwner` holds all the same: a stranded slot has no connection.
* A task with a large stack that deletes itself, `task_delete(NULL)`, goes by the
  ordinary function (5048-5055): its stack is lost and its entry stays, so that the
  registry fills up. No app in `src/ports` does so. `DeletedAsMade` excepts such a task.
* A settings file that cannot be opened or read to its end at the moment counts as
  missing (`papp_store.cpp:86-102`, 450), and the setter replaces it by a new one.
  `SettingsKept` excepts that.
* `docs/esp-bridge.md:120` says the menu cannot be captured; the code sends it.
* `out_busy_` is read without `tx_lock_` before a MIDI device is freed
  (`usb_midi.cpp:193`): a transfer that a writer has submitted and not yet stored is
  freed under the host, while the comment at 190 says that no transfer is still with the
  host stack.  `FreedIsBack` excepts exactly that moment.
* Packets behind an OUT transfer whose next submit fails wait for the next write (324,
  331), which `UsbGoesOn` excepts; an IN transfer that cannot be submitted again is never
  tried later (221).  The ring is reset under a read that is on (165): what that read
  returns may be mixed.
* A stick that is reported between the read and the clearing of the one address
  (`usb_msc.cpp:53`) is forgotten until it is plugged in again.
* The Screen button shows a saved size that no longer fits the panel
  (`papp_store.cpp:1734`); the app is given the recommended one
  (`papp_loader.cpp:708`).

## 6. What the models leave out

* *Launcher*: contents of images, formatting of reports, text of the pages.
* *Store*: what listings say; two sources that list the same app.
* *AppFiles*: a second app, folders, settings; several data roots. The runs have
  installs and launches one after the other where the properties need it (`Overlap`);
  the theorems let them overlap, but for the places section 4 names.
* *ScreenStream*: pixels, positions in the ring, the path and bytes of a file.
* *AppTasks*: stacks, priorities and cores; a handle deleted twice.
* *AppTls, AppSockets*: bytes, certificates, errors of the transfer, addresses; a wait
  for the mutex that runs out is a call without effect.
* *MidiRing, UsbMidi*: what the bytes of a packet are and how long a message of each
  kind is; a queue entry is one packet.
* *UsbMsc*: what is on the stick and which task reads it.
* *Keys*: mouse movement, touch points and key codes.
* *RemoteFile, Settings*: names, sizes and bytes; an edit of the settings by hand, and
  a power cut inside one write other than as a torn file.
* *Glob*: how a required path is taken apart and its folder is read.

Components without a module, and why, are listed in `PROJECT.json`: pure
computations (versions, memory plan, paths, canvas geometry, data lists) have no
interleaving and are tested on the host; sound output, archives, image relocation,
reports and pages are sequential work on data; tools are batch programs; apps, ports
and vendored libraries are users of, or below, what is modelled.  They are by far the
largest part of the repository's lines.

## 7. Plan

Order: what a user loses first comes first.

1. *Done.*  The launcher with its refinement, the store, the files on the card, the
   stream, the services of apps, USB, settings and remote files, and the proofs of
   section 4.
2. *Next modules.*  The pure algorithms as operators against reference definitions, as
   `Glob` is: version choice (`papp_handoff.h:115`), memory plan (`papp_memory.h`), path
   rules (`papp_files.h`), data lists (`papp_data.h`), canvas geometry
   (`papp_canvas.h`).  `Bridge`: a job, the network, the serial port and their limits.
3. *Proofs.*  *Done* for every safety property of the runs.  Where two tasks at once
   break one, the theorem says where they must not meet.  The liveness properties stay
   with TLC.
4. *Compositions.*  `Launcher` composes `HandoffChain`; `AppFiles` takes launch and
   close of the launcher as its environment.  To come: sockets, TLS and the end of an
   app in one module, since the loader's clean-up calls both.
