# Verification of teslalog in TLA+

teslalog records one Tesla without keeping it awake: a daemon polls Tesla's
Owner API, decides from the answers what the car is doing, and writes drives,
charges, states and battery readings to a local SQLite database. Optionally a
background worker replicates that database to a PostgreSQL receiver and prunes
what the receiver has acknowledged. A viewer in the browser shows the data, from
the receiver's query server, from snapshots of the daemon's portal or from a
file, and lets its user enter places, prices and costs. This directory holds
TLA+ models of the parts whose correctness depends on order, time and failure,
the TLC configurations that check them, and machine-checked proofs.

    tlc  -config logger_safety.cfg Logger.tla
    tlc  -config repl_safety.cfg MCReplication.tla
    tlc  -config viewer.cfg Viewer.tla
    tlc  -config screens.cfg MCScreens.tla
    tlc  -config edits.cfg MCCostEdits.tla
    tlapm Logger_proofs.tla
    tlapm Replication_proofs.tla
    tlapm Viewer_proofs.tla
    tlapm Pages_proofs.tla
    tlapm Screens_proofs.tla
    tlapm CostEdits_proofs.tla

## 1. The system

| Component | Source | State | Operations | Hard part |
|---|---|---|---|---|
| Vehicle state machine | `internal/vehicle/state_machine.go` | state, idle/driving ages, drive/charge/install flags, last snapshot, gap flag | `OnSummary`, `OnUnreachable`, `OnBackOnline`, `OnVehicleData`, `Suspend`, `MarkUnreachable`, `Resume` | timeouts measured across unobserved gaps; one snapshot can end, change and start |
| Runner | `internal/runner/runner.go` | machine, ids of the rows it writes to, stream | `checkSummary`, `pollVehicleData`, `persist`, `drainStream`, resume at start | the process can die, or a call fail, between any two storage calls of a batch |
| Storage | `internal/storage` | tables; triggers that fill the outbox | open/append/close rows, discard trivial drives, reports | rows left open; derived values |
| Replication | `internal/cloudsync/{bootstrap,incremental,retention,scheduler}.go` | outbox `cloud_sync_changes`, bootstrap confirmation, a marker at the receiver | bootstrap, batches, recover, prune, clean up | writes go on between any two steps; lost answers; crashes; deletions |
| Replication controller | `internal/cloudsync/controller.go` | settings, running worker | `Configure` | overlapping workers, change of receiver |
| Owner API client | `internal/tesla/{ownerapi,auth}.go` | token set, token file | requests, refresh | rotating refresh token, several processes |
| Stream client | `internal/tesla/stream.go` | socket, buffer of 32 | connect, read | replayed samples, reconnects |
| Portal | `internal/portal` | snapshot cache, log ring | download, refresh | one build shared by many requests; file replaced under a reader |
| Backups | `internal/backup` | files | run, prune, upload | wall-clock schedule, DST |
| Receiver | `internal/dbserver`, `internal/pgserver` | PostgreSQL | execute a statement | requests that outlive their client |
| Viewer: connection | `frontend/src/App.tsx`, `liveConnection.ts`, `remoteBackend.ts` | database, backend, current load, badge and counters | open, cancel, poll, probe, reload after an edit | many asynchronous calls may install data, one should |
| Viewer: building the data | `frontend/src/database.ts` | queue of queries, checklist | `buildLoaded`, `runQueued` | a bounded pool; one failing section |
| Viewer: dashboards | `SpecialDashboards.tsx`, `GenericDashboard.tsx` | rows or error per panel | ask, cancel, answer | late answers of earlier settings |
| Viewer: time range | `viewSettings.ts`, `TimeRangePicker.tsx` | range, draft, recent ranges | quick, typed, clicked, presets | one range in two languages, instants and SQL texts |
| Viewer: tables | `App.tsx`, `useRowSelection.ts` | selection, anchor, filter, sort | click, shift-click, header box, Escape | acting on what is shown only |
| Viewer: edits | `GeofenceSettings.tsx`, `useSuperchargerImport.tsx`, `superchargerCsv.ts`, `SpecialDashboards.tsx` | form, plan, undo | save, remove, apply, undo, edit a cost | several statements, no transaction, lost answers |
| Viewer: TeslaMate dump | `teslamateImport.ts` | rows made so far, who waits for which position | one line at a time | references to rows that come later |
| Geocoding, configuration, web UI server, command line, TeslaMate import and sync, charts and maps, dashboards | see `PROJECT.json` | | | |

How they interact. The runner is one goroutine: it calls the client, feeds the
answer to the machine and hands the events the machine returns to `persist`,
which calls storage, once per row. The replication worker is another goroutine
with a connection of its own to the same database; it sees the runner only
through committed rows (`SafeToSync` reads `drives`, `charging_sessions` and
`states`) and through the outbox that triggers fill in the writer's own
transaction. The settings page replaces the worker from HTTP handlers. A
process that dies is started again (`systemd/teslalog.service`) and resumes
from open rows (runner) and from changes left `syncing` (worker).

The viewer is one page with one shared state. A load runs its queries at the
query server, or downloads a snapshot from the portal and runs them in the
browser; while the portal is the source a timer polls its counters and
downloads again when they moved, and while the query server is, a probe asks for
the newest row. Both, the user's next choice and the reloads after an edit run
into each other at every `await`. The portal copies its database once for all
who ask meanwhile. The forms write to the query server with one request per
statement, from as many tabs as are open.

What makes each part correct, in one line each:

* machine and runner - the car is polled only when known to be awake; a drive
  or charge is one row, opened once, closed once, never cut by a dead zone,
  never merged with a later one, and owned again after a restart;
* storage - the drives table is a log of trips, one at a time;
* replication - no committed row is missed, the receiver's copy of a row never
  goes backwards, pruning never costs the archive a row, and what is pending
  is acknowledged in the end;
* token client - at most one refresh per refresh token, and a valid token is
  never lost (planned);
* snapshot cache - a download that did not wait for another's build has every
  trip that was closed when it was asked for;
* viewer, connection - what was opened last stays, queries go where the data
  came from, the page is never covered by a checklist nobody can take down, and
  a polled portal is caught up with;
* viewer, loading and dashboards - every load ends, and nothing is shown that
  answers another question;
* viewer, range and tables - the lists and the queries show the same range, and
  a click changes only what is seen;
* viewer, edits - what "Saved" and "undone" say is what the tables hold, and no
  session is billed twice;
* viewer, dump - the conversion joins rows as the dump's own keys do.

`PROJECT.json` lists every hazard at its line and the properties that would
catch it.

## 2. Modules

| Module | Models |
|---|---|
| `VehicleMachine` | the methods of `vehicle.Machine`, as pure operators |
| `Logger` | the loop, `persist` call by call, the tables, crashes, failing calls; extends `VehicleMachine` |
| `TripLog` | abstract: what the drives table promises; `Logger` implements it |
| `VehicleMachine_proofs`, `Logger_proofs` | lemmas on the operators; the invariants of `Logger`, and that it implements `TripLog` |
| `Replication` | outbox, bootstrap, incremental sync, retention, recovery, change of receiver |
| `Mirror` | abstract: what a receiver's copy promises; `Replication` implements it |
| `Replication_proofs` | the invariants of `Replication`, and that it implements `Mirror` |
| `MCReplication` | gives rows their tables for TLC |
| `SnapshotCache` | the portal's snapshot file: one build for all who wait, signature, background refresh |
| `Viewer` | loads, cancellations, polls, probe and reloads of the page; extends `SnapshotCache` |
| `Viewer_proofs` | the invariants of `SnapshotCache` and `Viewer` |
| `Loader` | `buildLoaded` and the pool of queries, with its checklist |
| `RowSelection` | filter, sort and selection of the tables |
| `PanelQueries` | requests and answers of the pages of panels |
| `TimeRange` | expressions, the picker, the window of the lists and the bounds of the queries |
| `DumpImport` | the one-pass conversion of a TeslaMate dump |
| `Screens` | one page after another: composes the five modules above |
| `SuperchargerPlan` | from the rows of Tesla's export to the plan of an import, as operators |
| `CostEdits` | the geofence form, the import and its undo, the cost editor; extends `SuperchargerPlan` |
| `MCScreens`, `MCTimeRange`, `MCCostEdits` | small instances for TLC |
| `DumpImport_proofs`, `Screens_proofs` | the conversion and the selection |
| `Pages_proofs` | the loader, the panels, the time range, and the types of all pages |
| `CostEdits_proofs` | the links of a place, the undo, the sums of a plan, the types |

Operators named `...Mut...` are variants of the definition that follows them,
with a plausible bug; they are used by nothing, and each property fails once
its variant (`PROJECT.json`, "mutants") takes the place of the original.

**VehicleMachine and Logger.** A method that returns events and changes the
machine is a pair of operators (`OnSummary`, `OnSummaryEvents`). Timestamps are
only ever compared with thresholds, so the model keeps ages, saturated at the
threshold; `Never` is the zero time. A snapshot is reduced to the four things
the machine looks at: gear, charging, ideal range, version being installed. In
`Logger`, `m` is the machine, `pc` says where the loop is, `todo` holds the
events `persist` still has to write and `done` the storage calls already made
for the first of them; `driveID`, `chargeID` are the fields of `loopState`, and
`drives`, `sessions`, `stateRow`, `updates` are the tables. Each storage call is
an action: it is one transaction in the code, and between two of them the
process may die (`Crash`) or the call may fail (`StoreFails`, which drops the
rest of the batch and, in a poll, falls back to a summary check, as the error
returns do). `Start` reads the rows still open, as `Run` does. `heard` and
`quiet` are history: they record what the last summary check said and how long
no poll has seen the car driving.

**Replication.** A row's content is its version, 0 before it exists, `Gone` once
deleted; the outbox is a sequence of changes with their state; `recv` is what
each receiver holds. One action is one local transaction or one request. The
log writes between any two (`Write`). A bootstrap reads a table by one SELECT
and sends its rows in any order (four goroutines). `MakeStatement` and `Send`
are separate, because the row may change after it was read. `PassFails` is every
way a pass can end early: a request that fails (one that took effect and lost
its answer is the request followed by `PassFails`), `SafeToSync` saying no, a
failing local call. `Configure` replaces the worker; `ReturnLeftover` is the
cancelled worker's deferred return of its batch, which nothing orders with what
the new worker does. Foreign keys are not modelled: a statement the receiver
rejects is a request that fails.

**SnapshotCache and Viewer.** Of the portal's database two counters are kept,
`trips` (closed drives and charges, the signature) and `points` (positions, only
in the counters the viewer polls); a copy is the pair it was made of. A request
is `own` (it builds), `waiting` (for a build in flight) or `woken` (that one is
over, and it takes whatever file there is then), until it is `sending`: it has
the path of the newest file. When a build replaces that file, a request that has
opened it goes on sending it (`holding`) and one that has not fails (`gone`);
which of the two is left open. So an older file can arrive after a newer one. In
`Viewer` a function of
`App.tsx` becomes one action per stretch between two `await`s: `loads[i].stage`,
`poll[p].stage`, `tick.stage` and `reload[r].stage` say behind which one it
waits, `current` is `loadController`, and a value that a closure holds (the
counters a poll read, the rows a reload got) is kept in its record. A state
update and the clean-up of the effects that depend on it are one step. `hit` in
`liveMeta` is history: whether the snapshot shown came without waiting for
another's build.

**Loader, PanelQueries, RowSelection, TimeRange, Screens.** The pool of queries
is its queue and the slots in use; sections are numbers. A version in
`PanelQueries` is a database with settings; an answer is the version and query
it is for, so a panel that shows another's answer can be seen. Rows are numbers,
a filter a set, a sort key an order. `TimeRange` counts time in slots of a day
and keeps the viewer's UTC offset, since the lists compare instants and the
queries compare texts. `Screens` mounts one component at a time, as
`DashboardContent` does; what one page takes from another - the version to
show, the rows that pass - is an input, so that only the mounted component has
a state. That lets one run check all of them without multiplying their states,
and it is faithful where unmounting forgets; the time range, which outlives the
picker in the program, is the exception.

**SuperchargerPlan and CostEdits.** A row of the export has an invoice, a start
in units of five minutes, a VIN, a total and whether it can be read. Each
statement of a form is an action; it has its effect and its answer, its effect
and no answer, or neither. Rows of one invoice are a session, and rows without
one that have start and site in common (`KeyOf`). What the forms read at one
moment and use at a later one (`plan`, `previous`, the id of a deleted place) is
kept. A file is under review while `parsed` is not 0, also when all its sessions
are skipped and the plan is empty: the other car can still be chosen, and no
undo is offered. A write in flight (`writing`) disables reading a file, applying
and undoing, but not the choice of the car nor closing the plan. Places are
numbered and a number is never used again, as in the receiver's table. `shown`
is what the page loaded; `ReloadCharges` is the reload after an edit.

**DumpImport.** The dump is made up while it is read: any of the nine sections
may be missing, rows come in any order, and the file may end at any line. `dump`
is what was read, the other variables are the tables being made and the maps
the code keeps beside them. The sections that are there come in the order in
which pg_dump writes them, which is that of their names. `processLine` takes
them in any order; with `positions` before `drives` or `charging_processes` no
row would wait for a position yet and these joins would stay empty, so
`JoinsResolved` is about pg_dump's order only.

## 3. Runs

| Run | Bounds | Checks |
|---|---|---|
| `logger_safety` | 2 drives, 2 sessions, 2 process deaths, no failing call | `DriveRowOwned`, `ChargeRowHeld`, `SyncOnlyWhenParked`, `AsleepClosesRows`, refinement `TripsInOrder`, action property `NoPrematureSplit` |
| `logger_faults` | 2 drives, 1 session, 1 death and 1 failing call, thresholds of 1 | `TypeOK`, `SleepRespected`, `UpdateNotSuspended`, `HeldRowsOpen` |
| `logger_live` | 2 drives, 2 sessions, no death, no failing call | `SessionRowOwned`, liveness `OfflineDriveCloses`, `IdleCarLeftAlone` |
| `repl_safety` | 3 rows in 2 tables, 4 changes, 2 faults, 1 receiver, failing returns | `TypeOK`, `ArchiveKept`, refinement `CopyInOrder` |
| `repl_live` | 2 rows, 3 changes, 1 fault, 2 receivers, 1 reconfiguration | `NothingMissed`, `NoneStranded`, liveness `OutboxDrains`, `MirrorCatchesUp` |
| `viewer` | 3 loads, at most 1 superseded load still unwinding when another begins, 2 overlapping polls, 1 reload after an edit, 2 changes, or 1 and a failure | `TypeOK`, `LocalReadsLocal`, `LastChoiceShown`, `ChecklistIsCurrent`, `ServedFresh`, liveness `PollCatchesUp` |
| `edits` | 3 uses of the forms, 1 lost request, 2 files, 2 closed charges and an open one | `TypeOK`, `BilledOnce`, action properties `SavedMeansLinked`, `UndoRestores` |
| `screens` | see below | `TypeOK`, `JoinsResolved`, `EveryMinuteSampled`, `ChecklistHonest`, `IdleShowsWanted`, `OwnAnswers`, `ListsAndQueriesAgree`, action properties `HiddenUntouched`, `PickedInOrder`, liveness `LoadEnds` |
| `logger_restart`, `viewer_in_progress`, `import_undo`, `window_last_day` | | one statement each that the code does not keep (section 4) |

Why the bounds are enough for what they show. Two drives and two sessions are
the least with which a row can be merged into, or left beside, a later one; two
deaths let one hit the recovery of the other. `Ranges = {0, 1, 7}` with
`MinGain = 5` has an unreported range, a gain below and one above the
threshold; `DriveTimeout = 2` has an age strictly between zero and the
threshold. Two positions make a drive worth keeping, so trivial drives and kept
ones both occur. `logger_faults` has smaller thresholds and one session, because
a failing call beside a process death multiplies the states and its properties
compare no ages; all of them, and `NoPrematureSplit`, are proved for any number
of deaths and failing calls (section 5). A batch of two changes can be
interrupted in its middle; two versions per row let an old one race a new one;
three rows in two tables let a write fall between the copies of two tables and
of two rows, and leave a newest row that pruning has to spare.

`viewer`: three loads are one that is superseded, one that supersedes it and one
that follows (`MaxStale`: of those superseded, one may still be unwinding when the
next begins). Two polls that overlap read different counters when the portal's
database changes twice, get different files and install them in either order,
because a download goes on with the file it has opened; one change with one
failure (`MaxEvents`: two of either together) lets any step be missing while
counters, file and page disagree. About 970 000 states. The run may stop,
because the bounds leave the user nothing to do, so it does not look for
deadlocks. `edits`: a place, an edit of it and a retry, or an
import, an edit and a second import, take three uses. The first export has fees,
a duplicate, a refund, an unreadable row and two sites without an invoice that
start together; the second has two cars, of which the one chosen first has
nothing to bill to a charge. `screens`: two cars,
two positions and two minutes, rows of drives and charges that share a position,
have none or a dangling one; more sections than the pool has slots; three rows
and two orders; two panels of one and two queries over three versions; two days
of two slots with an offset of one, which puts a UTC midnight inside a day.

Some properties hold only without failing storage calls, or only for a process
that does not die; the run says which, and section 4 why.

**Fairness.** `Logger`: the loop takes the steps it can take, because its
requests have timeouts and its store is local; a dead process is started; time
goes on. Of the API only this is assumed: a summary answer that could go on
being given is processed again. Nothing is assumed of polls. `Replication`: the
worker's loop goes on and a dead process is started; failures are bounded, that
is, in the end the receiver is reachable, the car is parked and statements are
accepted. `Viewer`: the browser's timers fire, builds end, who waited for one
is woken (`Wakes`: its channel is closed), and a request that was sent is
answered or refused (`fetch` does one or the other); nothing is assumed of the
user or of the databases. `PollCatchesUp` says of what is shown, not only of the
counters, that it catches up: once nothing changes any more, the page of a
polled portal has the portal's counters and every trip that is closed. It
excepts a snapshot that came of waiting for another's build (`hit` is false):
that file may have been begun before the counters moved, is taken for them all
the same, and no poll asks again. `Screens`: a query that runs is answered or
given up, and the code that awaits it goes on. The queries of a load have time
limits (`database.ts`); those of a page have none (`runRemoteQueries`), so for
them this rests on the browser giving a request up.

## 4. Where the code differs from its words

Four are runs that TLC must find violated.

| Run | What happens |
|---|---|
| `logger_restart` | `Resume` leaves `lastDrivingAt` zero, and `OnUnreachable` wants it set: a daemon restarted while the car is offline mid-drive keeps the drive open as long as the car stays offline. `docs/reference.md`: "rather than left open forever". |
| `viewer_in_progress` | The portal's signature counts closed drives and charges, the viewer's counters also positions: a poll during a drive gets the cached file and takes it for the new counters. `liveConnection.ts`: `latestPositionId` "is what makes an in-progress drive visible without waiting for it to end". |
| `window_last_day` | The queries compare `...T...` texts with `... ...` texts, so the UTC day in which a custom range ends is missing from them, though not from the lists. `viewSettings.ts`: "Both ends are inclusive". |
| `import_undo` | The answer of the import's UPDATE, or its read-back, is lost: the costs are written, no undo is offered, and the message says nothing was changed. `useSuperchargerImport.tsx`: "with an undo that restores the previous costs exactly". |

Met while modelling, and left as behaviour of the models, without a run:

* Logger. A failed `OpenState` drops the `DriveStart` behind it; the tables look
  parked during the whole drive, which is not recorded, and replication runs.
  Polls that fail during an observed charge and succeed after the gap give a
  second, synthesized session for the same energy.
* Replication. Link A, link B, link A again: what B acknowledged is never sent
  to A, whose marker skips the bootstrap. An interrupted bootstrap sent a row
  that is then deleted: the second bootstrap acknowledges the deletion unsent. A
  cancelled worker's deferred return puts an acknowledged change back to pending
  after its row was pruned, which is then sent as a DELETE.
* Snapshot cache. The previous file is removed while a request that has its path
  has not opened it. A waiter may be given a file older than its own signature,
  after a failed build the previous one without an error; the viewer takes it
  for the counters it had read (`App.tsx`, `pullSnapshot`) and shows it until
  the next change. Of two overlapping polls the older may end last: it takes
  counters and page back together, so the next poll repairs it.
* Connection. The probe stores the new marker before its load has succeeded
  (`App.tsx:1090`), so a refresh that failed is not tried again until the next
  row, against the comment at 1099. Two reloads after edits may end in the wrong
  order, and one that failed is not retried: the comment at 1129 trusts the
  probe, whose marker ignores edits (1113). A file opened while
  the portal is live is replaced by the next poll. A cancelled `connectTo`
  leaves the badge of the connection before. The comment at
  876 means to leave a loaded remote dataset usable when a load is cancelled;
  the opening of a file (1269) had already cleared its backend.
* Loading. `database.ts:239` says "Sequential, not parallel" of what `Promise.all`
  starts at once. The load of a TeslaMate dump that was superseded while the
  file's first bytes were read takes down the later load's checklist
  (`App.tsx:1279`).
* Dashboards. A page keeps the old panels under the new heading while it asks
  again; an error of a catalog page stays after a later success.
* Edits. The statements of a save are not a transaction: after one that failed
  or whose answer was lost, places and links disagree until the form is sent
  again, and a retried INSERT is refused because the name is taken. A place
  deleted under its form: the UPDATE changes nothing, and if another place has
  the name the form says "Saved" while other links to that place remain. A plan
  keeps the costs of its moment and overwrites a cost entered since; undo brings
  back the plan's, so `UndoRestores` excepts a charge whose cost had changed
  since the plan was made (`sure`).
* Dump. A truncated dump is accepted if the required sections have begun; a row
  that repeats an address replaces it. Sections in another order than pg_dump's
  are accepted too, and leave drives and charges without their positions.

## 5. Proofs

`tlapm` proves every invariant, every action property and both refinements that
the passing runs check, for all values of the constants: TLC looks at a small
instance, the theorem holds for any. What the constants are assumed to be is
named in the modules that declare them, and is what the program gives: positive
thresholds (`TimeAssumption`, `DataAssumption`), ids that are positive numbers
and of which there are finitely many (`RowAssumption`, `ReplicationAssumption`),
a dump whose rows have their columns (`DumpAssumption`), at least one slot for
queries (`LoaderAssumption`), panels with queries (`PanelAssumption`), days of at
least two instants and an offset of at most a day (`TimeAssumption` of
`TimeRange`), finitely many charges of which no two start together
(`ChargeAssumption`), a file that is a sequence of bill rows, prices and costs
that are not negative (`EditAssumption`). TLC evaluates each of them. The bounds
of the actions (`MaxCrashes`, `MaxFails`, `MaxUses` and so on) are constants
like the others, so the theorems hold for every bound.

| Theorem of `Logger_proofs` | States |
|---|---|
| `TypeCorrect` | `Spec => []TypeOK` |
| `SleepIsRespected` | the car is polled only after a summary check that said "online" |
| `UpdateIsNotSuspended` | a car with an install in progress is updating or unreachable |
| `HeldRowsAreOpen` | the rows the loop writes to are open |
| `NoDriveSplitEarly` | an offline car's drive is given up only after `DriveTimeout` |
| `DriveRowIsOwned`, `ChargeRowIsHeld` | no failed call: the open drive is the loop's, and the loop holds a drive (a session) exactly while the machine believes in one |
| `SessionRowIsOwned` | no failed call and no death: so are open sessions |
| `SyncIsOnlyWhenParked` | no failed call: `SafeToSync` says no while the loop knows the car to be doing anything |
| `AsleepRowsAreClosed` | no failed call: a car that says it sleeps has no drive or charge going |
| `LogsTrips` | no failed call: `Logger` implements `TripLog` |

| Theorem of `Replication_proofs` | States |
|---|---|
| `TypeCorrect` | `Spec => []TypeOK` |
| `NothingIsMissed` | until the settings page is used twice, a row a bootstrapped receiver is behind on has an unacknowledged change |
| `NoneIsStranded` | if no return of a batch fails, what is marked `syncing` is in the worker's batch |
| `ArchiveIsKept` | until the settings page is used, the receiver has what retention removed, in its last version |
| `CopyStaysInOrder` | until the settings page is used, `Replication` implements `Mirror` |

| Theorem of the others | States |
|---|---|
| `Viewer_proofs!TypeCorrect` | types of the viewer and the snapshot cache |
| `Viewer_proofs!CacheServesFresh` | a download that did not wait for another's build has every trip that was closed when it was asked for |
| `Viewer_proofs!LocalIsReadLocally` | what is shown from a local copy is queried there |
| `Viewer_proofs!LastChoiceStays` | what was opened last stays, but for a file opened over a polled portal |
| `Viewer_proofs!ChecklistOfCurrent` | the checklist over the page can be cancelled |
| `Pages_proofs!ScreensTypes` | types of all pages; no more queries run than there are slots |
| `Pages_proofs!TheChecklistIsHonest` | done means all rows are there, pending means none was asked for |
| `Pages_proofs!IdlePagesShowWanted`, `PanelsShowTheirOwn` | a page at rest shows what it was asked for, every panel its own queries' answers |
| `Pages_proofs!FiltersAgree` | lists and queries let the same instants through, but for the UTC days of a custom range's ends |
| `Pages_proofs!CalendarKeepsOrder` | no click turns a range upside down |
| `Screens_proofs!EveryMinuteIsSampled`, `JoinsAreResolved` | the conversion loses no minute of any car, and, of a dump in pg_dump's order, no reference that its rows allow |
| `Screens_proofs!HiddenStaysUntouched` | no click changes what is selected among hidden rows |
| `CostEdits_proofs!TypeCorrect` | types of the forms; a save makes at most one place |
| `CostEdits_proofs!EachSessionIsBilledOnce` | what the charges of a plan get and what is left out add up to the bills of the file |
| `CostEdits_proofs!UndoIsExact` | an undo that was read back restored what the import replaced |
| `CostEdits_proofs!SavedPlaceIsLinked` | "Saved" means that exactly the charges inside the circle carry the place |

**Hypotheses.** Some theorems have one, on a counter of the history that the
model keeps. `fails = 0`: a failed storage call drops the rest of its batch, and
then machine and tables do disagree (section 4), so the ownership of rows holds
up to the first failed call; process deaths are allowed in any number. `crashes
= 0` (sessions only): a session that was being synthesized when the process died
stays open. `configures <= 1` and `configures = 0`: linking a receiver again
that has missed what another acknowledged does lose rows (section 4). The runs
check the same: `logger_safety` allows no failing call, `logger_live` no death
either, `repl_safety` has one receiver and `repl_live` one use of the settings
page. `~ReturnsFail` is an assumption on a constant, which says that putting a
batch back succeeds; `repl_live`, which checks `NoneStranded`, has it so. All of
these have behaviours in plenty, and the violations they exclude are ones the
code really has.

**Logger.** `TypeOK` alone is not inductive: the storage calls index the tables
by `driveID` and take a state or version from the event, so `TypeInv` adds that
the batch in `todo` fits them (`BatchOK`). `SleepRespected` needs `AwakeInv`: the
labels of a poll are only reached awake, otherwise `VehicleData` could wake the
machine. `HeldRowsOpen` needs `RowsInv`: which ids can be set at which call of
which event. `NoPrematureSplit` needs `SplitInv`: a `DriveAbandoned` waiting
behind an "offline" answer was put there when the machine's age had reached the
threshold, and the age never exceeds the true silence (`quiet`). Ownership needs
`OwnInv`, because the machine is ahead of the tables while a batch is being
written: `Follows` says how the machine's flag comes out of the id held now and
of the starts and ends still in `todo`, which take turns; `StateFollows` says
the same of the row of the state, and `OneOpenDrive` that a dead process leaves
at most one drive behind, which the next one finds. `AsleepClosesRows` needs
`AsleepInv` about the machine alone. `LogsTrips` maps an open drive row to the
trip in progress: a start, an end and a discard are steps of `TripLog`, every
other step stutters. Lemmas about the operators (types, which events a batch can
hold and in what order) are in `VehicleMachine_proofs`.

**Replication.** `TypeInv` (the batch is in the outbox) and `Phases` (what each
label says about the worker's variables) are the ground. `NothingMissed` is not
inductive, because the row may change after it was read: `MissInv` adds, for
whatever is on its way - the statement made, the copies a bootstrap has read,
the tables it has finished - that a row which changed since has a later change
waiting (`StatementFresh`, `CopiesFresh`, `CopiedFresh`), behind the high-water
mark if the bootstrap is to acknowledge what lies before it; `StaleOwed` is the
property, with the changes already sent of the batch taken out. `ArchiveKept`
needs `ArchiveInv`: a pruned row is written no more and no change of it is
waiting, which rests on `StaleOwed`. The refinement of `Mirror` needs
`MirrorInv`: what is on its way is not behind the receiver nor ahead of the log,
so a send moves the copy forward or leaves it.

**Viewer.** `CacheInv`: the signature is taken before the data it vouches for,
from the request through the build to the file; what a finished build makes of
the requests, those it owns, those that wait and those with the file it
replaces, is a lemma each for the build and for the wake-up (`WakeSound`).
`ChoiceInv` says what else is
true whenever something is shown: polls survive only a disconnection and the
opening of a file, a load of anything but a file began on the landing page, a
load in flight that finds the data server connected is the one that connected
it, and the probe runs under the data server's data. `ChecklistIsCurrent` is
inductive with the types.

**Pages.** `PanelInv`: each answer that has come is in the place of its query
(`AnswersInPlace`), so the slices cut from them are the panels' own. `TimeInv`
types what is chosen and what is remembered; the comparison of the two filters
is arithmetic of days. `LoaderInv` has three parts: the queue and the slots
(`LineInv`), the checklist (`StepsInv`), and when a stage is ticked
(`CheckInv`). `ScreenInv` joins them with the conversion and the selection,
whose invariants hold in whichever page is mounted, because each step of
`Screens` is a step of one module and leaves the others alone or begins them
anew.

**Dump.** `DumpInv` has five parts: the sections already passed are the only ones
with rows, and an id names one row of a table (`ReadInv`); a minute remembered
for a car was sampled (`MinuteInv`); who waits for a position is who refers to
it (`TargetInv`); a row made so far holds exactly what could be resolved from
the rows read so far (`RowInv`); `JoinsResolved` follows at the end of the
file.

**Edits.** `UndoInv`: what would be undone is what the last import that was read
back replaced, as far as its plan was current; what is being read back will
become that; and what an undo writes is what is offered. `LinkInv`: names are
unique, a link leads to a place that is there, and before each statement of a
save holds what the statements before it brought about (`Promise`). Nothing is
promised of a place that was deleted under its form (`Gone`), and so the
property excepts it. `PlanInv` says what each charge of a plan gets: the sum of
its sessions. `BilledOnce` then is a fact about sums: the rows of the file fall
into groups, the groups into sessions skipped and sessions matched, and those
into charges, and a sum over the whole is the sum over the parts
(`TotalSplit`, `TotalFibers`). `MoneyInv` and `CountInv` type the costs and the
places.

**Recursive functions and sums.** The induction theorems of the library take an
operator as a parameter, which these provers do not instantiate. Where a proof
needs induction it is done over a set: the set of numbers (or of subsets of a
finite set) for which the claim holds is closed under the step, so it is the
whole (`InductionUpTo` and `Recursion` in `Pages_proofs`, `SetInduction` in
`CostEdits_proofs`). With it sums of a function over a finite set exist, do not
depend on the order of addition, and can be split. What a definition by
recursion computes for a particular file is left to TLC.

**Only model-checked.** All liveness - `OfflineDriveCloses`, `IdleCarLeftAlone`,
`OutboxDrains`, `MirrorCatchesUp`, `PollCatchesUp`, `LoadEnds` - because it rests
on fairness and ENABLED, which are out of the prover's reach; and the four runs
that show a violation.

## 6. Not modelled, and why

Contents of samples, names, places and costs; the efficiency and location
backfills, which annotate closed rows; the stream's connection; the HTTP
handlers other than `/api/meta` and `/download`; the token client; one-shot
commands (import, push, export, self-update); backups; the viewer's charts, maps
and exports, which draw or convert what others loaded. `PROJECT.json` gives the
reason per component.

Hazards known and without a property: the token file (a lost rotation, a forced
refresh undone, two processes refreshing at once); replayed stream samples; rows
an interrupted bootstrap left at the receiver; the order of overlapping reloads;
requests that take effect after their client gave up; what a waiter for
another's build is given; foreign keys at the
receiver; two uses of the settings page at once; local time in the backup
schedule; timestamps compared as texts in the reports.

## 7. Plan

Done, in this order: `VehicleMachine`, `Logger` with `TripLog`, `Replication`
with `Mirror`; then `SnapshotCache` with `Viewer`, the viewer's pages with
`Screens`, `SuperchargerPlan` with `CostEdits`; and the proofs of every
invariant, action property and refinement of these.

Next, by importance:

1. `TokenClient`: several processes, one token file, a server that rotates the
   refresh token; one valid token is never lost, a token is spent once.
2. `Controller`: disable, probe, two concurrent `Configure`; composed with
   `Replication`.
3. Logger and Replication composed: the worker's `SafeToSync` on the tables the
   logger writes, so that "driving has priority" is a property of both.
   `SyncIsOnlyWhenParked` is the lemma it needs of the logger.
4. Pure functions against reference definitions: closing aggregates, modal
   charger type, sleep statistics, backup schedule and pruning, table order by
   foreign key.
5. `Stream`: reconnects, replays, the filter and the merge with polls.
