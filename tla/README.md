# A TLA+ model of fiotuf

fiotuf is a client for The Update Framework with an experimental update client:
`fiotuf update-client` brings a device to a target of a TUF repository, through
the library composeapp, and reports to a device gateway what it did. This
directory models the program in TLA+, checks the models with TLC on small
instances, and proves the main results for every instance with TLAPS.

## The system

| Component | Code | State | Operations |
|---|---|---|---|
| Update client | `updateclient/updateclient.go`, `updateclient/updates.go` | one process per run; `UpdateContext` | choose a target, init or resume an update, pull, install, start, roll back, remove apps, flush events |
| Installed versions | `targets/target_db.go` | the SQLite table `installed_versions` | register a target as pending, current or failed; the current target; is a target failing |
| Events queue | `events/event_db.go`, `events/event_sender.go` | the SQLite table `report_events` | save, send all, delete up to an id |
| composeapp (external) | calls in `updates.go`, `updateclient.go` | store of apps, containers, `updates.db` | new update, init, fetch, install, start, complete, cancel; list, stop and remove apps |
| TUF client | `tuf/tuf.go` | an `updater.Updater`, files under `/var/sota/tuf` | refresh, targets, root |
| HTTP agent | `internal/http_server_app.go` | one shared `FioTuf` | three handlers, run concurrently |
| Apps-states report | `ReportAppsStates` | none | posts a constant (a stub) |
| Command line | `main.go` | none | parses flags, calls a command |

The update client is a sequential process that is run again and again. A run
refreshes TUF, reads the two databases and composeapp to choose what to do
(`GetTargetToInstall`), performs the update (`PerformUpdate`) and flushes the
events (`FlushEvents`). What makes it hard is not concurrency but what persists
in three places that no transaction ties together: `installed_versions`,
`report_events` and composeapp's record of the current update. The process may
die between any two writes, most of the errors of those writes are only logged,
and the next run decides from what it finds: whether the target is failing,
whether to resume, complete or cancel the update, which operations to skip.

What makes each component correct:

- **Installed versions**: at most one current and one pending target, whatever
  dies between two statements.
- **Update client**: a target becomes current, and is reported as installed, only
  after its apps were started; an update that was reported as installed is not
  reported on any more; an installation that failed or was interrupted is not begun
  again; the apps of the current target stay in the store, for a rollback; every run
  ends; the device gets to its newest target or marks it as failing.
- **Events queue**: every event saved is delivered at least once, as long as runs get to
  their flush, unless the server refuses it or it was saved while another client was
  flushing; what is sent twice has a known cause. A run that fails before its flush leaves
  its events to the next one, and a device whose runs all fail there never reports them:
  one whose refresh always fails, and one with no target to go back to (finding 2).
- **TUF client and HTTP agent**: what a process is given, and what the directory holds,
  never gets older; the update client works with the targets of its own refresh; the
  agent recovers from a refresh that fails; the newest initial root is imported.

`PROJECT.json` lists, under "hazards", what is hard to test here, line by line.

## Modules

- `InstalledVersions` — the table as a sequence of rows, and one operator for each
  SQL statement: `UnsetFlags` (the UPDATE that clears flags), `UpdateRows` and
  `InsertRow` (the UPDATE and the INSERT at the end), `WriteRow` (the choice between
  them, which looks at the last row only), `GetCurrentTarget`, `IsFailingTarget`.
- `ComposeApp` — external: the store, the running apps and the record of the
  last update (`updates.db`), one operator per call, and one for each call that
  fails half-way, which leaves the record in the state of the unfinished operation.
- `UpdateClient` — the process. It EXTENDS `InstalledVersions` and instantiates
  `ComposeApp`. `pc` names the next call that leaves something behind; reads are
  part of the step that uses them.
- `EventQueue` — the table `report_events` and any number of clients that save and
  flush, each step of `FlushEvents` (read, post, delete) an action of its own; `Outbox`
  is what a queue with at-least-once delivery promises, in terms of what is pending,
  what was delivered and what is excused from delivery, and `EventQueue` instantiates it.
- `TufAgent` — `FioTuf` as the handlers of the HTTP agent and the update client use it:
  updaters are allocated on a heap, published, refreshed and read in separate steps, and
  all of them store in one directory.
- `RootChain` — the import of the initial root, one number at a time, and the chain of
  roots as `FioFetcher` answers it, one root at a time; `TufAgent` has each as one step
  (`TrustedRoot`, `LoadRoot`).
- `TargetSelection` — `selectTarget`, one turn of the loop after the other in any order
  of the map; `UpdateClient` has its result as a set (`SelectTarget`).
- `AppLists` — the slices of `FillAppsList`, `isSublist`, `appsListMatch` and
  `IsTargetRunning`, one turn of a loop after the other; `AppSets` has the same decisions
  on sets, which is how `UpdateClient` has them, and `AppLists` implements it.
- `UpdateReports` — what the server may be told about updates: they are numbered and
  reported on one at a time, and not after the report of success. `UpdateClient`
  instantiates it (`Reports`) with the number of the last event saved, whether that
  update has been reported as installed, and the number of events (`count`): each event
  saved is a step of `UpdateReports`, so a further one of an update that is over is not
  taken for no step at all.
- `MCUpdateClient`, `MCEventQueue`, `MCTufAgent`, `MCAlgorithms` — the instances that TLC
  checks; `MCAlgorithms` has `RootChain`, `TargetSelection` and `AppLists` side by side, a
  behaviour for each of them.
- `InstalledVersionsProofs`, `UpdateClientProofs`, `ReportsProofs`, `EventQueueProofs`, `TufAgentProofs`,
  `RootChainProofs`, `TargetSelectionProofs`, `AppListsProofs` — the theorems.

`UpdateClient` stands above the others: it takes from `TargetSelection` that the order of
the map does not matter, from `AppLists` that lists may be read as sets, from `TufAgent`
that a run has targets (one that gets none ends before it has done anything), and from
`EventQueue` that with one client a flush that ends well empties the table, so that it
deletes the whole of `table`.

### State and actions of UpdateClient

| Variable | In the code |
|---|---|
| `rows` | `installed_versions` |
| `table` | `report_events`, in the order of its ids |
| `history` | history variable: every event ever saved |
| `store`, `running`, `upd` | composeapp |
| `clock` | the time that a correlation id is made from |
| `faults` | the number of faults so far |
| `pc` | where the process is; "Idle" when there is none |
| `ctx` | `UpdateContext` and the local `invokeComposeUpdate` |

| Function | Actions |
|---|---|
| `GetTargetToInstall` | `GetTargetToInstall` |
| `InitUpdate` | `InvalidClientRef`, `NoCurrentUpdate`, `CompleteStarted`, `ResumeUpdate`, `CancelUpdate`, `NewUpdate`, `RunnerInit` |
| `PullTarget` | `SkipPull`, `PullTarget`, `Fetch`, `PullFailed`, `PullCompleted` |
| `InstallTarget` | `SkipInstall`, `InstallTarget`, `RegisterPending`, `InstallEvent`, `InstallStopApps`, `Install`, `InstallFailed`, `InstallApplied` |
| `StartTarget` | `SkipStart`, `StartTarget`, `Start`, `StartCompleted`, `RegisterSucceeded`, `RegisterCurrent`, `CompleteUpdate`; when it fails `StartFailed`, `RegisterFailed` |
| `rollback` | `Rollback`, `RollbackNewUpdate`, `RollbackInit`, then `InstallTarget` and `StartTarget` again |
| `StopAndRemoveApps` | `StopAndRemoveApps`, `RemoveApps` |
| `FlushEvents` | `FlushEvents`, `DeleteEvents` |

`RegisterInstallationStarted` and `RegisterInstallationSuceeded` are two actions
each, since they are two statements; `RegisterInstallationFailed` is one
statement. The recursion of `StartTarget` and `rollback` needs no stack: nothing
is done after the inner call returns but to return.

The faults: the process dies (`Crash`), in the middle of an operation of composeapp
too; a call to composeapp, a write to the events table or a statement on
`installed_versions` fails; a container dies (`AppStops`); another client of composeapp
left an update behind. A Cancel that fails leaves the update as it is or being cancelled
("Cancelling", which `InitUpdate` does not resume but cancels again). An update with a
reference of another form is cancelled in any case; the process then dies on one without a
separator, and goes on to an update of its own on one of three parts or more
(`InvalidClientRef`). A read of the database that fails is part of
`GetTargetToInstall`, because the code goes on with a default.

Abstractions: a target is a model value with a version and a set of apps; the URIs,
hashes and lengths are left out. The text of an event (details, reason) is left out.
A correlation id is a number that is new for every update: the code takes the
version and the time in seconds, which is new as long as no two updates to one version
begin within one second; that they do not is an assumption of `SuccessIsFinal` and
`OneUpdateAtATime`. The repositories that a run is offered have targets with versions only:
one with a target that has no custom metadata ends every run in a panic (`TargetSelection`)
before it has left anything behind, as a refresh that fails does.

### State and actions of the other modules

| Module | Variable | In the code |
|---|---|---|
| `EventQueue` | `table` | the rows of `report_events`: an id and an event |
| | `sent`, `maxId`, `pc` | the locals of `FlushEvents`, for each client |
| | `received` | external: how often the server has taken an event |
| | `saved` | the number of calls of `SaveEvent` that succeeded |
| | `refused`, `overtaken` | history variables: the events that the server answered with an error, and those saved under an id that a flush under way is going to delete |
| `TufAgent` | `fio` | `fioUpdater`, of the agent's FioTuf and of each update client's |
| | `heap` | the updaters: trusted root, version of the targets or 0 for none |
| | `disk` | `/var/sota/tuf` |
| | `repo` | external: what the device gateway serves |
| | `proc` | where a handler or program is, and its locals |
| | `seen` | history variable: what a process was given last |
| `RootChain` | `provided`, `rootFile`, `published` | `/usr/lib/sota/tuf/ci`, `/var/sota/tuf/root.json`, the roots of the source |
| | `number`, `existing`, `rootBytes`, `root` | the locals of `getTufCfg`, and the root that go-tuf trusts |
| | `rootPc`, `local` | the step, and whether the source is a directory |
| `TargetSelection` | `allTargets`, `asked`, `latest`, `selected` | the arguments and locals of `selectTarget`, `UPDATE_TO_VERSION` |
| | `todo` | the part of the map that is still to be traversed |
| | `panicked` | the process has died of a nil pointer |
| `AppLists` | `targetApps`, `installed`, `kept`, `i` | the slices and indices of `FillAppsList` |
| | `required`, `uninstall` | `RequiredApps`, `AppsToUninstall` |
| | `store`, `running`, `uris` | external: composeapp's apps, and the URIs of its update |

| Function | Actions |
|---|---|
| `SaveEvent`, `GetEvents`, `SendEvent`, `DeleteEvents` | the actions of the same names of `EventQueue`; an empty table ends a flush at once, which is a stutter |
| `StartTufAgent`, `NewFioTuf` | `Start`, `ReadRoot`, `NewUpdater`, `AssignNew` |
| `refreshTufHttp`, `RefreshTuf` | `Post`, `ReadRoot`, `NewUpdater`, `AssignRefresh`, then go-tuf: `LoadRoot`, `LoadLocal`, `Download` |
| `getTargetsHttp`, `getRootHttp` | `Get`, which reads `fioUpdater`, and `GetTargets` or `GetRoot`, which read the updater |
| `getTufCfg` | `Refresh`, `Import` (one turn of the loop), `ReadFile` of `RootChain` |
| `DownloadFile` | `DownloadFile` of `RootChain` (`Delivers`, `NotFound` for the two readers) |
| `selectTarget` | `SelectNext` of `TargetSelection`: `SelectTurn` (one turn of the loop), or `Panic` at a target without custom metadata |
| `FillAppsList` | `FillAppsList`, `RequiredApp`, `ListApps`, `InstalledApp`, `AppsToUninstall` of `AppLists` |
| `IsTargetRunning`, `InitUpdate`'s comparison | `IsTargetRunning` of `AppLists` |

The faults: in `EventQueue` a crash at any step, a DELETE that fails, a request whose
answer is lost (the server may have taken it or not), an answer with an error status; in
`TufAgent` a crash, a file that cannot be read or written, a fetch that fails at any point of
a refresh, and the runtime that stops the agent because a map is read while it is written.

Abstractions: TUF metadata are a root number and a version; an updater that has not been
refreshed has version 0, for no targets. A go-tuf refresh stores what it has verified as it
goes, so a fetch that fails late may leave a new version in the directory. An event is its
number. In `AppLists` the apps of one target have distinct URIs.

## Runs

The targets of the instances are A (version 1, app a), B (version 2, no app, so that
an update to it does without composeapp) and C (version 3, app b).

| Run | Asks | Bounds | Distinct states |
|---|---|---|---|
| `all_faults` | `TypeOK`, `OneCurrentTarget`, `SuccessIsFinal`, `StartedBeforeCurrent`, `OneUpdateAtATime` (`UpdateReports` is implemented) | every fault, 2 of them, 3 updates | 1.7 million |
| `failures` | `NotBegunAgain`, `CurrentAppsKept` | crash, compose, app; 3 faults, 4 updates | 677 thousand |
| `run_ends` | `RunAdvances`, `RunEnds` | 2 faults, 2 updates | 88 thousand |
| `converges` | `Converges`, `EventsReported` | every fault, 3 of them, 8 updates | 116 thousand |
| `new_device` | `Converges` for a device out of the factory | 3 faults, 8 updates | 17 thousand |
| `interrupted_is_failing` | `FailingHasFailed`: violated | 1 crash | |
| `no_current_target` | `InitialMeansNoData`: violated | 1 crash | |
| `download_unreported` | `DownloadReported`: violated | 1 crash | |
| `two_clients` | `TypeOK`, `LossExplained`, `DuplicatesCostFaults`, `IsOutbox` (`Outbox` is implemented), `AtLeastOnce` of `EventQueue` | every fault, 3 of them, 3 events | 115 thousand |
| `one_refresh` | `TypeOK`, `NoRollback`, `ServesAgain` of `TufAgent` | one POST, one GET, two bundles, 2 roots, 2 versions, 1 fault | 554 thousand |
| `agent_and_client` | `OwnTargets` | a POST and an update client, a bundle, 2 versions, 2 faults | 119 thousand |
| `algorithms` | `RootsOnlyAdvance`, `ChainFollowed` of `RootChain`; `SelectsTarget`; `ListsActAsSets` | 3 roots, the import stops at 2; 4 targets, versions -2, 0, 1, 2, none, or no custom metadata, five pins; 3 apps | 1.7 million |

`MaxFaults` bounds the faults of a whole behaviour and `MaxUpdates` the updates
begun. Two faults are enough for each pair that matters: a failure and the crash
during its handling, a crash and a failure of the run that follows, a failed start
and the failed start of its rollback; three add a failure of the recovery from both.
Three updates let a target fail, another be installed, and the first be offered
again. In `converges` and `new_device` the
device must never be stopped by `MaxUpdates`, which would pass for coming to rest:
no behaviour of either begins more than four updates, so eight are no bound at all. Two offers, one without C, let the repository change
between runs, and the pin `UPDATE_TO_VERSION` forces a downgrade.

The other instances: `MaxEvents` = 3 lets ids start again after a flush, with an event of
each client under an id that the other one's flush is about to delete; three faults lose an
answer, fail the deletion that follows and refuse the next request. Two versions and two
roots are an old and a new one, with a bundle of each age, which is made once the repository
has published what it holds; three updaters are the one in place, the one that a GET still
holds and the one being filled. Four targets give two pairs of equal versions; three apps
give lists that overlap in some elements, and differ in length and in order.

Deadlock is not checked: the client need not be started again, the choice of a target ends,
and the bounds stop the other models.

Some questions have an answer that is not a property here. With two clients an event can be
lost even if every request is answered well, because it was saved under an id that a flush
under way deletes (`LossExplained` says that there is no other way). With two refreshes at
once the directory can get an older root: `updater.New` stores the root that it was made
from, when another refresh has stored a newer one in the meantime; `NoRollback` is stated for
one refresh at a time. A refresh that fails leaves the agent without targets, since
`RefreshTuf` puts the new updater in place before it refreshes it; `ServesAgain` says that
this is not for good. `NoRollback` is about each handler: of two GETs under way at once, the
one that is answered last may be given the older metadata. A file of an offline bundle is
read whole: the `maxLength` of `DownloadFile` is for remote files only (`Delivers`), and its
timeout is used for neither. A root of a bundle that exists but cannot be read is answered
as missing, so the chain of roots ends before it, and so it does in `ChainFollowed`. And one
target without custom metadata, which TUF allows, keeps `selectTarget` from selecting any:
`SelectsTarget` says that the process then dies in whatever order the map comes.

Two properties leave out some kinds of faults, because the code does not promise
them with those, and neither does any comment. With database errors the current
target may have no apps (`CurrentAppsKept`): the error of registering success is
ignored, and the store is pruned all the same. With `pacman.compose_apps` set it may lose
them, too: no app of a target is required then, so all are removed. And an installation that
failed may be begun again (`NotBegunAgain`): the error of `IsFailingTarget` is dropped, and so is
that of the row it would have found. `NotBegunAgain` leaves out errors of the events table as well:
the reason to begin the installation of a target again is that the device has run it, and what
tells is the event of that success, whose loss is only logged.

`NotBegunAgain` is about installations begun, not about starts. A target can be started
again after its start has failed, in one way: the apps are in the store, the process dies
before PullTarget, the run that resumes the update passes over InstallTarget, which would
have registered the target, the start fails, and the process dies once more before
`RegisterInstallationFailed`. There is no row then that says the target fails.

`Converges` allows for a newest target that is marked as failing, whatever became of
the device then. That is as much as the code gives: when the newest target is failing
and no target is current, every run ends in an error (see the second finding). Those runs
do not get to the flush either, so `EventsReported`, that what is saved is reported in the
end, makes the same exception (`NoWayBack`).

### Findings

1. `interrupted_is_failing`: `IsFailingTarget` counts rows with `was_installed = 0`,
   and registering the start of an installation writes one. After a crash during an
   installation the next runs treat the target as failing, and the update, which
   `InitUpdate` would know how to resume, is not resumed. As long as the apps of the
   current target run, the runs have nothing to do and leave it where it is; once they were
   stopped, the next run, which has them to start, cancels it.
2. `no_current_target`: between the two statements of `saveInstalledVersions` no
   target is current. A crash there, and a new version that fails, and the device has
   "Initial Target" as its target, whose empty metadata ends every later run before
   the events are flushed.
3. `download_unreported`: a crash after the download and before its event; the update
   is resumed and installed and its download never reported.

## Fairness

`FairSpec` assumes weak fairness of `ProcessStep`, the steps of a process that runs: it
is a single thread, and each of its steps is a call that returns. A call that fails is a
fault, and the faults are bounded: `RunEnds` says that rollback, which recurses through
`StartTarget`, ends once the calls to composeapp no longer fail; if they failed for
ever, the code would recurse for ever. `PeriodicSpec` adds weak fairness of
`GetTargetToInstall`: the client is run again by its caller, a timer or an operator, and
runs whose refresh succeeds keep coming; the others end before they do anything.
Nothing is assumed of crashes, failures or containers.

`FairSpec` of `EventQueue` assumes that a flush that has begun goes on, for each client. That
flushes begin is not assumed of any client, because the code does not give it:
`RunUpdateClient` returns before `FlushEvents` when the refresh or the choice of a target
fails. It is the premise of `AtLeastOnce` (`FlushesAgain`): the runs of one client, whichever it
is, get to their flush again and again. Whether they do is a question to `UpdateClient`, where
`EventsReported` answers it: but for a device in `NoWayBack`, of which all runs fail there.
`FairSpec` of `TufAgent` assumes that
the agent is kept running, that Go schedules its handlers (weak fairness), and that whoever
uses the agent asks for a refresh from the device gateway infinitely often when that is
possible infinitely often (strong fairness of `Post` with the source `Online`). Crashes and
failures are bounded by `MaxFaults`, refusals of old bundles are not.

## Proofs

Those of the update client hold for any set of targets, apps, offers, kinds and numbers of
faults, and any number of updates; they assume `InitialAssumption` and `UpdateClientAssumption`:
the constants have their types, and "Initial Target", nil and a foreign client's
reference are no targets.

- `TypeCorrect`: `Spec => []TypeOK`. Not inductive alone: a row must be of a target, so
  the steps that write one need to know that the context has one. `HasTarget` says in
  which steps it has; the step of the proof that needs work is `RollbackInit`, which
  recomputes the target and may drop it.
- `OneCurrentTargetHolds`: `Spec => []OneCurrentTarget`. The invariant `FlagsInv` adds that
  between the two statements no target is pending, and none is current in mode current.
  `RegisterSteps` reduces Next to the five steps that write the table;
  `UnsetFlagsConsistent` and `WriteRowConsistent` are facts about the statements alone.
- `StartedBeforeCurrentHolds`: `Spec => StartedBeforeCurrent`. The invariant `UpdateInv` says
  that the runner at hand is of an update for the target and apps of the context
  (`Matches`), and how far that update has got in each step: without the flag Resuming, each
  phase leaves it in a state the next one accepts; with it, a phase that is skipped can
  only be followed by phases that are skipped, until the run ends in `SkipStart`, or
  by a start that is performed.
- `RunAdvancesHolds`: `Spec => RunAdvances`. `StepsLeft` numbers the steps so that each leads to
  a lower one, those of `rollback` and what follows them included; only a `Start` that fails, which
  is a fault, leads back up to them. So a run takes at most 29 steps between two faults:
  with the fairness of `ProcessStep` and faults that are bounded this is why `RunEnds` holds.
- `CurrentAppsKeptHolds`: `Spec => CurrentAppsKept`, without database errors (`NoDbFaults`) and
  without `pacman.compose_apps` (`NoComposeApps`), for the reasons given above. `StoreShrinks`:
  only the completion of an update and the removal of apps take anything out of the store.
  `AppsInv`: the lists of a run are those of its target (`Spares`), also after `RollbackInit`
  has made them anew; at completion the target has just become the current one, and
  composeapp has its apps in the update that it prunes to (`Started`, from `UpdateInv`); a run that has
  nothing to do has found its target to be the current one. `ListsKept` says which steps
  touch the lists at all.
- `NotBegunAgainHolds`: `Spec => []NotBegunAgain`, without errors of the two databases
  (`NoDbFaults`, `NoEventFaults`). It is not inductive, because what keeps a target from being begun
  again is not in the history. `RowsInv`: a target that was begun has a row, since it
  gets one before the event, and a row that says that the device has run its target
  (`Settled`) has an event of success, or the factory, behind it. `BeginInv`: so the target of a
  run is one that the device has run, or one that was never begun, from the choice to the
  event; and what a rollback goes back to is one that it has run.

- `SuccessIsFinalHolds`: `Spec => []SuccessIsFinal`, and `OneUpdateAtATimeHolds`:
  `Spec => OneUpdateAtATime`, the refinement of `UpdateReports`. Both rest on `ReportInv`, which
  relates three places where the number of an update is kept: the context, composeapp's
  record and the events. `LinkInv`: the runner is a handle on an active update, with the
  number of the context; without a runner there is none, so nothing is left behind that
  would be resumed once a newer update is reported on. `LastInv`: an update that could be
  resumed is not older than any that was reported on, and if it was reported as installed,
  it is Started, or being cancelled, and will not be resumed. `RunInv`: so is the update that a run works on; one that is over has
  just been reported as such, or it has been resumed and all of its phases are skipped
  (`Skipping`). `HistoryGrows` then says what a step may add to the events: one that is not of an
  update that is over, which is the step of `UpdateReports` that counts it.

- `QueueTypeCorrect`, `LossExplainedHolds`: any number of clients, events and faults. That
  ids are unique needs that a new one is above all others; `LossExplained` needs to know of
  a client that is about to delete that each row up to its `maxId` is one it has sent or one
  that was saved since.
- `QueueIsOutbox`: `Spec => IsOutbox`, the refinement of `Outbox`, with no assumption on clients or faults. The
  invariant is that of `LossExplained`, and that only events that have been saved are known
  to the outbox: a DELETE discards what was sent and taken or refused, or what was overtaken.
- `OneClientLosesNothing`: with one client and no refused request nothing is ever excused, so
  what was saved is stored or was received.
- `OneClientEmptiesTable`: with one client a DELETE that works leaves no row, though it deletes
  by id: the invariant `FlushesWhole` says that what is between the read and the DELETE is the
  whole table. This is the step that `UpdateClient` has.
- `DuplicatesCostFaultsHolds`: `Spec => []DuplicatesCostFaults`, for any finite set of clients
  (`ClientsAssumption`: with infinitely many, a number of them means nothing) and any number of
  events and faults. The invariant `CountInv` has two cases. An event that is stored has been
  received at the cost of a fault each time, or by a client that is about to delete it
  (`Deleting`); once it is not stored it can only be received by the clients that have read it
  before (`Sending`), and those were counted. In between, a DELETE that works reaches the row of all
  that its client has sent (`Reached`).
- `AgentTypeCorrect`, `OwnTargetsHolds`: any number of programs, handlers, bundles and
  updaters. `OwnTargets` rests on `OwnInv`: the updater that a refresh fills is referred to
  by no other one, though it is published, and a client's version is at least the one it
  has loaded.
- `NoRollbackHolds`: for no client and at most one POST (`OneRefresher`). `RollbackInv` adds
  that no updater of the agent has metadata newer than the directory, that the updater in
  place is at least as new as any that a GET still holds when it has targets, and how far
  the refresh has got.
- `SelectsTargetHolds`: any set of names, versions and pins. The invariant is the one of the
  loop: what is selected is right for the part of the map that has been traversed, and that part
  has no target without custom metadata, since the loop does not get past one.
- `ListsActAsSetsHolds`: `Spec => Sets!Spec`, for any finite set of apps. The invariant says
  that a list has no element twice, and that `kept` holds the elements of the part traversed
  that pass the filter.
- `RootsOnlyAdvanceHolds`, `ChainFollowedHolds`: any number of roots, and any last number
  of the import. The invariant of the loop: it has passed a series without a gap. For
  `ChainFollowed` it is that of go-tuf's: each root from the one that `getTufCfg` read up to the
  one that is trusted was there and readable, and the step that ends the chain finds the next
  one not to be.

Every safety property and every action property that a run expects to hold has its theorem, and
so have the refinements `OneUpdateAtATime` and `IsOutbox`. Only model-checked are the liveness properties
`RunEnds` (its safety part is `RunAdvances`), `Converges`, `EventsReported`, `AtLeastOnce` (its
safety part is `IsOutbox`) and `ServesAgain`: fairness is out of reach of the prover.

## Plan

Done: 1 `InstalledVersions`, 2 `ComposeApp`, 3 `UpdateClient` with its runs, 4 its first
proofs, 5 `EventQueue`, which implements `Outbox`, 6 `TufAgent`, 7 the algorithms
(`TargetSelection`, `AppLists`, `RootChain`), each with its theorems, 8 `UpdateReports`, which
`UpdateClient` implements, 9 the theorems that tie `installed_versions` to the store and to the
history (`CurrentAppsKept`, `NotBegunAgain`), 10 the count of `DuplicatesCostFaults`, 11 the safety part of
`RunEnds`. Next:

12. The safety part of `ServesAgain`: what a handler that refreshes has left to do only gets less,
    as in `RunAdvances`.
13. The safety part of `Converges`: a run of a device at rest changes neither the databases nor
    the store.
14. An Install or a Start of composeapp that fails for apps missing from the store. The model lets
    either succeed whatever is stored, which allows more than composeapp may do; with the stricter
    one, `CurrentAppsKept` would say that a rollback finds every app it needs.

## Not modelled

- The verification of TUF metadata, signatures, hashes and expiry: go-tuf's.
- `ReportAppsStates`, a stub that posts a constant and drops the error; the command line,
  which parses flags and calls a command; `GetVersion` and the JSON of targets and events,
  conversions that no property depends on.
- The bars that `PullTarget` draws while composeapp fetches: rendering only.
- Errors of composeapp on opening its own files, beyond a crash at that point.
