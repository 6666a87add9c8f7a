---------------------------- MODULE UpdateClient ----------------------------
(***************************************************************************)
(* The command update-client (package updateclient): one process that      *)
(* picks a target, updates the device to it through composeapp, records    *)
(* what it does in installed_versions, saves the events it has to report   *)
(* and flushes them, then exits; it is run again and again.  Every call    *)
(* that leaves something behind in a database, in composeapp or at the     *)
(* server is a step, named by pc, and the process may die between any two  *)
(* of them.                                                                *)
(***************************************************************************)
EXTENDS InstalledVersions, Integers

CONSTANTS
  Apps,          \* the URIs of compose apps
  AppsOf,        \* AppsOf[t]: docker_compose_apps of target t
  VersionOf,     \* VersionOf[t]: the version in its custom metadata
  None,          \* a nil target
  Foreign,       \* the clientRef of an update that this program did not start
  Factory,       \* the target the device has been updated to before, or None
  Offers,        \* the sets of targets that a TUF refresh may yield
  Pins,          \* the values of UPDATE_TO_VERSION, -1 when it is not set
  ComposeApps,   \* whether pacman.compose_apps is set: a subset of BOOLEAN
  FaultKinds,    \* what may go wrong: a subset of AllFaults
  MaxFaults,     \* bound on the number of faults of a behaviour
  MaxUpdates     \* bound on the number of updates started

AllFaults == {"crash", "db", "event", "compose", "app", "foreign"}

ASSUME UpdateClientAssumption ==
  /\ None \notin Targets \cup {Initial}
  /\ Foreign \notin Targets \cup {Initial, None}
  /\ AppsOf \in [Targets -> SUBSET Apps]
  /\ VersionOf \in [Targets -> Nat]
  /\ Factory \in Targets \cup {None}
  /\ Offers \subseteq SUBSET Targets
  /\ Pins \subseteq Int
  /\ ComposeApps \subseteq BOOLEAN
  /\ FaultKinds \subseteq AllFaults
  /\ MaxFaults \in Nat /\ MaxUpdates \in Nat

VARIABLES
  rows,       \* the table installed_versions
  table,      \* the events in the table report_events, in the order of their id
  history,    \* history variable: every event ever saved, in order
  store,      \* composeapp: see ComposeApp
  running,
  upd,
  clock,      \* the time of the last update started, for its correlation id
  faults,     \* the faults so far
  pc,         \* the next step of the process, "Idle" when there is none
  ctx         \* UpdateContext, and the local variable invokeComposeUpdate

Names == Targets \cup {Initial, Foreign}

Compose == INSTANCE ComposeApp WITH NoName <- None

composeVars == <<store, running, upd>>
eventVars == <<table, history>>
vars == <<rows, table, history, store, running, upd, clock, faults, pc, ctx>>

(***************************************************************************)
(* Runner is either nil or a handle on the current update, so a boolean.   *)
(* InstalledApps is read only right after it is set, and Reason is text.   *)
(***************************************************************************)
Context == [target : Targets \cup {Initial, None},
            current : Targets \cup {Initial, None},
            required : SUBSET Apps, uninstall : SUBSET Apps,
            configured : BOOLEAN, runner : BOOLEAN, resuming : BOOLEAN,
            invoke : BOOLEAN, corr : Nat]

NoContext == [target |-> None, current |-> None, required |-> {}, uninstall |-> {},
              configured |-> FALSE, runner |-> FALSE, resuming |-> FALSE,
              invoke |-> FALSE, corr |-> 0]

EventTypes == {"DownloadStarted", "DownloadCompleted", "InstallationStarted",
               "InstallationApplied", "InstallationCompleted"}

Event == [type : EventTypes, success : {"none", "true", "false"},
          name : Targets \cup {Initial}, corr : Nat]

Steps == {"Idle", "InitUpdate", "NewUpdate", "RunnerInit",
          "PullTarget", "Fetch", "PullFailed", "PullCompleted",
          "InstallTarget", "RegisterPending", "InstallEvent", "InstallStopApps",
          "Install", "InstallFailed", "InstallApplied",
          "StartTarget", "Start", "StartFailed", "RegisterFailed",
          "Rollback", "RollbackNewUpdate", "RollbackInit",
          "StartCompleted", "RegisterSucceeded", "RegisterCurrent", "CompleteUpdate",
          "StopAndRemoveApps", "RemoveApps", "FlushEvents", "DeleteEvents"}

TypeOK ==
  /\ rows \in Table
  /\ table \in Seq(Event) /\ history \in Seq(Event)
  /\ Compose!ComposeTypeOK
  /\ clock \in Nat /\ faults \in Nat
  /\ pc \in Steps
  /\ ctx \in Context

-----------------------------------------------------------------------------
(* Faults, and the ends of a run                                           *)

Fault(kind) == kind \in FaultKinds /\ faults < MaxFaults /\ faults' = faults + 1

\* PerformUpdate returns, with an error or not: the run goes on to report.
Finish == pc' = "FlushEvents" /\ ctx' = NoContext

\* The process ends.
Exit == pc' = "Idle" /\ ctx' = NoContext

(***************************************************************************)
(* GenAndSaveEvent, when it works.                                         *)
(***************************************************************************)
SaveEvent(type, success) ==
  LET evt == [type |-> type, success |-> success, name |-> ctx.target, corr |-> ctx.corr]
  IN  table' = Append(table, evt) /\ history' = Append(history, evt)

\* GenAndSaveEvent where its error is only logged.
TrySaveEvent(type, success) ==
  \/ SaveEvent(type, success) /\ UNCHANGED faults
  \/ UNCHANGED eventVars /\ Fault("event")

-----------------------------------------------------------------------------
(* Choosing a target: GetTargetToInstall                                   *)

(***************************************************************************)
(* selectTarget goes through a map, so a tie is broken in any order.       *)
(***************************************************************************)
SelectTarget(tuf, version) ==
  {t \in tuf : IF version > 0 THEN VersionOf[t] = version
               ELSE \A u \in tuf : VersionOf[u] <= VersionOf[t]}

\* Mutant of FillAppsList: the apps to remove come from the old RequiredApps.
FillAppsListStale(c) ==
  [c EXCEPT !.required = {a \in AppsOf[c.target] : c.configured => a \in c.required},
            !.uninstall = store \ c.required]

(***************************************************************************)
(* FillAppsList.  With pacman.compose_apps set the code keeps the apps of  *)
(* the target that are in RequiredApps, not those in ConfiguredApps.       *)
(***************************************************************************)
FillAppsList(c) ==
  LET required == {a \in AppsOf[c.target] : c.configured => a \in c.required}
  IN  [c EXCEPT !.required = required, !.uninstall = store \ required]

IsTargetRunning(c) ==
  c.target = c.current /\ c.required \subseteq store /\ c.required \subseteq running

FillAndCheckAppsList(c) ==
  LET filled == FillAppsList(c)
  IN  IF IsTargetRunning(filled)
        THEN [filled EXCEPT !.target = None, !.required = {}]
        ELSE filled

TargetContext(target, current, configured) ==
  FillAndCheckAppsList([NoContext EXCEPT
    !.target = target, !.current = current, !.configured = configured])

(***************************************************************************)
(* RunUpdateClient up to PerformUpdate.  The errors of the two reads of    *)
(* the database are swallowed: the current target is then "Initial         *)
(* Target", and no target is failing.  "Initial Target" has no custom      *)
(* metadata, so the run ends in FillAppsList when it is the one to sync.   *)
(* The runs that end before PerformUpdate leave nothing behind.            *)
(***************************************************************************)
GetTargetToInstall ==
  /\ pc = "Idle"
  /\ \E tuf \in Offers, version \in Pins, configured \in ComposeApps :
     \E candidate \in SelectTarget(tuf, version) :
     \E current \in {GetCurrentTarget(rows), Initial},
        failing \in {IsFailingTarget(rows, candidate), FALSE} :
       LET target == IF failing THEN current ELSE candidate
       IN  /\ \/ /\ current = GetCurrentTarget(rows)
                 /\ failing = IsFailingTarget(rows, candidate)
                 /\ UNCHANGED faults
              \/ Fault("db")
           /\ target # Initial
           /\ ctx' = TargetContext(target, current, configured)
  /\ \/ ctx'.target = None /\ pc' = "StopAndRemoveApps"
     \/ ctx'.target # None /\ clock < MaxUpdates /\ pc' = "InitUpdate"
  /\ UNCHANGED <<rows, eventVars, composeVars, clock>>

-----------------------------------------------------------------------------
(* InitUpdate: resume the update that composeapp has, or start a new one    *)

InInitUpdate(found) == pc = "InitUpdate" /\ Compose!IsActive = found

(***************************************************************************)
(* A clientRef that is not two parts: the update is cancelled.  Without a  *)
(* "|" the code then indexes past the end of the split, and the process    *)
(* dies; with more than one the run goes on, and cancels once more.        *)
(***************************************************************************)
InvalidClientRef ==
  /\ InInitUpdate(TRUE) /\ upd.name = Foreign
  /\ \/ Compose!Cancel /\ Exit /\ UNCHANGED faults
     \/ Compose!Cancel /\ pc' = "NewUpdate" /\ UNCHANGED <<faults, ctx>>
     \/ (Compose!Cancel \/ Compose!CancelFails) /\ Finish /\ Fault("compose")
  /\ UNCHANGED <<rows, eventVars, clock>>

NoCurrentUpdate ==
  /\ InInitUpdate(FALSE)
  /\ pc' = "NewUpdate"
  /\ UNCHANGED <<rows, eventVars, composeVars, clock, faults, ctx>>

CompleteStarted ==
  /\ InInitUpdate(TRUE) /\ upd.name # Foreign /\ upd.state = "Started"
  /\ Compose!Complete
  /\ pc' = "NewUpdate"
  /\ UNCHANGED <<rows, eventVars, clock, faults, ctx>>

\* The error of Complete is ignored: the update is then still Started below.
CompleteTried ==
  IF upd.state = "Started" THEN Fault("compose") ELSE UNCHANGED faults

\* Mutant of CanResume: an update that did not get through Init is resumed.
CanResumeInitializing ==
  upd.state # "Cancelling" /\ upd.name = ctx.target /\ upd.uris = ctx.required

CanResume ==
  /\ upd.state \notin {"Initializing", "Cancelling"}
  /\ upd.name = ctx.target
  /\ upd.uris = ctx.required

ResumeUpdate ==
  /\ InInitUpdate(TRUE) /\ upd.name # Foreign /\ CanResume
  /\ CompleteTried
  /\ ctx' = [ctx EXCEPT !.resuming = TRUE, !.runner = TRUE, !.corr = upd.corr]
  /\ pc' = "PullTarget"
  /\ UNCHANGED <<rows, eventVars, composeVars, clock>>

CancelUpdate ==
  /\ InInitUpdate(TRUE) /\ upd.name # Foreign /\ ~CanResume
  /\ \/ Compose!Cancel /\ CompleteTried /\ pc' = "NewUpdate" /\ UNCHANGED ctx
     \/ Compose!CancelFails /\ Fault("compose") /\ Finish
  /\ UNCHANGED <<rows, eventVars, clock>>

\* Mutant of NewCorrelationId: the version alone, without the time.
VersionAsCorrelationId == VersionOf[ctx.target]

\* The version and the time of day, so a new one for every update.
NewCorrelationId == clock + 1

\* No compose update when there is nothing to install.
NewUpdate ==
  /\ pc = "NewUpdate"
  /\ clock' = clock + 1
  /\ \/ /\ ctx.required = {}
        /\ ctx' = [ctx EXCEPT !.corr = NewCorrelationId]
        /\ pc' = "PullTarget"
        /\ UNCHANGED <<composeVars, faults>>
     \/ /\ ctx.required # {}
        /\ Compose!NewUpdate(ctx.target, NewCorrelationId)
        /\ ctx' = [ctx EXCEPT !.corr = NewCorrelationId]
        /\ pc' = "RunnerInit"
        /\ UNCHANGED faults
     \/ ctx.required # {} /\ UNCHANGED composeVars /\ Fault("compose") /\ Finish
  /\ UNCHANGED <<rows, eventVars>>

RunnerInit ==
  /\ pc = "RunnerInit"
  /\ \/ /\ Compose!Init(ctx.required)
        /\ ctx' = [ctx EXCEPT !.runner = TRUE]
        /\ pc' = "PullTarget"
        /\ UNCHANGED faults
     \/ Compose!InitFails(ctx.required) /\ Fault("compose") /\ Finish
  /\ UNCHANGED <<rows, eventVars, clock>>

-----------------------------------------------------------------------------
(* PullTarget                                                              *)

\* What PullTarget, InstallTarget and StartTarget begin with: compose has the
\* operation to do, or it is passed over, by a resumed update with everything
\* that goes with it.
Invoked(states) == ctx.runner /\ upd.state \in states

\* Mutant of SkipsWhenResuming: what is already done is reported once more.
SkipsNothing(states) == FALSE

SkipsWhenResuming(states) == ctx.runner /\ upd.state \notin states /\ ctx.resuming

ToPull == {"Initialized", "Fetching"}

SkipPull ==
  /\ pc = "PullTarget" /\ SkipsWhenResuming(ToPull)
  /\ pc' = "InstallTarget"
  /\ UNCHANGED <<rows, eventVars, composeVars, clock, faults, ctx>>

PullTarget ==
  /\ pc = "PullTarget" /\ ~SkipsWhenResuming(ToPull)
  /\ \/ /\ SaveEvent("DownloadStarted", "none")
        /\ ctx' = [ctx EXCEPT !.invoke = Invoked(ToPull)]
        /\ pc' = IF Invoked(ToPull) THEN "Fetch" ELSE "PullCompleted"
        /\ UNCHANGED faults
     \/ UNCHANGED eventVars /\ Fault("event") /\ Finish
  /\ UNCHANGED <<rows, composeVars, clock>>

Fetch ==
  /\ pc = "Fetch"
  /\ \/ Compose!Fetch /\ pc' = "PullCompleted" /\ UNCHANGED faults
     \/ Compose!FetchFails /\ pc' = "PullFailed" /\ Fault("compose")
  /\ UNCHANGED <<rows, eventVars, clock, ctx>>

PullFailed ==
  /\ pc = "PullFailed"
  /\ TrySaveEvent("DownloadCompleted", "false")
  /\ Finish
  /\ UNCHANGED <<rows, composeVars, clock>>

PullCompleted ==
  /\ pc = "PullCompleted"
  /\ \/ /\ SaveEvent("DownloadCompleted", "true")
        /\ pc' = "InstallTarget"
        /\ UNCHANGED <<faults, ctx>>
     \/ UNCHANGED eventVars /\ Fault("event") /\ Finish
  /\ UNCHANGED <<rows, composeVars, clock>>

-----------------------------------------------------------------------------
(* InstallTarget                                                           *)

ToInstall == {"Fetched", "Installing"}

SkipInstall ==
  /\ pc = "InstallTarget" /\ SkipsWhenResuming(ToInstall)
  /\ pc' = "StartTarget"
  /\ UNCHANGED <<rows, eventVars, composeVars, clock, faults, ctx>>

\* RegisterInstallationStarted, first statement.  Its error is ignored.
InstallTarget ==
  /\ pc = "InstallTarget" /\ ~SkipsWhenResuming(ToInstall)
  /\ ctx' = [ctx EXCEPT !.invoke = Invoked(ToInstall)]
  /\ \/ rows' = UnsetFlags(rows, "pending") /\ pc' = "RegisterPending" /\ UNCHANGED faults
     \/ UNCHANGED rows /\ pc' = "InstallEvent" /\ Fault("db")
  /\ UNCHANGED <<eventVars, composeVars, clock>>

\* RegisterInstallationStarted, last statement.
RegisterPending ==
  /\ pc = "RegisterPending"
  /\ \/ rows' = WriteRow(rows, ctx.target, "pending") /\ UNCHANGED faults
     \/ UNCHANGED rows /\ Fault("db")
  /\ pc' = "InstallEvent"
  /\ UNCHANGED <<eventVars, composeVars, clock, ctx>>

\* The error of GenAndSaveEvent is logged, but when Install is not called it
\* is still in err at the test that follows.
InstallEvent ==
  /\ pc = "InstallEvent"
  /\ \/ /\ SaveEvent("InstallationStarted", "none")
        /\ pc' = IF ctx.invoke THEN "InstallStopApps" ELSE "InstallApplied"
        /\ UNCHANGED faults
     \/ /\ UNCHANGED eventVars /\ Fault("event")
        /\ pc' = IF ctx.invoke THEN "InstallStopApps" ELSE "InstallFailed"
  /\ UNCHANGED <<rows, composeVars, clock, ctx>>

\* compose.StopApps, whose error is ignored wherever it is called: it may stop
\* only some of the apps.
TryStopApps ==
  \/ Compose!StopApps(ctx.uninstall) /\ UNCHANGED faults
  \/ /\ Fault("compose")
     /\ \E stopped \in SUBSET ctx.uninstall : Compose!StopApps(stopped)

InstallStopApps ==
  /\ pc = "InstallStopApps"
  /\ TryStopApps
  /\ pc' = "Install"
  /\ UNCHANGED <<rows, eventVars, clock, ctx>>

Install ==
  /\ pc = "Install"
  /\ \/ Compose!Install /\ pc' = "InstallApplied" /\ UNCHANGED faults
     \/ Compose!InstallFails /\ pc' = "InstallFailed" /\ Fault("compose")
  /\ UNCHANGED <<rows, eventVars, clock, ctx>>

InstallFailed ==
  /\ pc = "InstallFailed"
  /\ TrySaveEvent("DownloadCompleted", "false")
  /\ Finish
  /\ UNCHANGED <<rows, composeVars, clock>>

InstallApplied ==
  /\ pc = "InstallApplied"
  /\ TrySaveEvent("InstallationApplied", "true")
  /\ pc' = "StartTarget"
  /\ UNCHANGED <<rows, composeVars, clock, ctx>>

-----------------------------------------------------------------------------
(* StartTarget                                                             *)

ToStart == {"Installed", "Starting"}

SkipStart ==
  /\ pc = "StartTarget" /\ SkipsWhenResuming(ToStart)
  /\ Finish
  /\ UNCHANGED <<rows, eventVars, composeVars, clock, faults>>

StartTarget ==
  /\ pc = "StartTarget" /\ ~SkipsWhenResuming(ToStart)
  /\ ctx' = [ctx EXCEPT !.invoke = Invoked(ToStart)]
  /\ TryStopApps
  /\ pc' = IF Invoked(ToStart) THEN "Start" ELSE "StartCompleted"
  /\ UNCHANGED <<rows, eventVars, clock>>

\* Mutant of Start: the error is logged, and the return after it is missing.
StartErrorIgnored ==
  /\ pc = "Start"
  /\ \/ Compose!Start /\ UNCHANGED faults
     \/ Compose!StartFails /\ Fault("compose")
  /\ pc' = "StartCompleted"
  /\ UNCHANGED <<rows, eventVars, clock, ctx>>

Start ==
  /\ pc = "Start"
  /\ \/ Compose!Start /\ pc' = "StartCompleted" /\ UNCHANGED faults
     \/ Compose!StartFails /\ pc' = "StartFailed" /\ Fault("compose")
  /\ UNCHANGED <<rows, eventVars, clock, ctx>>

StartCompleted ==
  /\ pc = "StartCompleted"
  /\ TrySaveEvent("InstallationCompleted", "true")
  /\ pc' = "RegisterSucceeded"
  /\ UNCHANGED <<rows, composeVars, clock, ctx>>

\* RegisterInstallationSuceeded, first statement.  Its error is ignored.
RegisterSucceeded ==
  /\ pc = "RegisterSucceeded"
  /\ \/ rows' = UnsetFlags(rows, "current") /\ pc' = "RegisterCurrent" /\ UNCHANGED faults
     \/ UNCHANGED rows /\ pc' = "CompleteUpdate" /\ Fault("db")
  /\ UNCHANGED <<eventVars, composeVars, clock, ctx>>

\* RegisterInstallationSuceeded, last statement.
RegisterCurrent ==
  /\ pc = "RegisterCurrent"
  /\ \/ rows' = WriteRow(rows, ctx.target, "current") /\ UNCHANGED faults
     \/ UNCHANGED rows /\ Fault("db")
  /\ pc' = "CompleteUpdate"
  /\ UNCHANGED <<eventVars, composeVars, clock, ctx>>

CompleteUpdate ==
  /\ pc = "CompleteUpdate"
  /\ \/ ctx.invoke /\ Compose!CompleteWithPruning /\ Finish /\ UNCHANGED faults
     \/ ctx.invoke /\ UNCHANGED composeVars /\ Finish /\ Fault("compose")
     \/ ~ctx.invoke /\ pc' = "StopAndRemoveApps" /\ UNCHANGED <<composeVars, faults, ctx>>
  /\ UNCHANGED <<rows, eventVars, clock>>

-----------------------------------------------------------------------------
(* StartTarget when Start fails, and rollback                              *)

StartFailed ==
  /\ pc = "StartFailed"
  /\ TrySaveEvent("InstallationCompleted", "false")
  /\ pc' = "RegisterFailed"
  /\ UNCHANGED <<rows, composeVars, clock, ctx>>

\* RegisterInstallationFailed, a single statement.
RegisterFailed ==
  /\ pc = "RegisterFailed"
  /\ \/ rows' = WriteRow(rows, ctx.target, "failed") /\ UNCHANGED faults
     \/ UNCHANGED rows /\ Fault("db")
  /\ pc' = "Rollback"
  /\ UNCHANGED <<eventVars, composeVars, clock, ctx>>

\* The update is still Starting: it is cancelled, and the current target of
\* this run becomes the target.
Rollback ==
  /\ pc = "Rollback"
  /\ \/ /\ Compose!Cancel
        /\ ctx' = [ctx EXCEPT !.runner = FALSE, !.resuming = FALSE, !.target = ctx.current]
        /\ pc' = "RollbackNewUpdate"
        /\ UNCHANGED faults
     \/ Compose!CancelFails /\ Fault("compose") /\ Finish
  /\ UNCHANGED <<rows, eventVars, clock>>

RollbackNewUpdate ==
  /\ pc = "RollbackNewUpdate"
  /\ \/ Compose!NewUpdate(ctx.target, ctx.corr) /\ pc' = "RollbackInit" /\ UNCHANGED <<faults, ctx>>
     \/ UNCHANGED composeVars /\ Fault("compose") /\ Finish
  /\ UNCHANGED <<rows, eventVars, clock>>

\* Mutant of RollbackInit: rollback goes on when the target already runs.
RollbackInitOfNil ==
  /\ pc = "RollbackInit"
  /\ \/ ctx.target = Initial /\ Finish /\ UNCHANGED <<composeVars, faults>>
     \/ /\ ctx.target # Initial
        /\ LET c == FillAndCheckAppsList(ctx)
           IN  /\ Compose!Init(c.required)
               /\ ctx' = [c EXCEPT !.runner = TRUE]
               /\ pc' = "InstallTarget"
               /\ UNCHANGED faults
  /\ UNCHANGED <<rows, eventVars, clock>>

\* Mutant of RollbackInit: where the apps are not in the store, it tries again.
RollbackInitRetried ==
  /\ pc = "RollbackInit"
  /\ \/ ctx.target = Initial /\ Finish /\ UNCHANGED <<composeVars, faults>>
     \/ /\ ctx.target # Initial
        /\ LET c == FillAndCheckAppsList(ctx)
           IN  \/ c.target = None /\ Finish /\ UNCHANGED <<composeVars, faults>>
               \/ /\ c.target # None /\ Compose!Init(c.required) /\ UNCHANGED faults
                  /\ ctx' = [c EXCEPT !.runner = TRUE]
                  /\ pc' = IF upd'.state = "Initialized" THEN "Rollback" ELSE "InstallTarget"
  /\ UNCHANGED <<rows, eventVars, clock>>

\* FillAndCheckAppsList and Init.  Rollback gives up when there was no target
\* before, when compose fails, or when the apps of the target are no longer in
\* the store; it has nothing to do when they run.
RollbackInit ==
  /\ pc = "RollbackInit"
  /\ \/ ctx.target = Initial /\ Finish /\ UNCHANGED <<composeVars, faults>>
     \/ UNCHANGED composeVars /\ Fault("compose") /\ Finish
     \/ /\ ctx.target # Initial
        /\ LET c == FillAndCheckAppsList(ctx)
           IN  \/ c.target = None /\ Finish /\ UNCHANGED <<composeVars, faults>>
               \/ c.target # None /\ Compose!InitFails(c.required) /\ Fault("compose") /\ Finish
               \/ /\ c.target # None /\ Compose!Init(c.required) /\ UNCHANGED faults
                  /\ \/ upd'.state = "Initialized" /\ Finish
                     \/ /\ upd'.state # "Initialized"
                        /\ ctx' = [c EXCEPT !.runner = TRUE]
                        /\ pc' = "InstallTarget"
  /\ UNCHANGED <<rows, eventVars, clock>>

-----------------------------------------------------------------------------
(* StopAndRemoveApps, and the end of the run                               *)

\* Mutant of StopAndRemoveApps: a run with nothing to do ends at once.
StopAndRemoveAppsExit ==
  /\ pc = "StopAndRemoveApps"
  /\ \/ ctx.uninstall = {} /\ Exit /\ UNCHANGED <<composeVars, faults>>
     \/ ctx.uninstall # {} /\ TryStopApps /\ pc' = "RemoveApps" /\ UNCHANGED ctx
  /\ UNCHANGED <<rows, eventVars, clock>>

\* compose.StopApps and compose.UninstallApps.
StopAndRemoveApps ==
  /\ pc = "StopAndRemoveApps"
  /\ \/ ctx.uninstall = {} /\ Finish /\ UNCHANGED <<composeVars, faults>>
     \/ ctx.uninstall # {} /\ TryStopApps /\ pc' = "RemoveApps" /\ UNCHANGED ctx
  /\ UNCHANGED <<rows, eventVars, clock>>

RemoveApps ==
  /\ pc = "RemoveApps"
  /\ \/ Compose!RemoveApps(ctx.uninstall) /\ UNCHANGED faults
     \/ /\ Fault("compose")
        /\ \E removed \in SUBSET ctx.uninstall : Compose!RemoveApps(removed)
  /\ Finish
  /\ UNCHANGED <<rows, eventVars, clock>>

\* FlushEvents: the events are posted in one request.  A request that gets an
\* answer, whatever its status, is followed by DeleteEvents.
FlushEvents ==
  /\ pc = "FlushEvents"
  /\ \/ table = <<>> /\ Exit /\ UNCHANGED faults
     \/ table # <<>> /\ pc' = "DeleteEvents" /\ UNCHANGED <<faults, ctx>>
     \/ table # <<>> /\ Exit /\ Fault("event")
  /\ UNCHANGED <<rows, eventVars, composeVars, clock>>

DeleteEvents ==
  /\ pc = "DeleteEvents"
  /\ \/ table' = <<>> /\ UNCHANGED faults
     \/ UNCHANGED table /\ Fault("event")
  /\ Exit
  /\ UNCHANGED <<rows, history, composeVars, clock>>

-----------------------------------------------------------------------------
(* The process dies, possibly in the middle of an operation of composeapp. *)

\* Cancel is what comes next.
Cancels ==
  \/ pc = "Rollback"
  \/ InInitUpdate(TRUE) /\ upd.name = Foreign
  \/ InInitUpdate(TRUE) /\ upd.name # Foreign /\ ~CanResume /\ upd.state # "Started"

Crash ==
  /\ pc # "Idle" /\ Fault("crash")
  /\ \/ UNCHANGED composeVars
     \/ pc = "RunnerInit" /\ Compose!InitFails(ctx.required)
     \/ pc = "Fetch" /\ Compose!FetchFails
     \/ pc = "Install" /\ Compose!InstallFails
     \/ pc = "Start" /\ Compose!StartFails
     \/ Cancels /\ Compose!CancelFails
  /\ Exit
  /\ UNCHANGED <<rows, eventVars, clock>>

\* A container dies.
AppStops ==
  /\ Fault("app")
  /\ Compose!AppStops
  /\ UNCHANGED <<rows, eventVars, clock, pc, ctx>>

-----------------------------------------------------------------------------
(***************************************************************************)
(* A device out of the factory, or one that runs the target Factory.  The  *)
(* update that another client of composeapp left behind is a fault.        *)
(***************************************************************************)
Init ==
  /\ rows = IF Factory = None THEN <<>>
            ELSE <<[name |-> Factory, is_current |-> TRUE, is_pending |-> FALSE,
                    was_installed |-> TRUE]>>
  /\ store = IF Factory = None THEN {} ELSE AppsOf[Factory]
  /\ running = store
  /\ \/ upd = Compose!NoUpdate
     \/ /\ "foreign" \in FaultKinds
        /\ upd = [name |-> Foreign, corr |-> 0, state |-> "Initialized", uris |-> {}]
  /\ table = <<>> /\ history = <<>>
  /\ clock = 0 /\ faults = 0
  /\ pc = "Idle" /\ ctx = NoContext

InitUpdateStep ==
  \/ InvalidClientRef \/ NoCurrentUpdate \/ CompleteStarted \/ ResumeUpdate
  \/ CancelUpdate \/ NewUpdate \/ RunnerInit

PullStep == SkipPull \/ PullTarget \/ Fetch \/ PullFailed \/ PullCompleted

InstallStep ==
  \/ SkipInstall \/ InstallTarget \/ RegisterPending \/ InstallEvent
  \/ InstallStopApps \/ Install \/ InstallFailed \/ InstallApplied

StartStep ==
  \/ SkipStart \/ StartTarget \/ Start \/ StartCompleted \/ RegisterSucceeded
  \/ RegisterCurrent \/ CompleteUpdate

RollbackStep ==
  StartFailed \/ RegisterFailed \/ Rollback \/ RollbackNewUpdate \/ RollbackInit

EndStep == StopAndRemoveApps \/ RemoveApps \/ FlushEvents \/ DeleteEvents

\* The steps of a process that runs.
ProcessStep ==
  InitUpdateStep \/ PullStep \/ InstallStep \/ StartStep \/ RollbackStep \/ EndStep

Next == GetTargetToInstall \/ ProcessStep \/ Crash \/ AppStops

Spec == Init /\ [][Next]_vars

\* A process that runs is scheduled.
FairSpec == Spec /\ WF_vars(ProcessStep)

\* The client is started again and again, too, and gets past its refresh: the
\* runs that do not, or that die of a target without custom metadata, leave
\* nothing behind.
PeriodicSpec == FairSpec /\ WF_vars(GetTargetToInstall)

-----------------------------------------------------------------------------
(* Safety                                                                  *)

(***************************************************************************)
(* At most one target is current and at most one is pending, whatever dies *)
(* or fails between the two statements of saveInstalledVersions, and no    *)
(* row is both: GetCurrentTarget, which keeps the last row it is given,    *)
(* never has a choice to make.                                             *)
(***************************************************************************)
OneCurrentTarget == FlagsConsistent(rows)

\* The apps of the target at hand are none, or composeapp has started them all
\* in an update made for that very target.
Started == \/ ctx.required = {}
           \/ upd.name = ctx.target /\ upd.uris = ctx.required /\ upd.state = "Started"

(***************************************************************************)
(* A target becomes the current one, and the server is told that its       *)
(* installation succeeded, only after composeapp went through fetch,       *)
(* install and start for it: in this run, in one that died, or by finding  *)
(* the apps in the store.  No path through the "if Resuming" shortcuts and *)
(* the updates left by earlier runs gets there without.                    *)
(***************************************************************************)
StartedBeforeCurrent ==
  [][/\ CurrentTargets(rows') \subseteq CurrentTargets(rows) \/ Started
     /\ pc = "StartCompleted" => Started]_vars

Saved(i, type, success) == history[i].type = type /\ history[i].success = success

SameUpdate(i, j) == history[i].name = history[j].name /\ history[i].corr = history[j].corr

(***************************************************************************)
(* InstallationCompleted with success is the last event of an update: an   *)
(* update that a later run finds, resumes, completes or cancels is not     *)
(* reported on any more.                                                   *)
(***************************************************************************)
SuccessIsFinal ==
  \A i, j \in DOMAIN history :
    Saved(i, "InstallationCompleted", "true") /\ i < j => ~SameUpdate(i, j)

\* The installation of update c has been reported as succeeded.
Over(c) ==
  \E i \in DOMAIN history :
    Saved(i, "InstallationCompleted", "true") /\ history[i].corr = c

LastCorr == IF history = <<>> THEN 0 ELSE history[Len(history)].corr

(***************************************************************************)
(* The events saved are those of one update after the other                *)
(* (UpdateReports, which counts them): an update that a crash leaves       *)
(* behind is resumed, and rolled back, under its own correlation id; no    *)
(* event of it is saved any more once there is one of a newer update, or   *)
(* the one that reports its own installation.                              *)
(***************************************************************************)
Reports == INSTANCE UpdateReports WITH
             corr <- LastCorr, over <- history = <<>> \/ Over(LastCorr),
             count <- Len(history)

OneUpdateAtATime == Reports!Spec

(***************************************************************************)
(* The installation of a target is begun once: the update that failed, or  *)
(* was interrupted, is not followed by another one of the same target,     *)
(* nor by a second begin of it after a crash, unless the device has run    *)
(* that target before.  Then it may be what it rolls back to, or what a    *)
(* repository that changed its mind offers again.                          *)
(***************************************************************************)
NotBegunAgain ==
  \A i, j \in DOMAIN history :
    /\ Saved(i, "InstallationStarted", "none") /\ Saved(j, "InstallationStarted", "none")
    /\ history[i].name = history[j].name /\ i # j
    => \/ history[i].name = Factory
       \/ \E k \in DOMAIN history : /\ Saved(k, "InstallationCompleted", "true")
                                    /\ history[k].name = history[i].name

(***************************************************************************)
(* What a rollback needs stays in the store: no step removes an app of the *)
(* target that is current in the database.  Pruning and the removal of     *)
(* apps work from lists made at the start of the run.                      *)
(***************************************************************************)
CurrentAppsKept ==
  [][LET t == GetCurrentTarget(rows)
     IN  t # Initial => AppsOf[t] \cap store \subseteq store']_vars

-----------------------------------------------------------------------------
(* Liveness                                                                *)

\* How far the end of a run is: the steps that fault-free ones may lead to are
\* those with a lower number.
StepsLeft ==
  [Idle |-> 0, DeleteEvents |-> 1, FlushEvents |-> 2, RemoveApps |-> 3,
   StopAndRemoveApps |-> 4, CompleteUpdate |-> 5, RegisterCurrent |-> 6,
   RegisterSucceeded |-> 7, StartCompleted |-> 8, Start |-> 9,
   StartTarget |-> 10, InstallApplied |-> 11, InstallFailed |-> 12,
   Install |-> 13, InstallStopApps |-> 14, InstallEvent |-> 15,
   RegisterPending |-> 16, InstallTarget |-> 17, RollbackInit |-> 18,
   RollbackNewUpdate |-> 19, Rollback |-> 20, RegisterFailed |-> 21,
   StartFailed |-> 22, PullCompleted |-> 23, PullFailed |-> 24,
   Fetch |-> 25, PullTarget |-> 26, RunnerInit |-> 27, NewUpdate |-> 28,
   InitUpdate |-> 29]

(***************************************************************************)
(* A step of a run brings its end nearer, or a fault has happened in it:   *)
(* the recursion of StartTarget and rollback gets no deeper than there are *)
(* failures of Start.                                                      *)
(***************************************************************************)
RunAdvances ==
  [][ProcessStep => faults < faults' \/ StepsLeft[pc'] < StepsLeft[pc]]_vars

(***************************************************************************)
(* Every run ends: rollback calls StartTarget, which calls rollback when   *)
(* it fails, and a failure ends in the flush of the events all the same.   *)
(***************************************************************************)
RunEnds == pc # "Idle" ~> pc = "Idle"

Newest == {t \in UNION Offers : \A u \in UNION Offers : VersionOf[u] <= VersionOf[t]}

(***************************************************************************)
(* Run again and again against one repository, the device comes to rest:   *)
(* its newest target is current, the apps of it run, and no others are     *)
(* left in the store; or that target is marked as failing.                 *)
(***************************************************************************)
Converges ==
  \E t \in Newest :
    <>[](\/ GetCurrentTarget(rows) = t /\ running = AppsOf[t] /\ store = AppsOf[t]
         \/ IsFailingTarget(rows, t))

\* The newest target is failing and there is none to go back to: the target at
\* hand is "Initial Target", and every run ends before it gets to the events.
NoWayBack ==
  GetCurrentTarget(rows) = Initial /\ \E t \in Newest : IsFailingTarget(rows, t)

(***************************************************************************)
(* What is saved is reported in the end, by the run that saved it or by a  *)
(* later one, which may have nothing else to do; but for a device that has *)
(* no target to go back to.                                                *)
(***************************************************************************)
EventsReported == table # <<>> ~> (table = <<>> \/ NoWayBack)

-----------------------------------------------------------------------------
(* What the comments of the program say, and the program does not do       *)

(***************************************************************************)
(* "Check if target is marked as failing" (updateclient.go:408): a target  *)
(* that IsFailingTarget reports has failed.  It is not so: the pending row *)
(* of an installation that a crash interrupted counts as failing as well,  *)
(* so the run that follows cancels the update instead of resuming it.      *)
(***************************************************************************)
FailingHasFailed ==
  pc = "Idle" =>
    \A t \in Targets : IsFailingTarget(rows, t) =>
      \E i \in DOMAIN history :
        Saved(i, "InstallationCompleted", "false") /\ history[i].name = t

(***************************************************************************)
(* "default value, if there is no target data in DB" (target_db.go:96):    *)
(* GetCurrentTarget answers "Initial Target" only when nothing has ever    *)
(* been installed.  It is not so: a crash between the two statements of    *)
(* saveInstalledVersions, or a sync of the current target that does not    *)
(* get to its end, leaves rows none of which is current.                   *)
(***************************************************************************)
InitialMeansNoData ==
  pc = "Idle" /\ GetCurrentTarget(rows) = Initial =>
    \A i \in DOMAIN rows : ~rows[i].was_installed

(***************************************************************************)
(* "Events will be generated" for a sync or a version update               *)
(* (updateclient.go:449): an update reported as installed has been         *)
(* reported as downloaded, unless it is a rollback, which downloads        *)
(* nothing.  It is not so for an update resumed after a crash that came    *)
(* between the end of the download and the saving of its event.            *)
(***************************************************************************)
DownloadReported ==
  \A j \in DOMAIN history :
    Saved(j, "InstallationCompleted", "true") =>
      \E i \in 1 .. (j - 1) :
        \/ Saved(i, "DownloadCompleted", "true") /\ SameUpdate(i, j)
        \/ Saved(i, "InstallationCompleted", "false") /\ history[i].corr = history[j].corr
=============================================================================
