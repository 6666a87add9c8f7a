---------------------------- MODULE ReportsProofs ----------------------------
(***************************************************************************)
(* What UpdateClient reports: it implements UpdateReports, one update      *)
(* after the other, for any targets, apps, offers, faults and bounds.      *)
(***************************************************************************)
EXTENDS UpdateClientProofs

\* The updates that have been reported on, and those that are over.
Corrs == {history[i].corr : i \in DOMAIN history}

Finished ==
  {history[i].corr : i \in {j \in DOMAIN history : Saved(j, "InstallationCompleted", "true")}}

Number(c) == c \in Nat /\ 0 < c /\ c <= clock /\ \A d \in Corrs : d <= c

(***************************************************************************)
(* The runner is a handle on an active update, the one that the context    *)
(* reports on; without a runner no update is active but the one that is    *)
(* just being made.  A run invokes composeapp, and rolls back, only        *)
(* through a runner.                                                       *)
(***************************************************************************)
Invoking == {"Fetch", "InstallStopApps", "Install", "Start", "StartFailed",
             "RegisterFailed", "Rollback"}

RunnerSteps ==
  UpdateSteps \cup {"PullFailed", "InstallFailed", "StartCompleted", "StartFailed",
                    "RegisterFailed", "RegisterSucceeded", "RegisterCurrent",
                    "CompleteUpdate", "Rollback"}

LinkInv ==
  /\ pc \in {"NewUpdate", "RollbackNewUpdate"} => ~Compose!IsActive
  /\ pc \in {"RunnerInit", "RollbackInit"} =>
       Compose!IsActive /\ upd.corr = ctx.corr
  /\ pc \in RunnerSteps =>
       IF ctx.runner THEN Compose!IsActive /\ upd.corr = ctx.corr ELSE ~Compose!IsActive
  /\ pc \in Invoking => ctx.runner
  /\ pc \in {"RegisterPending", "InstallEvent"} /\ ctx.invoke => ctx.runner
  /\ pc = "StartCompleted" /\ ctx.runner => upd.state = "Started"

(***************************************************************************)
(* No event is of an update that is yet to come.  An update of this        *)
(* program that is active is the last one reported on, or a newer one; if  *)
(* it is over, all that is left to do is to complete or to cancel it.      *)
(***************************************************************************)
Resumable == Compose!IsActive /\ upd.name # Foreign

LastInv ==
  /\ \A c \in Corrs : 0 < c /\ c <= clock
  /\ Finished \subseteq Corrs
  /\ Resumable => Number(upd.corr)
  /\ Resumable /\ upd.corr \in Finished => upd.state \in {"Started", "Cancelling"}

(***************************************************************************)
(* So is the update that the run works on; if it is over, the run has just *)
(* said so, or it has resumed it and skips everything.                     *)
(***************************************************************************)
Working == RunnerSteps \cup {"RunnerInit", "RollbackNewUpdate", "RollbackInit"}

Skipping ==
  /\ pc \in {"PullTarget", "InstallTarget", "StartTarget"}
  /\ ctx.runner /\ ctx.resuming /\ upd.state = "Started"

RunInv ==
  /\ pc \in Working => Number(ctx.corr)
  /\ pc \in Working /\ ctx.corr \in Finished =>
       pc \in {"RegisterSucceeded", "RegisterCurrent", "CompleteUpdate"} \/ Skipping

ReportInv == LinkInv /\ LastInv /\ RunInv

-----------------------------------------------------------------------------
(* Lemmas about the calls of composeapp and the history                    *)

Moves(states) ==
  upd'.name = upd.name /\ upd'.corr = upd.corr /\ upd'.state \in states

LEMMA ComposeMoves ==
  ASSUME TypeInv
  PROVE  /\ Compose!Fetch => Moves({"Fetched"})
         /\ Compose!FetchFails => Moves({"Fetching"})
         /\ Compose!Install => Moves({"Installed"})
         /\ Compose!InstallFails => Moves({"Installing"})
         /\ Compose!Start => Moves({"Started"})
         /\ Compose!StartFails => Moves({"Starting"})
         /\ Compose!Complete => Moves({"Completed"})
         /\ Compose!CompleteWithPruning => Moves({"Completed"})
         /\ Compose!Cancel => Moves({"Canceled"})
         /\ Compose!CancelFails => Moves({upd.state, "Cancelling"})
<1>1. upd \in Compose!Update
  BY DEF TypeInv, TypeOK, Compose!ComposeTypeOK
<1>2. ASSUME NEW s, upd' = [upd EXCEPT !.state = s] PROVE Moves({s})
  BY <1>1, <1>2 DEF Moves, Compose!Update
<1>3. Compose!CancelFails => Moves({upd.state, "Cancelling"})
  BY <1>2 DEF Compose!CancelFails, Moves
<1> QED
  BY <1>2, <1>3 DEF Compose!Fetch, Compose!FetchFails, Compose!Install, Compose!InstallFails,
              Compose!Start, Compose!StartFails, Compose!Complete,
              Compose!CompleteWithPruning, Compose!Cancel

LEMMA InitMoves ==
  ASSUME TypeInv, NEW uris
  PROVE  /\ Compose!Init(uris) => Moves({"Initialized", "Fetched", "Installed"})
         /\ Compose!InitFails(uris) => Moves({"Initializing"})
<1>1. upd \in Compose!Update
  BY DEF TypeInv, TypeOK, Compose!ComposeTypeOK
<1> QED
  BY <1>1 DEF Compose!Init, Compose!InitFails, Moves, Compose!Update

LEMMA AppsKeepUpdate ==
  ASSUME NEW apps, Compose!StopApps(apps) \/ Compose!RemoveApps(apps) \/ Compose!AppStops
  PROVE  upd' = upd
BY DEF Compose!StopApps, Compose!RemoveApps, Compose!AppStops

LEMMA TryStopAppsKeepsUpdate ==
  ASSUME TryStopApps PROVE upd' = upd
BY AppsKeepUpdate DEF TryStopApps

\* What a saved event adds.
LEMMA SaveEventAdds ==
  ASSUME TypeInv, NEW type, NEW success, SaveEvent(type, success)
  PROVE  /\ Corrs' = Corrs \cup {ctx.corr}
         /\ type = "InstallationCompleted" /\ success = "true" =>
              Finished' = Finished \cup {ctx.corr}
         /\ ~(type = "InstallationCompleted" /\ success = "true") => Finished' = Finished
<1> DEFINE evt == [type |-> type, success |-> success, name |-> ctx.target,
                   corr |-> ctx.corr]
           n == Len(history) + 1
<1>1. history' = Append(history, evt) /\ history \in Seq(Event)
  BY DEF SaveEvent, TypeInv, TypeOK
<1>2. evt.type = type /\ evt.success = success /\ evt.corr = ctx.corr
  OBVIOUS
<1> HIDE DEF evt
<1>3. /\ DOMAIN history' = DOMAIN history \cup {n}
      /\ n \notin DOMAIN history
      /\ history'[n] = evt
      /\ \A i \in DOMAIN history : history'[i] = history[i]
  BY <1>1
<1> HIDE DEF n
<1>4. Corrs' = Corrs \cup {ctx.corr}
  BY <1>2, <1>3 DEF Corrs
<1> DEFINE Ends(h, i) == h[i].type = "InstallationCompleted" /\ h[i].success = "true"
           Ended(h) == {h[i].corr : i \in {j \in DOMAIN h : Ends(h, j)}}
<1>5. Finished = Ended(history) /\ Finished' = Ended(history')
  BY DEF Finished, Saved
<1>6. \A i \in DOMAIN history : Ends(history', i) <=> Ends(history, i)
  BY <1>3
<1>7. Ends(history', n) <=> type = "InstallationCompleted" /\ success = "true"
  BY <1>2, <1>3
<1> HIDE DEF Ends
<1>8. ASSUME Ends(history', n) PROVE Ended(history') = Ended(history) \cup {ctx.corr}
  BY <1>2, <1>3, <1>6, <1>8
<1>9. ASSUME ~Ends(history', n) PROVE Ended(history') = Ended(history)
  BY <1>2, <1>3, <1>6, <1>9
<1> HIDE DEF Ended
<1> QED
  BY <1>4, <1>5, <1>7, <1>8, <1>9

-----------------------------------------------------------------------------
(* The runner and the update                                               *)

LEMMA LinkInvInit == Init => LinkInv
BY DEF Init, LinkInv, RunnerSteps, UpdateSteps, Invoking

LEMMA LinkInvElsewhere ==
  ASSUME pc' \in EndSteps \cup {"InitUpdate"}
  PROVE  LinkInv'
BY DEF LinkInv, RunnerSteps, UpdateSteps, Invoking, EndSteps

LEMMA LinkInvInitUpdate == TypeInv /\ UpdateInv /\ LinkInv /\ InitUpdateStep => LinkInv'
<1> SUFFICES ASSUME TypeInv, UpdateInv, LinkInv, InitUpdateStep PROVE LinkInv'
  OBVIOUS
<1> USE DEF LinkInv, RunnerSteps, UpdateSteps, Invoking, Compose!IsActive
<1>1. ctx \in Context
  BY DEF TypeInv, TypeOK
<1>2. CASE Finish \/ Exit
  BY <1>2, LinkInvElsewhere DEF Finish, Exit, EndSteps
<1>3. CASE NoCurrentUpdate \/ CompleteStarted
  BY <1>3, ComposeMoves
  DEF NoCurrentUpdate, CompleteStarted, InInitUpdate, composeVars, Moves
<1>4. CASE ResumeUpdate
  <2>1. /\ pc' = "PullTarget" /\ upd' = upd
        /\ ctx'.runner /\ ctx'.corr = upd.corr
    BY <1>1, <1>4 DEF ResumeUpdate, composeVars, Context
  <2> QED
    BY <1>4, <2>1 DEF ResumeUpdate, InInitUpdate
<1>5. CASE (CancelUpdate \/ InvalidClientRef) /\ ~Finish /\ ~Exit
  <2>1. pc' = "NewUpdate" /\ upd'.state = "Canceled"
    BY <1>5, ComposeMoves DEF CancelUpdate, InvalidClientRef, Moves
  <2> QED
    BY <2>1
<1>6. CASE NewUpdate /\ ~Finish
  <2>1. ~Compose!IsActive /\ ~ctx.runner
    BY <1>6 DEF NewUpdate, UpdateInv
  <2>2. ctx' = [ctx EXCEPT !.corr = NewCorrelationId]
    BY <1>6 DEF NewUpdate
  <2>3. ~ctx'.runner /\ ctx'.corr = NewCorrelationId
    BY <1>1, <2>1, <2>2 DEF Context
  <2>4. CASE pc' = "PullTarget"
    BY <1>6, <2>1, <2>3, <2>4 DEF NewUpdate, composeVars
  <2>5. CASE pc' = "RunnerInit"
    <3>1. Compose!NewUpdate(ctx.target, NewCorrelationId)
      BY <1>6, <2>5 DEF NewUpdate
    <3>2. upd'.state = "Created" /\ upd'.corr = NewCorrelationId
      BY <3>1 DEF Compose!NewUpdate
    <3> QED
      BY <2>3, <2>5, <3>2
  <2> QED
    BY <1>6, <2>4, <2>5 DEF NewUpdate
<1>7. CASE RunnerInit /\ ~Finish
  <2>1. pc' = "PullTarget" /\ ctx' = [ctx EXCEPT !.runner = TRUE]
    BY <1>7 DEF RunnerInit
  <2>2. ctx'.runner /\ ctx'.corr = ctx.corr
    BY <1>1, <2>1 DEF Context
  <2>3. /\ upd'.corr = upd.corr
        /\ upd'.state \in {"Initialized", "Fetched", "Installed"}
    BY <1>7, InitMoves DEF RunnerInit, Moves
  <2>4. upd.corr = ctx.corr
    BY <1>7 DEF RunnerInit
  <2> QED
    BY <2>1, <2>2, <2>3, <2>4
<1> QED
  BY <1>2, <1>3, <1>4, <1>5, <1>6, <1>7 DEF InitUpdateStep

LEMMA LinkInvPull == TypeInv /\ LinkInv /\ PullStep => LinkInv'
<1> SUFFICES ASSUME TypeInv, LinkInv, PullStep PROVE LinkInv'
  OBVIOUS
<1> USE DEF LinkInv, RunnerSteps, UpdateSteps, Invoking, Compose!IsActive
<1>1. ctx \in Context
  BY DEF TypeInv, TypeOK
<1>2. CASE Finish
  BY <1>2, LinkInvElsewhere DEF Finish, EndSteps
<1>3. CASE SkipPull
  BY <1>3 DEF SkipPull, composeVars
<1>4. CASE PullTarget /\ ~Finish
  <2>1. /\ ctx' = [ctx EXCEPT !.invoke = Invoked(ToPull)] /\ upd' = upd
        /\ pc' = IF Invoked(ToPull) THEN "Fetch" ELSE "PullCompleted"
    BY <1>4 DEF PullTarget, composeVars
  <2>2. ctx'.runner = ctx.runner /\ ctx'.corr = ctx.corr
    BY <1>1, <2>1 DEF Context
  <2> QED
    BY <1>4, <2>1, <2>2 DEF PullTarget, Invoked
<1>5. CASE Fetch
  <2>1. /\ pc' \in {"PullCompleted", "PullFailed"} /\ ctx' = ctx
        /\ upd'.corr = upd.corr /\ upd'.state \in {"Fetched", "Fetching"}
    BY <1>5, ComposeMoves DEF Fetch, Moves
  <2> QED
    BY <1>5, <2>1 DEF Fetch
<1>6. CASE PullCompleted /\ ~Finish
  BY <1>6 DEF PullCompleted, composeVars
<1> QED
  BY <1>2, <1>3, <1>4, <1>5, <1>6 DEF PullStep, PullFailed

LEMMA LinkInvInstall == TypeInv /\ LinkInv /\ InstallStep => LinkInv'
<1> SUFFICES ASSUME TypeInv, LinkInv, InstallStep PROVE LinkInv'
  OBVIOUS
<1> USE DEF LinkInv, RunnerSteps, UpdateSteps, Invoking, Compose!IsActive
<1>1. ctx \in Context
  BY DEF TypeInv, TypeOK
<1>2. CASE Finish
  BY <1>2, LinkInvElsewhere DEF Finish, EndSteps
<1>3. CASE SkipInstall
  BY <1>3 DEF SkipInstall, composeVars
<1>4. CASE InstallTarget
  <2>1. /\ ctx' = [ctx EXCEPT !.invoke = Invoked(ToInstall)] /\ upd' = upd
        /\ pc' \in {"RegisterPending", "InstallEvent"}
    BY <1>4 DEF InstallTarget, composeVars
  <2>2. /\ ctx'.runner = ctx.runner /\ ctx'.corr = ctx.corr
        /\ ctx'.invoke = Invoked(ToInstall)
    BY <1>1, <2>1 DEF Context
  <2> QED
    BY <1>4, <2>1, <2>2 DEF InstallTarget, Invoked
<1>5. CASE RegisterPending
  BY <1>5 DEF RegisterPending, composeVars
<1>6. CASE InstallEvent
  BY <1>6 DEF InstallEvent, composeVars
<1>7. CASE InstallStopApps
  BY <1>7, TryStopAppsKeepsUpdate DEF InstallStopApps
<1>8. CASE Install
  <2>1. /\ pc' \in {"InstallApplied", "InstallFailed"} /\ ctx' = ctx
        /\ upd'.corr = upd.corr /\ upd'.state \in {"Installed", "Installing"}
    BY <1>8, ComposeMoves DEF Install, Moves
  <2> QED
    BY <1>8, <2>1 DEF Install
<1>9. CASE InstallApplied
  BY <1>9 DEF InstallApplied, composeVars
<1> QED
  BY <1>2, <1>3, <1>4, <1>5, <1>6, <1>7, <1>8, <1>9 DEF InstallStep, InstallFailed

LEMMA LinkInvStart == TypeInv /\ UpdateInv /\ LinkInv /\ StartStep => LinkInv'
<1> SUFFICES ASSUME TypeInv, UpdateInv, LinkInv, StartStep PROVE LinkInv'
  OBVIOUS
<1> USE DEF LinkInv, RunnerSteps, UpdateSteps, Invoking, Compose!IsActive
<1>1. ctx \in Context
  BY DEF TypeInv, TypeOK
<1>2. CASE pc' \in EndSteps
  BY <1>2, LinkInvElsewhere
<1>3. CASE StartTarget
  <2>1. /\ ctx' = [ctx EXCEPT !.invoke = Invoked(ToStart)] /\ upd' = upd
        /\ pc' = IF Invoked(ToStart) THEN "Start" ELSE "StartCompleted"
    BY <1>3, TryStopAppsKeepsUpdate DEF StartTarget
  <2>2. ctx'.runner = ctx.runner /\ ctx'.corr = ctx.corr
    BY <1>1, <2>1 DEF Context
  <2>3. CASE Invoked(ToStart)
    BY <1>3, <2>1, <2>2, <2>3 DEF StartTarget, Invoked
  <2>4. CASE ~Invoked(ToStart)
    <3>1. ~ctx.runner
      BY <1>3, <2>4 DEF StartTarget, Invoked, SkipsWhenResuming, UpdateInv
    <3> QED
      BY <1>3, <2>1, <2>2, <2>4, <3>1 DEF StartTarget
  <2> QED
    BY <2>3, <2>4
<1>4. CASE Start
  <2>1. /\ ctx' = ctx /\ upd'.corr = upd.corr
        /\ \/ pc' = "StartCompleted" /\ upd'.state = "Started"
           \/ pc' = "StartFailed" /\ upd'.state = "Starting"
    BY <1>4, ComposeMoves DEF Start, Moves
  <2> QED
    BY <1>4, <2>1 DEF Start
<1>5. CASE StartCompleted \/ RegisterSucceeded \/ RegisterCurrent
  BY <1>5 DEF StartCompleted, RegisterSucceeded, RegisterCurrent, composeVars
<1> QED
  BY <1>2, <1>3, <1>4, <1>5 DEF StartStep, SkipStart, CompleteUpdate, Finish, EndSteps

LEMMA FillAndCheckKeepsNumber ==
  ASSUME TypeInv, ctx.target \in Targets
  PROVE  /\ FillAndCheckAppsList(ctx) \in Context
         /\ FillAndCheckAppsList(ctx).corr = ctx.corr
<1>1. ctx \in Context /\ store \subseteq Apps
  BY DEF TypeInv, TypeOK, Compose!ComposeTypeOK
<1>2. FillAndCheckAppsList(ctx) \in Context
  BY <1>1, FillAndCheckAppsListType
<1>3. /\ FillAppsList(ctx).corr = ctx.corr
      /\ \A c : [FillAppsList(ctx) EXCEPT !.target = None, !.required = {}].corr
                = FillAppsList(ctx).corr
  BY <1>1 DEF FillAppsList, Context
<1> QED
  BY <1>2, <1>3 DEF FillAndCheckAppsList

LEMMA LinkInvRollback == TypeInv /\ UpdateInv /\ LinkInv /\ RollbackStep => LinkInv'
<1> SUFFICES ASSUME TypeInv, UpdateInv, LinkInv, RollbackStep PROVE LinkInv'
  OBVIOUS
<1> USE DEF LinkInv, RunnerSteps, UpdateSteps, Invoking, Compose!IsActive
<1>1. ctx \in Context
  BY DEF TypeInv, TypeOK
<1>2. CASE Finish
  BY <1>2, LinkInvElsewhere DEF Finish, EndSteps
<1>3. CASE StartFailed \/ RegisterFailed
  BY <1>3 DEF StartFailed, RegisterFailed, composeVars
<1>4. CASE Rollback /\ ~Finish
  <2>1. pc' = "RollbackNewUpdate" /\ upd'.state = "Canceled"
    BY <1>4, ComposeMoves DEF Rollback, Moves
  <2> QED
    BY <2>1
<1>5. CASE RollbackNewUpdate /\ ~Finish
  <2>1. pc' = "RollbackInit" /\ ctx' = ctx /\ upd'.state = "Created" /\ upd'.corr = ctx.corr
    BY <1>5 DEF RollbackNewUpdate, Compose!NewUpdate
  <2> QED
    BY <2>1
<1>6. CASE RollbackInit /\ ~Finish
  <2> DEFINE c == FillAndCheckAppsList(ctx)
  <2>1. /\ ctx.target # Initial /\ Compose!Init(c.required)
        /\ ctx' = [c EXCEPT !.runner = TRUE] /\ pc' = "InstallTarget"
    BY <1>6 DEF RollbackInit
  <2>2. ctx.target \in Targets
    BY <1>6, <2>1 DEF RollbackInit, TypeInv, HasTarget, EndSteps, Context, TypeOK
  <2>3. c \in Context /\ c.corr = ctx.corr
    BY <2>2, FillAndCheckKeepsNumber
  <2> HIDE DEF c
  <2>4. ctx'.runner /\ ctx'.corr = ctx.corr
    BY <2>1, <2>3 DEF Context
  <2>5. /\ upd'.corr = upd.corr
        /\ upd'.state \in {"Initialized", "Fetched", "Installed"}
    BY <2>1, InitMoves DEF Moves
  <2>6. upd.corr = ctx.corr
    BY <1>6 DEF RollbackInit
  <2> QED
    BY <2>1, <2>4, <2>5, <2>6
<1> QED
  BY <1>2, <1>3, <1>4, <1>5, <1>6 DEF RollbackStep

LEMMA LinkInvStep == TypeInv /\ UpdateInv /\ LinkInv /\ [Next]_vars => LinkInv'
<1> SUFFICES ASSUME TypeInv, UpdateInv, LinkInv, [Next]_vars PROVE LinkInv'
  OBVIOUS
<1>1. CASE GetTargetToInstall \/ EndStep \/ Crash
  BY <1>1, LinkInvElsewhere
  DEF GetTargetToInstall, EndStep, StopAndRemoveApps, RemoveApps, FlushEvents,
      DeleteEvents, Crash, Finish, Exit, EndSteps
<1>2. CASE AppStops \/ UNCHANGED vars
  <2>1. upd' = upd /\ pc' = pc /\ ctx' = ctx
    BY <1>2, AppsKeepUpdate DEF AppStops, vars
  <2> QED
    BY <2>1 DEF LinkInv, Compose!IsActive
<1> QED
  BY <1>1, <1>2, LinkInvInitUpdate, LinkInvPull, LinkInvInstall, LinkInvStart,
     LinkInvRollback
  DEF Next, ProcessStep

-----------------------------------------------------------------------------
(* The numbers of the updates                                              *)

LEMMA HistoryKept ==
  ASSUME history' = history
  PROVE  Corrs' = Corrs /\ Finished' = Finished
<1>1. Corrs' = Corrs
  BY DEF Corrs
<1>2. Finished' = Finished
  BY DEF Finished, Saved
<1> QED
  BY <1>1, <1>2

LEMMA CorrsNat ==
  ASSUME TypeInv
  PROVE  \A d \in Corrs : d \in Nat
<1>1. \A i \in DOMAIN history : history[i] \in Event
  BY DEF TypeInv, TypeOK
<1> QED
  BY <1>1 DEF Corrs, Event

LEMMA ActiveIsCurrent ==
  ASSUME LinkInv, pc \in Working, Compose!IsActive
  PROVE  upd.corr = ctx.corr
BY DEF LinkInv, Working

\* The update is left alone, ended, or cancelled in vain.
Quiet ==
  \/ upd' = upd
  \/ ~Compose!IsActive'
  \/ Compose!IsActive /\ Moves({upd.state, "Cancelling"})

LEMMA LastInvQuiet ==
  ASSUME LastInv, history' = history, clock' = clock, Quiet
  PROVE  LastInv'
<1>1. Corrs' = Corrs /\ Finished' = Finished
  BY HistoryKept
<1>2. Resumable' => /\ Resumable /\ upd'.corr = upd.corr
                    /\ upd'.state \in {upd.state, "Cancelling"}
  BY DEF Quiet, Moves, Resumable, Compose!IsActive
<1> QED
  BY <1>1, <1>2 DEF LastInv, Number

LEMMA RunInvElsewhere ==
  ASSUME pc' \notin Working
  PROVE  RunInv'
BY DEF RunInv

\* A run reports on an update that is not over.
LEMMA NotOver ==
  ASSUME RunInv, pc \in Working, ~Skipping,
         pc \notin {"RegisterSucceeded", "RegisterCurrent", "CompleteUpdate"}
  PROVE  ctx.corr \notin Finished
BY DEF RunInv

\* A step of a run that works on an update that is not over, nor is after it.
LEMMA WorkStep ==
  ASSUME TypeInv, LastInv, RunInv, pc \in Working, ctx.corr \notin Finished,
         \/ history' = history
         \/ SaveEvent("DownloadStarted", "none") \/ SaveEvent("DownloadCompleted", "true")
         \/ SaveEvent("DownloadCompleted", "false")
         \/ SaveEvent("InstallationStarted", "none")
         \/ SaveEvent("InstallationApplied", "true")
         \/ SaveEvent("InstallationCompleted", "false"),
         clock' = clock,
         Compose!IsActive' => upd'.corr = ctx.corr,
         pc' \notin Working \/ ctx'.corr = ctx.corr
  PROVE  LastInv' /\ RunInv'
<1>1. Corrs' \in {Corrs, Corrs \cup {ctx.corr}} /\ Finished' = Finished
  BY HistoryKept, SaveEventAdds
<1>2. Number(ctx.corr)
  BY DEF RunInv
<1>3. \A c : c = ctx.corr => c \in Nat /\ 0 < c /\ c <= clock /\ \A d \in Corrs' : d <= c
  BY <1>1, <1>2 DEF Number
<1>4. LastInv'
  BY <1>1, <1>2, <1>3 DEF LastInv, Resumable, Number
<1>5. RunInv'
  BY <1>1, <1>3 DEF RunInv, Number
<1> QED
  BY <1>4, <1>5

LEMMA NumbersInit == Init => LastInv /\ RunInv
<1> SUFFICES ASSUME Init PROVE LastInv /\ RunInv
  OBVIOUS
<1>1. Corrs = {} /\ Finished = {}
  BY DEF Init, Corrs, Finished
<1>2. ~Resumable
  BY DEF Init, Resumable, Compose!IsActive, Compose!NoUpdate
<1> QED
  BY <1>1, <1>2 DEF Init, LastInv, RunInv, Working, RunnerSteps, UpdateSteps

LEMMA NumbersInitUpdate ==
  TypeInv /\ UpdateInv /\ LinkInv /\ LastInv /\ RunInv /\ InitUpdateStep => LastInv' /\ RunInv'
<1> SUFFICES ASSUME TypeInv, UpdateInv, LinkInv, LastInv, RunInv, InitUpdateStep
             PROVE  LastInv' /\ RunInv'
  OBVIOUS
<1>1. ctx \in Context /\ clock \in Nat
  BY DEF TypeInv, TypeOK
<1>2. ASSUME pc' \notin Working, history' = history, clock' = clock, Quiet
      PROVE  LastInv' /\ RunInv'
  BY <1>2, LastInvQuiet, RunInvElsewhere
<1>3. Compose!Cancel \/ Compose!Complete \/ (Compose!CancelFails /\ Compose!IsActive) => Quiet
  BY ComposeMoves DEF Moves, Quiet, Compose!IsActive
<1>4. CASE InvalidClientRef \/ NoCurrentUpdate \/ CompleteStarted \/ CancelUpdate
  <2>1. pc' \notin Working
    BY <1>4 DEF InvalidClientRef, NoCurrentUpdate, CompleteStarted, CancelUpdate,
                Finish, Exit, Working, RunnerSteps, UpdateSteps
  <2>2. history' = history /\ clock' = clock
    BY <1>4 DEF InvalidClientRef, NoCurrentUpdate, CompleteStarted, CancelUpdate, eventVars
  <2>3. Quiet
    BY <1>3, <1>4 DEF InvalidClientRef, NoCurrentUpdate, CompleteStarted, CancelUpdate,
                      InInitUpdate, Quiet, composeVars
  <2> QED
    BY <1>2, <2>1, <2>2, <2>3
<1>5. CASE ResumeUpdate
  <2>1. /\ pc' = "PullTarget" /\ upd' = upd /\ history' = history /\ clock' = clock
        /\ ctx'.runner /\ ctx'.resuming /\ ctx'.corr = upd.corr
    BY <1>1, <1>5 DEF ResumeUpdate, composeVars, eventVars, Context
  <2>2. Resumable
    BY <1>5 DEF ResumeUpdate, InInitUpdate, Resumable
  <2>3. LastInv'
    BY <2>1, LastInvQuiet DEF Quiet
  <2>4. Number(upd.corr) /\ (upd.corr \in Finished => upd.state = "Started")
    BY <1>5, <2>2 DEF LastInv, ResumeUpdate, CanResume
  <2> QED
    BY <2>1, <2>3, <2>4, HistoryKept DEF RunInv, Number, Skipping
<1>6. CASE NewUpdate
  <2>1. history' = history /\ clock' = clock + 1 /\ ~Compose!IsActive
    BY <1>6 DEF NewUpdate, eventVars, LinkInv
  <2>2. Corrs' = Corrs /\ Finished' = Finished
    BY <2>1, HistoryKept
  <2> DEFINE new == clock + 1
  <2>3. new \notin Corrs /\ new \notin Finished
    BY <1>1 DEF LastInv
  <2>4. \A c : c = new => c \in Nat /\ 0 < c /\ c <= clock' /\ \A d \in Corrs' : d <= c
    BY <1>1, <2>1, <2>2, CorrsNat DEF LastInv
  <2>5. upd' = upd \/ upd'.corr = new
    BY <1>6 DEF NewUpdate, composeVars, Compose!NewUpdate, NewCorrelationId
  <2>6. pc' \notin Working \/ ctx'.corr = new
    <3>1. Finish => pc' \notin Working
      BY DEF Finish, Working, RunnerSteps, UpdateSteps
    <3>2. ctx' = [ctx EXCEPT !.corr = NewCorrelationId] => ctx'.corr = new
      BY <1>1 DEF Context, NewCorrelationId
    <3> QED
      BY <1>6, <3>1, <3>2 DEF NewUpdate
  <2> HIDE DEF new
  <2>7. LastInv'
    <3>1. \A c \in Corrs' : 0 < c /\ c <= clock'
      BY <1>1, <2>1, <2>2, CorrsNat DEF LastInv
    <3>2. Resumable' => upd'.corr = new
      BY <2>1, <2>5 DEF Resumable, Compose!IsActive
    <3> QED
      BY <2>2, <2>3, <2>4, <3>1, <3>2 DEF LastInv, Number
  <2>8. RunInv'
    BY <2>2, <2>3, <2>4, <2>6 DEF RunInv, Number
  <2> QED
    BY <2>7, <2>8
<1>7. CASE RunnerInit
  <2>1. history' = history /\ clock' = clock
    BY <1>7 DEF RunnerInit, eventVars
  <2>2. pc \in Working /\ ctx.corr \notin Finished
    BY <1>7, NotOver DEF RunnerInit, Skipping, Working
  <2>3. upd'.corr = ctx.corr
    BY <1>7, InitMoves DEF RunnerInit, LinkInv, Moves
  <2>4. pc' \notin Working \/ ctx'.corr = ctx.corr
    <3>1. Finish => pc' \notin Working
      BY DEF Finish, Working, RunnerSteps, UpdateSteps
    <3>2. ctx' = [ctx EXCEPT !.runner = TRUE] => ctx'.corr = ctx.corr
      BY <1>1 DEF Context
    <3> QED
      BY <1>7, <3>1, <3>2 DEF RunnerInit
  <2> QED
    BY <2>1, <2>2, <2>3, <2>4, WorkStep
<1> QED
  BY <1>4, <1>5, <1>6, <1>7 DEF InitUpdateStep

LEMMA FinishIsNotWorking ==
  ASSUME Finish PROVE pc' \notin Working
BY DEF Finish, Working, RunnerSteps, UpdateSteps

LEMMA NumbersPull ==
  TypeInv /\ LinkInv /\ LastInv /\ RunInv /\ PullStep => LastInv' /\ RunInv'
<1> SUFFICES ASSUME TypeInv, LinkInv, LastInv, RunInv, PullStep
             PROVE  LastInv' /\ RunInv'
  OBVIOUS
<1>1. ctx \in Context
  BY DEF TypeInv, TypeOK
<1>2. CASE SkipPull
  <2>1. /\ history' = history /\ clock' = clock /\ upd' = upd /\ ctx' = ctx
        /\ pc = "PullTarget" /\ pc' = "InstallTarget"
    BY <1>2 DEF SkipPull, eventVars, composeVars
  <2>2. LastInv'
    BY <2>1, LastInvQuiet DEF Quiet
  <2>3. RunInv'
    BY <2>1, HistoryKept
    DEF RunInv, Number, Skipping, Working, RunnerSteps, UpdateSteps
  <2> QED
    BY <2>2, <2>3
<1>3. CASE PullTarget
  <2>1. /\ history' = history \/ SaveEvent("DownloadStarted", "none")
        /\ clock' = clock /\ upd' = upd
    BY <1>3 DEF PullTarget, eventVars, composeVars
  <2>2. pc \in Working /\ ctx.corr \notin Finished
    BY <1>3, NotOver
    DEF PullTarget, SkipsWhenResuming, ToPull, Skipping, Working, RunnerSteps, UpdateSteps
  <2>3. Compose!IsActive' => upd'.corr = ctx.corr
    BY <2>1, <2>2, ActiveIsCurrent DEF Compose!IsActive
  <2>4. pc' \notin Working \/ ctx'.corr = ctx.corr
    <3>1. ctx' = [ctx EXCEPT !.invoke = Invoked(ToPull)] => ctx'.corr = ctx.corr
      BY <1>1 DEF Context
    <3> QED
      BY <1>3, <3>1, FinishIsNotWorking DEF PullTarget
  <2> QED
    BY <2>1, <2>2, <2>3, <2>4, WorkStep
<1>4. CASE Fetch
  <2>1. /\ history' = history /\ clock' = clock /\ ctx' = ctx /\ upd'.corr = upd.corr
        /\ pc = "Fetch"
    BY <1>4, ComposeMoves DEF Fetch, Moves, eventVars
  <2>2. pc \in Working /\ ctx.corr \notin Finished
    BY <2>1, NotOver DEF Skipping, Working, RunnerSteps, UpdateSteps
  <2>3. upd.corr = ctx.corr
    BY <2>1 DEF LinkInv, Invoking, RunnerSteps, UpdateSteps
  <2> QED
    BY <2>1, <2>2, <2>3, WorkStep
<1>5. CASE PullFailed \/ PullCompleted
  <2>1. /\ \/ history' = history \/ SaveEvent("DownloadCompleted", "true")
           \/ SaveEvent("DownloadCompleted", "false")
        /\ clock' = clock /\ upd' = upd /\ pc \in {"PullFailed", "PullCompleted"}
    BY <1>5 DEF PullFailed, PullCompleted, TrySaveEvent, eventVars, composeVars
  <2>2. pc \in Working /\ ctx.corr \notin Finished
    BY <2>1, NotOver DEF Skipping, Working, RunnerSteps, UpdateSteps
  <2>3. Compose!IsActive' => upd'.corr = ctx.corr
    BY <2>1, <2>2, ActiveIsCurrent DEF Compose!IsActive
  <2>4. pc' \notin Working \/ ctx'.corr = ctx.corr
    BY <1>5, FinishIsNotWorking DEF PullFailed, PullCompleted
  <2> QED
    BY <2>1, <2>2, <2>3, <2>4, WorkStep
<1> QED
  BY <1>2, <1>3, <1>4, <1>5 DEF PullStep

LEMMA NumbersInstall ==
  TypeInv /\ LinkInv /\ LastInv /\ RunInv /\ InstallStep => LastInv' /\ RunInv'
<1> SUFFICES ASSUME TypeInv, LinkInv, LastInv, RunInv, InstallStep
             PROVE  LastInv' /\ RunInv'
  OBVIOUS
<1>1. ctx \in Context
  BY DEF TypeInv, TypeOK
<1>2. CASE SkipInstall
  <2>1. /\ history' = history /\ clock' = clock /\ upd' = upd /\ ctx' = ctx
        /\ pc = "InstallTarget" /\ pc' = "StartTarget"
    BY <1>2 DEF SkipInstall, eventVars, composeVars
  <2>2. LastInv'
    BY <2>1, LastInvQuiet DEF Quiet
  <2>3. RunInv'
    BY <2>1, HistoryKept
    DEF RunInv, Number, Skipping, Working, RunnerSteps, UpdateSteps
  <2> QED
    BY <2>2, <2>3
<1>3. CASE InstallTarget
  <2>1. /\ history' = history /\ clock' = clock /\ upd' = upd
        /\ ctx' = [ctx EXCEPT !.invoke = Invoked(ToInstall)]
    BY <1>3 DEF InstallTarget, eventVars, composeVars
  <2>2. pc \in Working /\ ctx.corr \notin Finished
    BY <1>3, NotOver
    DEF InstallTarget, SkipsWhenResuming, ToInstall, Skipping, Working, RunnerSteps,
        UpdateSteps
  <2>3. Compose!IsActive' => upd'.corr = ctx.corr
    BY <2>1, <2>2, ActiveIsCurrent DEF Compose!IsActive
  <2>4. ctx'.corr = ctx.corr
    BY <1>1, <2>1 DEF Context
  <2> QED
    BY <2>1, <2>2, <2>3, <2>4, WorkStep
<1>4. CASE RegisterPending \/ InstallStopApps
  <2>1. /\ history' = history /\ clock' = clock /\ upd' = upd /\ ctx' = ctx
        /\ pc \in {"RegisterPending", "InstallStopApps"}
    BY <1>4, TryStopAppsKeepsUpdate
    DEF RegisterPending, InstallStopApps, eventVars, composeVars
  <2>2. pc \in Working /\ ctx.corr \notin Finished
    BY <2>1, NotOver DEF Skipping, Working, RunnerSteps, UpdateSteps
  <2>3. Compose!IsActive' => upd'.corr = ctx.corr
    BY <2>1, <2>2, ActiveIsCurrent DEF Compose!IsActive
  <2> QED
    BY <2>1, <2>2, <2>3, WorkStep
<1>5. CASE InstallEvent \/ InstallFailed \/ InstallApplied
  <2>1. /\ \/ history' = history \/ SaveEvent("InstallationStarted", "none")
           \/ SaveEvent("DownloadCompleted", "false")
           \/ SaveEvent("InstallationApplied", "true")
        /\ clock' = clock /\ upd' = upd
        /\ pc \in {"InstallEvent", "InstallFailed", "InstallApplied"}
    BY <1>5 DEF InstallEvent, InstallFailed, InstallApplied, TrySaveEvent, eventVars,
                composeVars
  <2>2. pc \in Working /\ ctx.corr \notin Finished
    BY <2>1, NotOver DEF Skipping, Working, RunnerSteps, UpdateSteps
  <2>3. Compose!IsActive' => upd'.corr = ctx.corr
    BY <2>1, <2>2, ActiveIsCurrent DEF Compose!IsActive
  <2>4. pc' \notin Working \/ ctx'.corr = ctx.corr
    BY <1>5, FinishIsNotWorking DEF InstallEvent, InstallFailed, InstallApplied
  <2> QED
    BY <2>1, <2>2, <2>3, <2>4, WorkStep
<1>6. CASE Install
  <2>1. /\ history' = history /\ clock' = clock /\ ctx' = ctx /\ upd'.corr = upd.corr
        /\ pc = "Install"
    BY <1>6, ComposeMoves DEF Install, Moves, eventVars
  <2>2. pc \in Working /\ ctx.corr \notin Finished
    BY <2>1, NotOver DEF Skipping, Working, RunnerSteps, UpdateSteps
  <2>3. upd.corr = ctx.corr
    BY <2>1 DEF LinkInv, Invoking, RunnerSteps, UpdateSteps
  <2> QED
    BY <2>1, <2>2, <2>3, WorkStep
<1> QED
  BY <1>2, <1>3, <1>4, <1>5, <1>6 DEF InstallStep

LEMMA NumbersStart ==
  TypeInv /\ LinkInv /\ LastInv /\ RunInv /\ StartStep => LastInv' /\ RunInv'
<1> SUFFICES ASSUME TypeInv, LinkInv, LastInv, RunInv, StartStep
             PROVE  LastInv' /\ RunInv'
  OBVIOUS
<1>1. ctx \in Context
  BY DEF TypeInv, TypeOK
<1>2. CASE SkipStart \/ CompleteUpdate
  <2>1. history' = history /\ clock' = clock /\ Quiet
    BY <1>2, ComposeMoves
    DEF SkipStart, CompleteUpdate, eventVars, composeVars, Quiet, Moves, Compose!IsActive
  <2>2. pc' \notin Working
    BY <1>2, FinishIsNotWorking
    DEF SkipStart, CompleteUpdate, Working, RunnerSteps, UpdateSteps
  <2> QED
    BY <2>1, <2>2, LastInvQuiet, RunInvElsewhere
<1>3. CASE StartTarget
  <2>1. /\ history' = history /\ clock' = clock /\ upd' = upd
        /\ ctx' = [ctx EXCEPT !.invoke = Invoked(ToStart)]
    BY <1>3, TryStopAppsKeepsUpdate DEF StartTarget, eventVars
  <2>2. pc \in Working /\ ctx.corr \notin Finished
    BY <1>3, NotOver
    DEF StartTarget, SkipsWhenResuming, ToStart, Skipping, Working, RunnerSteps,
        UpdateSteps
  <2>3. Compose!IsActive' => upd'.corr = ctx.corr
    BY <2>1, <2>2, ActiveIsCurrent DEF Compose!IsActive
  <2>4. ctx'.corr = ctx.corr
    BY <1>1, <2>1 DEF Context
  <2> QED
    BY <2>1, <2>2, <2>3, <2>4, WorkStep
<1>4. CASE Start
  <2>1. /\ history' = history /\ clock' = clock /\ ctx' = ctx /\ upd'.corr = upd.corr
        /\ pc = "Start"
    BY <1>4, ComposeMoves DEF Start, Moves, eventVars
  <2>2. pc \in Working /\ ctx.corr \notin Finished
    BY <2>1, NotOver DEF Skipping, Working, RunnerSteps, UpdateSteps
  <2>3. upd.corr = ctx.corr
    BY <2>1 DEF LinkInv, Invoking, RunnerSteps, UpdateSteps
  <2> QED
    BY <2>1, <2>2, <2>3, WorkStep
<1>5. CASE StartCompleted
  <2>1. /\ pc = "StartCompleted" /\ pc' = "RegisterSucceeded"
        /\ clock' = clock /\ upd' = upd /\ ctx' = ctx
        /\ history' = history \/ SaveEvent("InstallationCompleted", "true")
    BY <1>5 DEF StartCompleted, TrySaveEvent, eventVars, composeVars
  <2>2. /\ Corrs' \in {Corrs, Corrs \cup {ctx.corr}}
        /\ Finished' \in {Finished, Finished \cup {ctx.corr}}
        /\ ctx.corr \in Finished' => ctx.corr \in Corrs'
        /\ Finished \subseteq Corrs => Finished' \subseteq Corrs'
    <3>1. CASE history' = history
      BY <3>1, HistoryKept DEF LastInv
    <3>2. CASE SaveEvent("InstallationCompleted", "true")
      BY <3>2, SaveEventAdds
    <3> QED
      BY <2>1, <3>1, <3>2
  <2>3. Number(ctx.corr)
    BY <2>1 DEF RunInv, Working, RunnerSteps
  <2>4. Number(ctx.corr)'
    BY <2>1, <2>2, <2>3 DEF Number
  <2>5. Compose!IsActive => upd.corr = ctx.corr /\ upd.state = "Started"
    BY <2>1 DEF LinkInv, RunnerSteps
  <2>6. LastInv'
    <3>1. \A c \in Corrs' : 0 < c /\ c <= clock'
      BY <2>1, <2>2, <2>3 DEF LastInv, Number
    <3>2. Resumable' => upd'.corr = ctx'.corr /\ upd'.state = "Started"
      BY <2>1, <2>5 DEF Resumable, Compose!IsActive
    <3>3. Resumable' => Number(upd.corr)'
      BY <2>1, <2>4, <3>2 DEF Number
    <3> QED
      BY <2>2, <3>1, <3>2, <3>3 DEF LastInv
  <2>7. RunInv'
    BY <2>1, <2>4 DEF RunInv
  <2> QED
    BY <2>6, <2>7
<1>6. CASE RegisterSucceeded \/ RegisterCurrent
  <2>1. /\ history' = history /\ clock' = clock /\ upd' = upd /\ ctx' = ctx
        /\ pc \in {"RegisterSucceeded", "RegisterCurrent"}
        /\ pc' \in {"RegisterCurrent", "CompleteUpdate"}
    BY <1>6 DEF RegisterSucceeded, RegisterCurrent, eventVars, composeVars
  <2>2. LastInv'
    BY <2>1, LastInvQuiet DEF Quiet
  <2>3. RunInv'
    BY <2>1, HistoryKept DEF RunInv, Number, Working, RunnerSteps
  <2> QED
    BY <2>2, <2>3
<1> QED
  BY <1>2, <1>3, <1>4, <1>5, <1>6 DEF StartStep

LEMMA NumbersRollback ==
  TypeInv /\ LinkInv /\ LastInv /\ RunInv /\ RollbackStep => LastInv' /\ RunInv'
<1> SUFFICES ASSUME TypeInv, LinkInv, LastInv, RunInv, RollbackStep
             PROVE  LastInv' /\ RunInv'
  OBVIOUS
<1>1. ctx \in Context
  BY DEF TypeInv, TypeOK
<1>2. pc \in Working /\ ctx.corr \notin Finished
  <2>1. pc \in {"StartFailed", "RegisterFailed", "Rollback", "RollbackNewUpdate",
                "RollbackInit"}
    BY DEF RollbackStep, StartFailed, RegisterFailed, Rollback, RollbackNewUpdate,
           RollbackInit
  <2> QED
    BY <2>1, NotOver DEF Skipping, Working, RunnerSteps
<1>3. Compose!IsActive => upd.corr = ctx.corr
  BY <1>2, ActiveIsCurrent
<1>4. CASE StartFailed \/ RegisterFailed
  <2>1. /\ history' = history \/ SaveEvent("InstallationCompleted", "false")
        /\ clock' = clock /\ upd' = upd /\ ctx' = ctx
    BY <1>4 DEF StartFailed, RegisterFailed, TrySaveEvent, eventVars, composeVars
  <2>2. Compose!IsActive' => upd'.corr = ctx.corr
    BY <1>3, <2>1 DEF Compose!IsActive
  <2> QED
    BY <1>2, <2>1, <2>2, WorkStep
<1>5. CASE Rollback
  <2>1. history' = history /\ clock' = clock /\ upd'.corr = upd.corr
    BY <1>5, ComposeMoves DEF Rollback, eventVars, Moves
  <2>2. upd.corr = ctx.corr
    BY <1>5 DEF Rollback, LinkInv, Invoking, RunnerSteps
  <2>3. pc' \notin Working \/ ctx'.corr = ctx.corr
    <3>1. ctx' = [ctx EXCEPT !.runner = FALSE, !.resuming = FALSE, !.target = ctx.current]
          => ctx'.corr = ctx.corr
      BY <1>1 DEF Context
    <3> QED
      BY <1>5, <3>1, FinishIsNotWorking DEF Rollback
  <2> QED
    BY <1>2, <2>1, <2>2, <2>3, WorkStep
<1>6. CASE RollbackNewUpdate
  <2>1. history' = history /\ clock' = clock /\ (upd' = upd \/ upd'.corr = ctx.corr)
    BY <1>6 DEF RollbackNewUpdate, eventVars, composeVars, Compose!NewUpdate
  <2>2. Compose!IsActive' => upd'.corr = ctx.corr
    BY <1>3, <2>1 DEF Compose!IsActive
  <2>3. pc' \notin Working \/ ctx'.corr = ctx.corr
    BY <1>6, FinishIsNotWorking DEF RollbackNewUpdate
  <2> QED
    BY <1>2, <2>1, <2>2, <2>3, WorkStep
<1>7. CASE RollbackInit
  <2>1. history' = history /\ clock' = clock
    BY <1>7 DEF RollbackInit, eventVars
  <2> DEFINE c == FillAndCheckAppsList(ctx)
  <2>2. \/ upd' = upd \/ Compose!Init(c.required) \/ Compose!InitFails(c.required)
    BY <1>7 DEF RollbackInit, composeVars
  <2>3. upd' = upd \/ upd'.corr = upd.corr
    BY <2>2, InitMoves DEF Moves
  <2>4. upd.corr = ctx.corr
    BY <1>7 DEF LinkInv, RollbackInit
  <2>5. \/ pc' \notin Working
        \/ ctx.target # Initial /\ ctx' = [c EXCEPT !.runner = TRUE]
    BY <1>7, FinishIsNotWorking DEF RollbackInit
  <2>6. ASSUME ctx.target # Initial PROVE c \in Context /\ c.corr = ctx.corr
    <3>1. ctx.target \in Targets
      BY <1>1, <1>7, <2>6 DEF RollbackInit, TypeInv, HasTarget, EndSteps, Context
    <3> QED
      BY <3>1, FillAndCheckKeepsNumber
  <2> HIDE DEF c
  <2>7. pc' \notin Working \/ ctx'.corr = ctx.corr
    BY <2>5, <2>6 DEF Context
  <2> QED
    BY <1>2, <2>1, <2>3, <2>4, <2>7, WorkStep
<1> QED
  BY <1>4, <1>5, <1>6, <1>7 DEF RollbackStep

\* The start and the end of a run, and what happens around it.
LEMMA NumbersElsewhere ==
  TypeInv /\ LinkInv /\ LastInv /\ RunInv /\ (GetTargetToInstall \/ EndStep \/ Crash)
  => LastInv' /\ RunInv'
<1> SUFFICES ASSUME TypeInv, LinkInv, LastInv, RunInv,
                    GetTargetToInstall \/ EndStep \/ Crash
             PROVE  LastInv' /\ RunInv'
  OBVIOUS
<1>1. history' = history /\ clock' = clock
  BY DEF GetTargetToInstall, EndStep, StopAndRemoveApps, RemoveApps, FlushEvents,
         DeleteEvents, Crash, eventVars
<1>2. pc' \notin Working
  BY DEF GetTargetToInstall, EndStep, StopAndRemoveApps, RemoveApps, FlushEvents,
         DeleteEvents, Crash, Finish, Exit, Working, RunnerSteps, UpdateSteps
<1>3. CASE GetTargetToInstall \/ EndStep
  <2>1. upd' = upd
    BY <1>3, AppsKeepUpdate, TryStopAppsKeepsUpdate
    DEF GetTargetToInstall, EndStep, StopAndRemoveApps, RemoveApps, FlushEvents,
        DeleteEvents, composeVars
  <2> QED
    BY <1>1, <1>2, <2>1, LastInvQuiet, RunInvElsewhere DEF Quiet
<1>4. CASE Crash /\ upd' = upd
  BY <1>1, <1>2, <1>4, LastInvQuiet, RunInvElsewhere DEF Quiet
<1>5. CASE Crash /\ upd' # upd
  <2>1. CASE pc \in {"RunnerInit", "Fetch", "Install", "Start", "Rollback"}
    <3>1. upd'.corr = upd.corr
      BY <1>5, ComposeMoves, InitMoves DEF Crash, Moves, composeVars
    <3>2. pc \in Working /\ ctx.corr \notin Finished
      BY <2>1, NotOver DEF Skipping, Working, RunnerSteps, UpdateSteps
    <3>3. upd.corr = ctx.corr
      BY <2>1 DEF LinkInv, Invoking, RunnerSteps, UpdateSteps
    <3> QED
      BY <1>1, <1>2, <3>1, <3>2, <3>3, WorkStep
  <2>2. CASE pc = "InitUpdate" /\ Compose!IsActive /\ Compose!CancelFails
    <3>1. Quiet
      BY <2>2, ComposeMoves DEF Quiet
    <3> QED
      BY <1>1, <1>2, <3>1, LastInvQuiet, RunInvElsewhere
  <2> QED
    BY <1>5, <2>1, <2>2 DEF Crash, Cancels, InInitUpdate, composeVars
<1> QED
  BY <1>3, <1>4, <1>5

LEMMA NumbersStep ==
  TypeInv /\ UpdateInv /\ LinkInv /\ LastInv /\ RunInv /\ [Next]_vars => LastInv' /\ RunInv'
<1> SUFFICES ASSUME TypeInv, UpdateInv, LinkInv, LastInv, RunInv, [Next]_vars
             PROVE  LastInv' /\ RunInv'
  OBVIOUS
<1>1. CASE AppStops \/ UNCHANGED vars
  <2>1. /\ history' = history /\ clock' = clock /\ upd' = upd /\ pc' = pc /\ ctx' = ctx
    BY <1>1, AppsKeepUpdate DEF AppStops, vars, eventVars
  <2>2. LastInv'
    BY <2>1, LastInvQuiet DEF Quiet
  <2>3. RunInv'
    BY <2>1, HistoryKept DEF RunInv, Number, Skipping
  <2> QED
    BY <2>2, <2>3
<1> QED
  BY <1>1, NumbersInitUpdate, NumbersPull, NumbersInstall, NumbersStart,
     NumbersRollback, NumbersElsewhere
  DEF Next, ProcessStep

LEMMA ReportInvHolds == Spec => []ReportInv
<1>1. Init => ReportInv
  BY LinkInvInit, NumbersInit DEF ReportInv
<1>2. TypeInv /\ UpdateInv /\ ReportInv /\ [Next]_vars => ReportInv'
  BY LinkInvStep, NumbersStep DEF ReportInv
<1> QED
  BY <1>1, <1>2, TypeInvHolds, UpdateInvHolds, PTL DEF Spec

-----------------------------------------------------------------------------
(* What is reported                                                        *)

\* A step that saves an event saves one of an update that is not over.
Reported(evt) ==
  /\ history' = Append(history, evt)
  /\ evt.corr \notin Finished /\ Number(evt.corr)

LEMMA EventSaved ==
  ASSUME TypeInv, RunInv, pc \in Working, ctx.corr \notin Finished,
         NEW type, NEW success, SaveEvent(type, success)
  PROVE  \E evt : Reported(evt)
<1> DEFINE evt == [type |-> type, success |-> success, name |-> ctx.target,
                   corr |-> ctx.corr]
<1>1. history' = Append(history, evt)
  BY DEF SaveEvent
<1>2. evt.corr = ctx.corr /\ Number(ctx.corr)
  BY DEF RunInv
<1> HIDE DEF evt
<1> QED
  BY <1>1, <1>2 DEF Reported

LEMMA HistoryGrows ==
  TypeInv /\ ReportInv /\ [Next]_vars => history' = history \/ \E evt : Reported(evt)
<1> SUFFICES ASSUME TypeInv, ReportInv, [Next]_vars, history' # history
             PROVE  \E evt : Reported(evt)
  OBVIOUS
<1>1. /\ pc \in {"PullTarget", "PullFailed", "PullCompleted", "InstallEvent",
                 "InstallFailed", "InstallApplied", "StartCompleted", "StartFailed"}
      /\ \E type, success : SaveEvent(type, success)
      /\ ~(pc = "PullTarget" /\ SkipsWhenResuming(ToPull))
  <2>1. CASE PullStep
    BY <2>1 DEF PullStep, SkipPull, PullTarget, Fetch, PullFailed, PullCompleted,
                TrySaveEvent, eventVars
  <2>2. CASE InstallStep
    BY <2>2 DEF InstallStep, SkipInstall, InstallTarget, RegisterPending, InstallEvent,
                InstallStopApps, Install, InstallFailed, InstallApplied, TrySaveEvent,
                eventVars
  <2>3. CASE StartStep
    BY <2>3 DEF StartStep, SkipStart, StartTarget, Start, StartCompleted,
                RegisterSucceeded, RegisterCurrent, CompleteUpdate, TrySaveEvent, eventVars
  <2>4. CASE RollbackStep
    BY <2>4 DEF RollbackStep, StartFailed, RegisterFailed, Rollback, RollbackNewUpdate,
                RollbackInit, TrySaveEvent, eventVars
  <2>5. CASE InitUpdateStep
    BY <2>5 DEF InitUpdateStep, InvalidClientRef, NoCurrentUpdate, CompleteStarted,
                ResumeUpdate, CancelUpdate, NewUpdate, RunnerInit, eventVars
  <2> QED
    BY <2>1, <2>2, <2>3, <2>4, <2>5
    DEF Next, ProcessStep, GetTargetToInstall, EndStep, StopAndRemoveApps, RemoveApps,
        FlushEvents, DeleteEvents, Crash, AppStops, vars, eventVars
<1>2. ~Skipping
  BY <1>1 DEF Skipping, SkipsWhenResuming, ToPull
<1>3. pc \in Working /\ ctx.corr \notin Finished
  BY <1>1, <1>2, NotOver DEF ReportInv, Working, RunnerSteps, UpdateSteps
<1>4. PICK type, success : SaveEvent(type, success)
  BY <1>1
<1> QED
  BY <1>3, <1>4, EventSaved DEF ReportInv

(***************************************************************************)
(* InstallationCompleted with success is the last event of an update,      *)
(* whatever the later runs find, resume, complete, cancel or roll back     *)
(* (initUpdate and the "if Resuming" shortcuts).                           *)
(***************************************************************************)
THEOREM SuccessIsFinalHolds == Spec => []SuccessIsFinal
<1>1. Init => SuccessIsFinal
  BY DEF Init, SuccessIsFinal
<1>2. TypeInv /\ ReportInv /\ SuccessIsFinal /\ [Next]_vars => SuccessIsFinal'
  <2> SUFFICES ASSUME TypeInv, ReportInv, SuccessIsFinal, [Next]_vars
               PROVE  SuccessIsFinal'
    OBVIOUS
  <2>1. CASE history' = history
    BY <2>1 DEF SuccessIsFinal, Saved, SameUpdate
  <2>2. ASSUME NEW evt, Reported(evt) PROVE SuccessIsFinal'
    <3>1. history \in Seq(Event) /\ history' = Append(history, evt)
      BY <2>2 DEF Reported, TypeInv, TypeOK
    <3> DEFINE n == Len(history) + 1
    <3>2. /\ DOMAIN history = 1 .. n - 1 /\ DOMAIN history' = 1 .. n
          /\ history'[n] = evt /\ n \in Nat
          /\ \A i \in DOMAIN history : history'[i] = history[i]
      BY <3>1
    <3>3. \A i \in DOMAIN history :
            Saved(i, "InstallationCompleted", "true") => history[i].corr # evt.corr
      BY <2>2 DEF Reported, Finished
    <3> HIDE DEF n
    <3>4. SUFFICES ASSUME NEW i \in DOMAIN history', NEW j \in DOMAIN history', i < j,
                          history'[i].type = "InstallationCompleted",
                          history'[i].success = "true",
                          history'[i].corr = history'[j].corr,
                          history'[i].name = history'[j].name
                   PROVE  FALSE
      BY DEF SuccessIsFinal, Saved, SameUpdate
    <3>5. i \in DOMAIN history /\ (j \in DOMAIN history \/ j = n)
      BY <3>2, <3>4
    <3>6. Saved(i, "InstallationCompleted", "true") /\ history'[i] = history[i]
      BY <3>2, <3>4, <3>5 DEF Saved
    <3>7. CASE j = n
      BY <3>2, <3>3, <3>4, <3>5, <3>6, <3>7
    <3>8. CASE j \in DOMAIN history
      BY <3>2, <3>4, <3>5, <3>6, <3>8 DEF SuccessIsFinal, SameUpdate
    <3> QED
      BY <3>5, <3>7, <3>8
  <2> QED
    BY <2>1, <2>2, HistoryGrows
<1> QED
  BY <1>1, <1>2, TypeInvHolds, ReportInvHolds, PTL DEF Spec

(***************************************************************************)
(* The client implements UpdateReports: the server hears of one update     *)
(* after the other, under numbers that only grow, and of none any more     *)
(* once a newer one, or its own success, has been reported.  Every event   *)
(* that is saved is a step of UpdateReports, which counts them.            *)
(***************************************************************************)
THEOREM OneUpdateAtATimeHolds == Spec => OneUpdateAtATime
<1>1. Init => Reports!Init
  BY DEF Init, Reports!Init, LastCorr
<1>2. TypeInv /\ ReportInv /\ [Next]_vars => [Reports!Next]_(Reports!vars)
  <2> SUFFICES ASSUME TypeInv, ReportInv, [Next]_vars
               PROVE  [Reports!Next]_(Reports!vars)
    OBVIOUS
  <2>1. CASE history' = history
    BY <2>1 DEF Reports!vars, LastCorr, Over, Saved
  <2>2. ASSUME NEW evt, Reported(evt) PROVE Reports!Next
    <3>1. history \in Seq(Event) /\ history' = Append(history, evt)
      BY <2>2 DEF Reported, TypeInv, TypeOK
    <3>2. /\ history' # <<>> /\ history'[Len(history')] = evt
          /\ history # <<>> => Len(history) \in DOMAIN history
          /\ Len(history') = Len(history) + 1
      BY <3>1
    <3>3. Reports!Report
      BY <3>2 DEF Reports!Report, Over
    <3>4. LastCorr' = evt.corr
      BY <3>2 DEF LastCorr
    <3>5. evt.corr \in Nat /\ 0 < evt.corr
      BY <2>2 DEF Reported, Number
    <3>6. CASE history = <<>> \/ LastCorr # evt.corr
      <4>1. LastCorr \in Nat /\ LastCorr < evt.corr
        <5>1. CASE history = <<>>
          BY <3>5, <5>1 DEF LastCorr
        <5>2. CASE history # <<>>
          <6>1. LastCorr \in Corrs
            BY <3>2, <5>2 DEF LastCorr, Corrs
          <6>2. LastCorr <= evt.corr
            BY <2>2, <6>1 DEF Reported, Number
          <6> QED
            BY <3>5, <3>6, <5>2, <6>1, <6>2, CorrsNat
        <5> QED
          BY <5>1, <5>2
      <4>2. Reports!Begin
        BY <3>4, <3>5, <4>1 DEF Reports!Begin
      <4> QED
        BY <3>3, <4>2 DEF Reports!Next
    <3>7. CASE history # <<>> /\ LastCorr = evt.corr
      <4>1. ~Over(LastCorr)
        BY <2>2, <3>7 DEF Reported, Over, Finished
      <4>2. Reports!Continue
        BY <3>4, <3>7, <4>1 DEF Reports!Continue
      <4> QED
        BY <3>3, <4>2 DEF Reports!Next
    <3> QED
      BY <3>6, <3>7
  <2> QED
    BY <2>1, <2>2, HistoryGrows
<1> QED
  BY <1>1, <1>2, TypeInvHolds, ReportInvHolds, PTL DEF Spec, OneUpdateAtATime, Reports!Spec
-----------------------------------------------------------------------------
(* What is begun                                                           *)

NoEventFaults == "event" \notin FaultKinds

\* The targets whose installation has been begun, and those that the device has
\* run: the server was told so, or the factory did it.
Begun ==
  {history[i].name : i \in {j \in DOMAIN history : Saved(j, "InstallationStarted", "none")}}

Ran ==
  {Factory} \cup
  {history[i].name : i \in {j \in DOMAIN history : Saved(j, "InstallationCompleted", "true")}}

\* From the choice of a target to the event that says its installation begins.
BeginSteps == {"InitUpdate", "NewUpdate", "RunnerInit", "PullTarget", "Fetch",
               "PullCompleted", "InstallTarget", "RegisterPending", "InstallEvent"}

(***************************************************************************)
(* NotBegunAgain is not inductive: that a target is not begun again is due *)
(* to the row it was given before it was begun, which says that it fails   *)
(* unless the device has run it; and a rollback, which does not ask,       *)
(* begins what the run found to be the current target.                     *)
(***************************************************************************)
RowsInv ==
  /\ Settled(rows) \subseteq Ran
  /\ Begun \subseteq Registered(rows)
  /\ pc = "InstallEvent" => ctx.target \in Registered(rows)

BeginInv ==
  /\ pc \in BeginSteps => ctx.target \in Ran \/ ctx.target \notin Begun
  /\ pc \notin EndSteps => ctx.current \in Ran \cup {Initial}
  /\ pc \in RollbackSteps => ctx.target = ctx.current
  /\ pc \in {"RegisterSucceeded", "RegisterCurrent"} => ctx.target \in Ran

BegunInv == RowsInv /\ BeginInv /\ NotBegunAgain

LEMMA BegunInvInit == Init => BegunInv
<1> SUFFICES ASSUME Init PROVE BegunInv
  OBVIOUS
<1>1. history = <<>> /\ pc = "Idle" /\ DOMAIN history = {}
  BY DEF Init
<1>2. Begun = {} /\ NotBegunAgain /\ Factory \in Ran
  BY <1>1 DEF Begun, NotBegunAgain, Ran
<1>3. \A i \in DOMAIN rows : rows[i].name = Factory
  BY DEF Init
<1>4. Settled(rows) \subseteq Ran
  BY <1>2, <1>3 DEF Settled
<1> QED
  BY <1>1, <1>2, <1>4 DEF BegunInv, RowsInv, BeginInv, BeginSteps, EndSteps, RollbackSteps

\* What a saved event adds to the targets begun and to those run.
LEMMA SaveEventNames ==
  ASSUME TypeInv, NEW type, NEW success, SaveEvent(type, success)
  PROVE  /\ Begun' = Begun \cup (IF type = "InstallationStarted" /\ success = "none"
                                 THEN {ctx.target} ELSE {})
         /\ Ran' = Ran \cup (IF type = "InstallationCompleted" /\ success = "true"
                             THEN {ctx.target} ELSE {})
<1> DEFINE evt == [type |-> type, success |-> success, name |-> ctx.target,
                   corr |-> ctx.corr]
           n == Len(history) + 1
           Is(h, i, ty, su) == h[i].type = ty /\ h[i].success = su
           Of(h, ty, su) == {h[i].name : i \in {j \in DOMAIN h : Is(h, j, ty, su)}}
<1>1. history' = Append(history, evt) /\ history \in Seq(Event)
  BY DEF SaveEvent, TypeInv, TypeOK
<1>2. evt.type = type /\ evt.success = success /\ evt.name = ctx.target
  OBVIOUS
<1> HIDE DEF evt
<1>3. /\ DOMAIN history' = DOMAIN history \cup {n}
      /\ n \notin DOMAIN history
      /\ history'[n] = evt
      /\ \A i \in DOMAIN history : history'[i] = history[i]
  BY <1>1
<1>4. /\ Begun = Of(history, "InstallationStarted", "none")
      /\ Begun' = Of(history', "InstallationStarted", "none")
  BY DEF Begun, Saved
<1>5. /\ Ran = {Factory} \cup Of(history, "InstallationCompleted", "true")
      /\ Ran' = {Factory} \cup Of(history', "InstallationCompleted", "true")
  BY DEF Ran, Saved
<1> HIDE DEF n
<1>6. ASSUME NEW ty, NEW su
      PROVE  Of(history', ty, su) =
               Of(history, ty, su) \cup (IF type = ty /\ success = su
                                         THEN {ctx.target} ELSE {})
  <2>1. \A i \in DOMAIN history : /\ Is(history', i, ty, su) <=> Is(history, i, ty, su)
                                  /\ history'[i].name = history[i].name
    BY <1>3
  <2>2. /\ Is(history', n, ty, su) <=> type = ty /\ success = su
        /\ history'[n].name = ctx.target
    BY <1>2, <1>3
  <2> HIDE DEF Is
  <2>3. CASE type = ty /\ success = su
    BY <1>3, <2>1, <2>2, <2>3
  <2>4. CASE ~(type = ty /\ success = su)
    BY <1>3, <2>1, <2>2, <2>4
  <2> QED
    BY <2>3, <2>4
<1> HIDE DEF Of
<1> QED
  BY <1>4, <1>5, <1>6

LEMMA NamesKept ==
  ASSUME history' = history
  PROVE  Begun' = Begun /\ Ran' = Ran
BY DEF Begun, Ran, Saved

\* A saved event that says an installation begins is that of InstallEvent.
LEMMA EventKinds ==
  ASSUME Next, history' # history
  PROVE  \E type \in EventTypes, success \in {"none", "true", "false"} :
            /\ SaveEvent(type, success)
            /\ type = "InstallationStarted" /\ success = "none" => InstallEvent
            /\ StartCompleted => type = "InstallationCompleted" /\ success = "true"
<1>1. CASE PullStep
  BY <1>1 DEF PullStep, SkipPull, PullTarget, Fetch, PullFailed, PullCompleted,
              TrySaveEvent, eventVars, StartCompleted, EventTypes
<1>2. CASE InstallStep
  BY <1>2 DEF InstallStep, SkipInstall, InstallTarget, RegisterPending,
              InstallEvent, InstallStopApps, Install, InstallFailed,
              InstallApplied, TrySaveEvent, eventVars, StartCompleted, EventTypes
<1>3. CASE StartStep
  BY <1>3 DEF StartStep, SkipStart, StartTarget, Start, StartCompleted,
              RegisterSucceeded, RegisterCurrent, CompleteUpdate, TrySaveEvent,
              eventVars, EventTypes
<1>4. CASE RollbackStep
  BY <1>4 DEF RollbackStep, StartFailed, RegisterFailed, Rollback,
              RollbackNewUpdate, RollbackInit, TrySaveEvent, eventVars,
              StartCompleted, EventTypes
<1>5. CASE InitUpdateStep
  BY <1>5 DEF InitUpdateStep, InvalidClientRef, NoCurrentUpdate, CompleteStarted,
              ResumeUpdate, CancelUpdate, NewUpdate, RunnerInit, eventVars
<1> QED
  BY <1>1, <1>2, <1>3, <1>4, <1>5
  DEF Next, ProcessStep, GetTargetToInstall, EndStep, StopAndRemoveApps, RemoveApps,
      FlushEvents, DeleteEvents, Crash, AppStops, vars, eventVars

\* Only InstallEvent begins a target, and StartCompleted always saves its event.
LEMMA NamesGrow ==
  ASSUME NoEventFaults, TypeInv, [Next]_vars
  PROVE  /\ Ran \subseteq Ran'
         /\ Begun' = Begun \/ (InstallEvent /\ Begun' = Begun \cup {ctx.target})
         /\ StartCompleted => ctx.target \in Ran'
<1>1. CASE history' = history
  <2>1. ~StartCompleted
    <3>1. history # Append(history, 0)
      BY DEF TypeInv, TypeOK
    <3> QED
      BY <1>1 DEF StartCompleted, TrySaveEvent, SaveEvent, Fault, NoEventFaults, TypeInv,
                  TypeOK
  <2> QED
    BY <1>1, <2>1, NamesKept
<1>2. CASE history' # history
  <2>1. PICK type \in EventTypes, success \in {"none", "true", "false"} :
        /\ SaveEvent(type, success)
        /\ type = "InstallationStarted" /\ success = "none" => InstallEvent
        /\ StartCompleted => type = "InstallationCompleted" /\ success = "true"
    BY <1>2, EventKinds DEF vars, eventVars
  <2> QED
    BY <2>1, SaveEventNames
<1> QED
  BY <1>1, <1>2

\* How the steps that the invariant is about are reached.
LEMMA StepsTaken ==
  ASSUME NoDbFaults, TypeInv, Next
  PROVE  /\ pc' \in BeginSteps => \/ GetTargetToInstall
                                  \/ RollbackInit /\ pc' = "InstallTarget"
                                  \/ pc \in BeginSteps /\ ~InstallEvent
         /\ pc' = "InstallEvent" => RegisterPending \/ (pc = "InstallEvent" /\ ctx' = ctx)
         /\ pc' \in {"RegisterSucceeded", "RegisterCurrent"} =>
              ctx' = ctx /\ (StartCompleted \/ pc \in {"RegisterSucceeded", "RegisterCurrent"})
         /\ pc' \notin EndSteps => pc \notin EndSteps \/ GetTargetToInstall
         /\ pc' \in RollbackSteps => pc \in RollbackSteps \/ RollsBack
<1> USE DEF BeginSteps, EndSteps, RollbackSteps
<1>1. CASE GetTargetToInstall \/ Crash \/ AppStops
  BY <1>1 DEF GetTargetToInstall, Crash, AppStops, Exit, InstallEvent
<1>2. CASE InitUpdateStep
  BY <1>2 DEF InitUpdateStep, InvalidClientRef, NoCurrentUpdate, CompleteStarted,
              ResumeUpdate, CancelUpdate, NewUpdate, RunnerInit, InInitUpdate, InstallEvent,
              Finish, Exit
<1>3. CASE PullStep
  BY <1>3 DEF PullStep, SkipPull, PullTarget, Fetch, PullFailed, PullCompleted, InstallEvent,
              Finish
<1>4. CASE InstallStep
  BY <1>4 DEF InstallStep, SkipInstall, InstallTarget, RegisterPending, InstallEvent,
              InstallStopApps, Install, InstallFailed, InstallApplied, Finish, Fault,
              NoDbFaults
<1>5. CASE StartStep
  BY <1>5 DEF StartStep, SkipStart, StartTarget, Start, StartCompleted,
              RegisterSucceeded, RegisterCurrent, CompleteUpdate, InstallEvent, Finish
<1>6. CASE RollbackStep
  BY <1>6 DEF RollbackStep, StartFailed, RegisterFailed, Rollback, RollbackNewUpdate,
              RollbackInit, RollsBack, InstallEvent, Finish
<1>7. CASE EndStep
  BY <1>7 DEF EndStep, StopAndRemoveApps, RemoveApps, FlushEvents, DeleteEvents,
              InstallEvent, Finish, Exit
<1> QED
  BY <1>1, <1>2, <1>3, <1>4, <1>5, <1>6, <1>7 DEF Next, ProcessStep

\* Before InstallEvent, the target is given a row.
LEMMA RowsInvStep ==
  ASSUME NoDbFaults, NoEventFaults, TypeInv, BegunInv, [Next]_vars
  PROVE  RowsInv'
<1>1. rows \in Table /\ {"current", "pending", "failed"} \subseteq Modes
  BY DEF TypeInv, TypeOK, Modes
<1>2. /\ Ran \subseteq Ran'
      /\ Begun' = Begun \/ (InstallEvent /\ Begun' = Begun \cup {ctx.target})
  BY NamesGrow
<1>3. Begun' \subseteq Registered(rows)
  BY <1>2 DEF InstallEvent, BegunInv, RowsInv
<1>4. Settled(rows) \subseteq Ran'
  BY <1>2 DEF BegunInv, RowsInv
<1>5. ASSUME Registered(rows) \subseteq Registered(rows'), Settled(rows') \subseteq Ran',
             pc' = "InstallEvent" => ctx'.target \in Registered(rows')
      PROVE  RowsInv'
  BY <1>3, <1>5 DEF RowsInv
<1>6. CASE rows' = rows /\ ~RegisterPending
  <2>1. pc' = "InstallEvent" => pc = "InstallEvent" /\ ctx' = ctx
    BY <1>6, StepsTaken DEF vars
  <2> QED
    BY <1>4, <1>5, <1>6, <2>1 DEF BegunInv, RowsInv
<1>7. CASE RegisterPending
  <2>1. /\ ctx.target \in Targets /\ ctx' = ctx
        /\ rows' = WriteRow(rows, ctx.target, "pending")
    BY <1>7, RegisteredTarget DEF RegisterPending, Fault, NoDbFaults
  <2> QED
    BY <1>1, <1>4, <1>5, <2>1, WriteRowSettled
<1>8. CASE rows' # rows /\ ~RegisterPending
  <2>1. CASE InstallTarget /\ rows' = UnsetFlags(rows, "pending") /\ pc' = "RegisterPending"
    BY <1>1, <1>4, <1>5, <2>1, UnsetFlagsSettled
  <2>2. CASE RegisterSucceeded /\ rows' = UnsetFlags(rows, "current") /\ pc' = "RegisterCurrent"
    BY <1>1, <1>4, <1>5, <2>2, UnsetFlagsSettled
  <2>3. CASE /\ RegisterCurrent /\ rows' = WriteRow(rows, ctx.target, "current")
             /\ pc' = "CompleteUpdate"
    <3>1. ctx.target \in Targets /\ ctx.target \in Ran'
      BY <1>2, <2>3, RegisteredTarget DEF RegisterCurrent, BegunInv, BeginInv
    <3> QED
      BY <1>1, <1>4, <1>5, <2>3, <3>1, WriteRowSettled
  <2>4. CASE RegisterFailed /\ rows' = WriteRow(rows, ctx.target, "failed") /\ pc' = "Rollback"
    <3>1. ctx.target \in Targets
      BY <2>4, RegisteredTarget DEF RegisterFailed
    <3> QED
      BY <1>1, <1>4, <1>5, <2>4, <3>1, WriteRowSettled
  <2> QED
    BY <1>8, <2>1, <2>2, <2>3, <2>4, RegisterSteps DEF vars
<1> QED
  BY <1>6, <1>7, <1>8

\* Without database faults a run is about a target that it has run, or not begun.
LEMMA BeginInvGetTarget ==
  ASSUME NoDbFaults, NoEventFaults, TypeInv, BegunInv, GetTargetToInstall
  PROVE  BeginInv'
<1>1. PICK candidate \in Targets, target \in Targets, configured \in ComposeApps :
        /\ target = IF IsFailingTarget(rows, candidate) THEN GetCurrentTarget(rows)
                    ELSE candidate
        /\ ctx' = FillAndCheckAppsList(Chosen(target, configured))
        /\ Chosen(target, configured) \in Context
        /\ Chosen(target, configured).target = target
        /\ Chosen(target, configured).current = GetCurrentTarget(rows)
  BY TargetChosen
<1>2. rows \in Table /\ store \subseteq Apps
  BY DEF TypeInv, TypeOK, Compose!ComposeTypeOK
<1>3. GetCurrentTarget(rows) \in Ran \cup {Initial}
  BY <1>2, CurrentIsSettled DEF BegunInv, RowsInv
<1>4. target \in Ran \/ target \notin Begun
  <2>1. CASE IsFailingTarget(rows, candidate)
    BY <1>1, <1>3, <2>1, InitialAssumption
  <2>2. CASE ~IsFailingTarget(rows, candidate)
    BY <1>1, <1>2, <2>2, NotFailingIsSettled DEF BegunInv, RowsInv
  <2> QED
    BY <2>1, <2>2
<1> DEFINE chosen == Chosen(target, configured)
<1>5. ctx' = FillAndCheckAppsList(chosen) /\ chosen \in Context /\ chosen.target \in Targets
  BY <1>1
<1>6. chosen.target = target /\ chosen.current = GetCurrentTarget(rows)
  BY <1>1
<1> HIDE DEF chosen
<1>7. ctx'.target \in {target, None} /\ ctx'.current = GetCurrentTarget(rows)
  BY <1>2, <1>5, <1>6, FillAndCheckAppsListType
<1>8. Begun' = Begun /\ Ran' = Ran
  BY NamesKept DEF GetTargetToInstall, eventVars
<1>9. \/ ctx'.target = None /\ pc' = "StopAndRemoveApps"
      \/ ctx'.target # None /\ pc' = "InitUpdate"
  BY DEF GetTargetToInstall
<1> QED
  BY <1>3, <1>4, <1>7, <1>8, <1>9
  DEF BeginInv, BeginSteps, EndSteps, RollbackSteps

\* From there to the event, the target stays what it is; a rollback leads back
\* to the target that was current.
LEMMA BeginInvStep ==
  ASSUME NoDbFaults, NoEventFaults, TypeInv, BegunInv, [Next]_vars
  PROVE  BeginInv'
<1>1. ctx \in Context
  BY DEF TypeInv, TypeOK
<1>2. /\ Ran \subseteq Ran'
      /\ Begun' = Begun \/ (InstallEvent /\ Begun' = Begun \cup {ctx.target})
      /\ StartCompleted => ctx.target \in Ran'
  BY NamesGrow
<1>3. BeginInv
  BY DEF BegunInv
<1>4. CASE UNCHANGED vars
  <2>1. Begun' = Begun /\ Ran' = Ran
    BY <1>4, NamesKept DEF vars, eventVars
  <2> QED
    BY <1>3, <1>4, <2>1 DEF vars, BeginInv
<1>5. CASE GetTargetToInstall
  BY <1>5, BeginInvGetTarget
<1>6. CASE Finish \/ Exit
  BY <1>6 DEF Finish, Exit, BeginInv, BeginSteps, EndSteps, RollbackSteps
<1>7. CASE RollsBack /\ Next
  <2>1. ctx' = [ctx EXCEPT !.runner = FALSE, !.resuming = FALSE, !.target = ctx.current]
    BY <1>7 DEF RollsBack
  <2>2. ctx'.target = ctx.current /\ ctx'.current = ctx.current
    BY <1>1, <2>1 DEF Context
  <2>3. pc \notin EndSteps
    BY <1>7, StepsTaken DEF RollsBack, EndSteps, GetTargetToInstall
  <2> QED
    BY <1>2, <1>3, <1>7, <2>2, <2>3
    DEF RollsBack, BeginInv, BeginSteps, EndSteps, RollbackSteps
<1>8. CASE RollbackInit /\ pc' = "InstallTarget"
  <2> DEFINE f == FillAndCheckAppsList(ctx)
  <2>1. ctx.target # Initial /\ f.target # None /\ ctx' = [f EXCEPT !.runner = TRUE]
    BY <1>8 DEF RollbackInit, Finish
  <2>2. ctx.target \in Targets
    BY <1>1, <1>8, <2>1 DEF RollbackInit, TypeInv, HasTarget, EndSteps, Context
  <2>3. f \in Context /\ f.target = ctx.target /\ f.current = ctx.current
    BY <1>1, <2>1, <2>2, FillAndCheckAppsListType DEF TypeInv, TypeOK, Compose!ComposeTypeOK
  <2> HIDE DEF f
  <2>4. ctx'.target = ctx.target /\ ctx'.current = ctx.current
    BY <2>1, <2>3 DEF Context
  <2>5. ctx.target \in Ran /\ ctx.current = ctx.target
    BY <1>3, <1>8, <2>1 DEF RollbackInit, BeginInv, EndSteps, RollbackSteps
  <2> QED
    BY <1>2, <1>8, <2>4, <2>5 DEF BeginInv, BeginSteps, EndSteps, RollbackSteps
<1>9. CASE /\ KeepsLists /\ Next /\ ~GetTargetToInstall /\ ~RollsBack
           /\ ~(RollbackInit /\ pc' = "InstallTarget")
  <2>1. ctx'.target = ctx.target /\ ctx'.current = ctx.current
    BY <1>9 DEF KeepsLists
  <2>2. pc' \in BeginSteps => ctx'.target \in Ran' \/ ctx'.target \notin Begun'
    <3>1. pc' \in BeginSteps => pc \in BeginSteps /\ ~InstallEvent
      BY <1>9, StepsTaken
    <3> QED
      BY <1>2, <1>3, <2>1, <3>1 DEF BeginInv
  <2>3. pc' \notin EndSteps => ctx'.current \in Ran' \cup {Initial}
    <3>1. pc' \notin EndSteps => pc \notin EndSteps
      BY <1>9, StepsTaken
    <3> QED
      BY <1>2, <1>3, <2>1, <3>1 DEF BeginInv
  <2>4. pc' \in RollbackSteps => ctx'.target = ctx'.current
    <3>1. pc' \in RollbackSteps => pc \in RollbackSteps
      BY <1>9, StepsTaken
    <3> QED
      BY <1>3, <2>1, <3>1 DEF BeginInv
  <2>5. pc' \in {"RegisterSucceeded", "RegisterCurrent"} => ctx'.target \in Ran'
    BY <1>2, <1>3, <1>9, <2>1, StepsTaken DEF BeginInv
  <2> QED
    BY <2>2, <2>3, <2>4, <2>5 DEF BeginInv
<1> QED
  BY <1>4, <1>5, <1>6, <1>7, <1>8, <1>9, ListsKept

(***************************************************************************)
(* What failed, or was interrupted, once it was begun is not begun again,  *)
(* unless the device has run it (IsFailingTarget in GetTargetToInstall,    *)
(* RegisterInstallationStarted before the event in InstallTarget).  The    *)
(* hypotheses are two errors that the code drops: without its row a target *)
(* is not known to have failed, and a success whose event is not saved is  *)
(* none for the server.                                                    *)
(***************************************************************************)
THEOREM NotBegunAgainHolds ==
  ASSUME NoDbFaults, NoEventFaults
  PROVE  Spec => []NotBegunAgain
<1>1. TypeInv /\ BegunInv /\ [Next]_vars => BegunInv'
  <2> SUFFICES ASSUME TypeInv, BegunInv, [Next]_vars PROVE NotBegunAgain'
    BY RowsInvStep, BeginInvStep DEF BegunInv
  <2> DEFINE Begins(h, i) == h[i].type = "InstallationStarted" /\ h[i].success = "none"
  <2>1. /\ \A i, j \in DOMAIN history : /\ Begins(history, i) /\ Begins(history, j)
                                        /\ history[i].name = history[j].name /\ i # j
                                        => history[i].name \in Ran
        /\ (\A i, j \in DOMAIN history' : /\ Begins(history', i) /\ Begins(history', j)
                                          /\ history'[i].name = history'[j].name /\ i # j
                                          => history'[i].name \in Ran')
           => NotBegunAgain'
    BY DEF BegunInv, NotBegunAgain, Saved, Ran
  <2>2. CASE history' = history
    BY <2>1, <2>2, NamesKept
  <2>3. CASE history' # history
    <3>1. PICK type, success :
            /\ SaveEvent(type, success)
            /\ type = "InstallationStarted" /\ success = "none" => InstallEvent
      BY <2>3, EventKinds DEF vars, eventVars
    <3> DEFINE evt == [type |-> type, success |-> success, name |-> ctx.target,
                       corr |-> ctx.corr]
               n == Len(history) + 1
    <3>2. history' = Append(history, evt) /\ history \in Seq(Event)
      BY <3>1 DEF SaveEvent, TypeInv, TypeOK
    <3>3. evt.type = type /\ evt.success = success /\ evt.name = ctx.target
      OBVIOUS
    <3> HIDE DEF evt
    <3>4. /\ DOMAIN history' = DOMAIN history \cup {n}
          /\ history'[n] = evt
          /\ \A i \in DOMAIN history : history'[i] = history[i]
      BY <3>2
    <3> HIDE DEF n
    <3>5. Begins(history', n) => ctx.target \in Ran \/ ctx.target \notin Begun
      BY <3>1, <3>3, <3>4 DEF InstallEvent, BegunInv, BeginInv, BeginSteps
    <3>6. Ran \subseteq Ran'
      BY NamesGrow
    <3>7. \A i \in DOMAIN history :
            /\ Begins(history', i) => Begins(history, i) /\ history[i].name \in Begun
            /\ history'[i].name = history[i].name
      BY <3>4 DEF Begun, Saved
    <3>8. history'[n].name = ctx.target
      BY <3>3, <3>4
    <3> HIDE DEF Begins
    <3>9. SUFFICES ASSUME NEW i \in DOMAIN history', NEW j \in DOMAIN history',
                          Begins(history', i), Begins(history', j),
                          history'[i].name = history'[j].name, i # j
                   PROVE  history'[i].name \in Ran
      BY <2>1, <3>6
    <3>10. CASE i = n \/ j = n
      BY <3>4, <3>5, <3>7, <3>8, <3>9, <3>10
    <3>11. CASE i # n /\ j # n
      BY <2>1, <3>4, <3>7, <3>9, <3>11
    <3> QED
      BY <3>10, <3>11
  <2> QED
    BY <2>2, <2>3
<1> QED
  BY <1>1, BegunInvInit, TypeInvHolds, PTL DEF Spec, BegunInv
=============================================================================
