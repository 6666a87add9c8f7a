------------------------- MODULE UpdateClientProofs -------------------------
(***************************************************************************)
(* Theorems about UpdateClient, for any targets, apps, offers, faults and  *)
(* bounds.                                                                 *)
(***************************************************************************)
EXTENDS UpdateClient, InstalledVersionsProofs

(***************************************************************************)
(* Type correctness is not inductive without knowing when the context has  *)
(* a target: a row or an event of the target nil, or a row of "Initial     *)
(* Target", would be none.                                                 *)
(***************************************************************************)
EndSteps == {"Idle", "StopAndRemoveApps", "RemoveApps", "FlushEvents", "DeleteEvents"}

RollbackSteps == {"RollbackNewUpdate", "RollbackInit"}

HasTarget ==
  /\ pc \notin EndSteps => ctx.target # None /\ ctx.current # None
  /\ pc \notin EndSteps \cup RollbackSteps => ctx.target # Initial

TypeInv == TypeOK /\ HasTarget

-----------------------------------------------------------------------------
(* Lemmas about the operators                                              *)

\* The record of composeapp stays a record, whatever is called.
LEMMA ComposeType ==
  ASSUME Compose!ComposeTypeOK,
         \/ Compose!Fetch \/ Compose!FetchFails \/ Compose!Install
         \/ Compose!InstallFails \/ Compose!Start \/ Compose!StartFails
         \/ Compose!Complete \/ Compose!CompleteWithPruning \/ Compose!Cancel
         \/ Compose!CancelFails \/ Compose!AppStops \/ UNCHANGED composeVars
         \/ \E uris \in SUBSET Apps : Compose!Init(uris) \/ Compose!InitFails(uris)
         \/ \E apps \in SUBSET Apps : Compose!StopApps(apps) \/ Compose!RemoveApps(apps)
         \/ \E name \in Names, corr \in Nat : Compose!NewUpdate(name, corr)
  PROVE  Compose!ComposeTypeOK'
<1> USE DEF Compose!ComposeTypeOK
<1>1. ASSUME NEW s \in Compose!States, upd' = [upd EXCEPT !.state = s]
      PROVE  upd' \in Compose!Update
  BY <1>1 DEF Compose!Update
<1>2. CASE Compose!Fetch
  <2>1. upd' \in Compose!Update /\ upd.uris \subseteq Apps
    BY <1>1, <1>2 DEF Compose!Fetch, Compose!States, Compose!Update
  <2> QED
    BY <1>2, <2>1 DEF Compose!Fetch
<1>3. CASE Compose!FetchFails
  <2>1. upd' \in Compose!Update /\ upd.uris \subseteq Apps
    BY <1>1, <1>3 DEF Compose!FetchFails, Compose!States, Compose!Update
  <2> QED
    BY <1>3, <2>1 DEF Compose!FetchFails
<1>4. CASE Compose!Install \/ Compose!InstallFails \/ Compose!Complete \/ Compose!Cancel
  BY <1>1, <1>4 DEF Compose!Install, Compose!InstallFails, Compose!Complete,
                    Compose!Cancel, Compose!States
<1>5. CASE Compose!Start
  <2>1. upd' \in Compose!Update /\ upd.uris \subseteq Apps
    BY <1>1, <1>5 DEF Compose!Start, Compose!States, Compose!Update
  <2> QED
    BY <1>5, <2>1 DEF Compose!Start
<1>6. CASE Compose!StartFails
  <2>1. upd' \in Compose!Update /\ upd.uris \subseteq Apps
    BY <1>1, <1>6 DEF Compose!StartFails, Compose!States, Compose!Update
  <2> QED
    BY <1>6, <2>1 DEF Compose!StartFails
<1>7. CASE Compose!CompleteWithPruning
  <2>1. upd' \in Compose!Update
    BY <1>1, <1>7 DEF Compose!CompleteWithPruning, Compose!States
  <2> QED
    BY <1>7, <2>1 DEF Compose!CompleteWithPruning
<1>8. CASE Compose!AppStops
  BY <1>8 DEF Compose!AppStops
<1>9. CASE UNCHANGED composeVars
  BY <1>9 DEF composeVars
<1>10. ASSUME NEW uris \in SUBSET Apps, Compose!Init(uris) \/ Compose!InitFails(uris)
       PROVE  Compose!ComposeTypeOK'
  BY <1>10 DEF Compose!Init, Compose!InitFails, Compose!Update, Compose!States
<1>11. ASSUME NEW apps \in SUBSET Apps, Compose!StopApps(apps) \/ Compose!RemoveApps(apps)
       PROVE  Compose!ComposeTypeOK'
  BY <1>11 DEF Compose!StopApps, Compose!RemoveApps
<1>12. ASSUME NEW name \in Names, NEW corr \in Nat, Compose!NewUpdate(name, corr)
       PROVE  Compose!ComposeTypeOK'
  BY <1>12 DEF Compose!NewUpdate, Compose!Update, Compose!States
<1>13. CASE Compose!CancelFails
  <2>1. upd.state \in Compose!States /\ "Cancelling" \in Compose!States
    BY DEF Compose!Update, Compose!States
  <2>2. upd' \in Compose!Update
    BY <1>1, <1>13, <2>1 DEF Compose!CancelFails
  <2> QED
    BY <1>13, <2>2 DEF Compose!CancelFails
<1> QED
  BY <1>2, <1>3, <1>4, <1>5, <1>6, <1>7, <1>8, <1>9, <1>10, <1>11, <1>12, <1>13

\* An event of a target that is not nil is an event.
LEMMA SaveEventType ==
  ASSUME TypeOK, ctx.target # None,
         NEW type \in EventTypes, NEW success \in {"none", "true", "false"},
         SaveEvent(type, success)
  PROVE  table' \in Seq(Event) /\ history' \in Seq(Event)
<1> DEFINE evt == [type |-> type, success |-> success, name |-> ctx.target,
                   corr |-> ctx.corr]
<1>1. evt \in Event
  BY DEF TypeOK, Context, Event
<1>2. table' = Append(table, evt) /\ history' = Append(history, evt)
  BY DEF SaveEvent
<1> HIDE DEF evt
<1> QED
  BY <1>1, <1>2, AppendProperties DEF TypeOK

\* FillAndCheckAppsList keeps the target, with apps of its own, or drops it.
LEMMA FillAndCheckAppsListType ==
  ASSUME store \subseteq Apps, NEW c \in Context, c.target \in Targets
  PROVE  /\ FillAndCheckAppsList(c) \in Context
         /\ FillAndCheckAppsList(c).target \in {c.target, None}
         /\ FillAndCheckAppsList(c).current = c.current
         /\ FillAndCheckAppsList(c).runner = c.runner
<1>1. AppsOf[c.target] \subseteq Apps
  BY UpdateClientAssumption
<1>2. FillAppsList(c) \in Context
  BY <1>1 DEF FillAppsList, Context
<1>3. /\ FillAppsList(c).target = c.target /\ FillAppsList(c).current = c.current
      /\ FillAppsList(c).runner = c.runner
  BY DEF FillAppsList, Context
<1> QED
  BY <1>2, <1>3 DEF FillAndCheckAppsList, Context

\* The two ends of a run leave no context behind.
LEMMA EndType ==
  ASSUME Finish \/ Exit
  PROVE  ctx' \in Context /\ pc' \in EndSteps /\ pc' \in Steps
<1>1. NoContext \in Context
  BY DEF NoContext, Context
<1> QED
  BY <1>1 DEF Finish, Exit, EndSteps, Steps

LEMMA FaultType ==
  ASSUME faults \in Nat, UNCHANGED faults \/ \E kind \in AllFaults : Fault(kind)
  PROVE  faults' \in Nat
BY DEF Fault

-----------------------------------------------------------------------------
(* Type correctness                                                        *)

LEMMA TypeInvInit == Init => TypeInv
<1> SUFFICES ASSUME Init PROVE TypeInv
  OBVIOUS
<1> USE UpdateClientAssumption DEF Init
<1>1. rows \in Table
  <2>1. CASE Factory = None
    BY <2>1, EmptySeq DEF Table
  <2>2. CASE Factory # None
    <3> DEFINE row == [name |-> Factory, is_current |-> TRUE, is_pending |-> FALSE,
                       was_installed |-> TRUE]
    <3>1. row \in Row
      BY <2>2 DEF Row
    <3>2. rows = <<row>>
      BY <2>2
    <3> HIDE DEF row
    <3>3. <<row>> = [i \in 1 .. 1 |-> row]
      OBVIOUS
    <3>4. [i \in 1 .. 1 |-> row] \in Seq(Row)
      BY <3>1
    <3> QED
      BY <3>2, <3>3, <3>4 DEF Table
  <2> QED
    BY <2>1, <2>2
<1>2. Compose!ComposeTypeOK
  <2>1. store \subseteq Apps /\ running \subseteq Apps
    OBVIOUS
  <2>2. upd \in Compose!Update
    BY DEF Compose!Update, Compose!NoUpdate, Compose!States, Names
  <2> QED
    BY <2>1, <2>2 DEF Compose!ComposeTypeOK
<1>3. table \in Seq(Event) /\ history \in Seq(Event)
  BY EmptySeq
<1>4. pc \in Steps /\ ctx \in Context /\ HasTarget
  BY DEF Steps, NoContext, Context, HasTarget, EndSteps
<1> QED
  BY <1>1, <1>2, <1>3, <1>4 DEF TypeInv, TypeOK

\* What a run begins with: nothing of an update, and maybe no target.
LEMMA GetTargetContext ==
  ASSUME TypeInv, GetTargetToInstall
  PROVE  /\ ctx' \in Context
         /\ ctx'.target \in Targets \cup {None}
         /\ ctx'.current # None
         /\ ~ctx'.runner
         /\ faults' \in Nat
<1>1. PICK tuf \in Offers, version \in Pins, configured \in ComposeApps :
      \E candidate \in SelectTarget(tuf, version) :
      \E current \in {GetCurrentTarget(rows), Initial},
         failing \in {IsFailingTarget(rows, candidate), FALSE} :
        LET target == IF failing THEN current ELSE candidate
        IN  /\ UNCHANGED faults \/ Fault("db")
            /\ target # Initial
            /\ ctx' = TargetContext(target, current, configured)
  BY DEF GetTargetToInstall
<1>2. PICK candidate \in SelectTarget(tuf, version),
           current \in {GetCurrentTarget(rows), Initial} :
      \E failing \in {IsFailingTarget(rows, candidate), FALSE} :
        LET target == IF failing THEN current ELSE candidate
        IN  /\ UNCHANGED faults \/ Fault("db")
            /\ target # Initial
            /\ ctx' = TargetContext(target, current, configured)
  BY <1>1
<1>3. PICK failing \in {IsFailingTarget(rows, candidate), FALSE} :
        LET target == IF failing THEN current ELSE candidate
        IN  /\ UNCHANGED faults \/ Fault("db")
            /\ target # Initial
            /\ ctx' = TargetContext(target, current, configured)
  BY <1>2
<1> DEFINE target == IF failing THEN current ELSE candidate
           chosen == [NoContext EXCEPT !.target = target, !.current = current,
                                       !.configured = configured]
<1>4. candidate \in Targets /\ configured \in BOOLEAN
  BY UpdateClientAssumption DEF SelectTarget
<1>5. current \in Targets \cup {Initial} /\ target \in Targets
  BY <1>3, <1>4, CurrentTargetType DEF TypeInv, TypeOK
<1>6. ctx' = TargetContext(target, current, configured)
  BY <1>3
<1> HIDE DEF target
<1>7. /\ chosen \in Context /\ chosen.target = target /\ chosen.current = current
      /\ ~chosen.runner
  BY <1>4, <1>5 DEF NoContext, Context
<1>8. ctx' = FillAndCheckAppsList(chosen)
  BY <1>6 DEF TargetContext
<1> HIDE DEF chosen
<1>9. /\ ctx' \in Context /\ ctx'.target \in {target, None}
      /\ ctx'.current = current /\ ~ctx'.runner
  BY <1>5, <1>7, <1>8, FillAndCheckAppsListType DEF TypeInv, TypeOK, Compose!ComposeTypeOK
<1>10. current # None
  BY <1>5, UpdateClientAssumption
<1>11. faults' \in Nat
  BY <1>3, FaultType DEF AllFaults, TypeInv, TypeOK
<1> QED
  BY <1>5, <1>9, <1>10, <1>11

\* A run begins with a target, or only with apps to remove.
LEMMA TypeInvGetTarget == TypeInv /\ GetTargetToInstall => TypeInv'
<1> SUFFICES ASSUME TypeInv, GetTargetToInstall PROVE TypeInv'
  OBVIOUS
<1> USE DEF TypeInv, TypeOK
<1>1. /\ ctx' \in Context
      /\ ctx'.target \in Targets \cup {None}
      /\ ctx'.current # None
      /\ faults' \in Nat
  BY GetTargetContext
<1>2. pc' \in Steps /\ HasTarget'
  <2>1. CASE ctx'.target = None
    BY <2>1 DEF GetTargetToInstall, Steps, HasTarget, EndSteps
  <2>2. CASE ctx'.target # None
    <3>1. pc' = "InitUpdate"
      BY <2>2 DEF GetTargetToInstall
    <3>2. ctx'.target # Initial
      BY <1>1, <2>2, InitialAssumption
    <3> QED
      BY <1>1, <2>2, <3>1, <3>2 DEF Steps, HasTarget
  <2> QED
    BY <2>1, <2>2
<1>3. UNCHANGED <<rows, table, history, store, running, upd, clock>>
  BY DEF GetTargetToInstall, eventVars, composeVars
<1>4. Compose!ComposeTypeOK'
  BY <1>3, ComposeType DEF composeVars
<1> QED
  BY <1>1, <1>2, <1>3, <1>4

LEMMA TrySaveEventType ==
  ASSUME TypeOK, ctx.target # None,
         NEW type \in EventTypes, NEW success \in {"none", "true", "false"},
         TrySaveEvent(type, success)
  PROVE  table' \in Seq(Event) /\ history' \in Seq(Event) /\ faults' \in Nat
<1>1. CASE SaveEvent(type, success) /\ UNCHANGED faults
  BY <1>1, SaveEventType DEF TypeOK
<1>2. CASE UNCHANGED eventVars /\ Fault("event")
  BY <1>2, FaultType DEF TypeOK, eventVars, AllFaults
<1> QED
  BY <1>1, <1>2 DEF TrySaveEvent

LEMMA TryStopAppsType ==
  ASSUME TypeOK, TryStopApps
  PROVE  Compose!ComposeTypeOK' /\ faults' \in Nat
<1>1. ctx.uninstall \in SUBSET Apps
  BY DEF TypeOK, Context
<1>2. PICK apps \in SUBSET Apps : Compose!StopApps(apps)
  BY <1>1 DEF TryStopApps
<1>3. UNCHANGED faults \/ Fault("compose")
  BY DEF TryStopApps
<1> QED
  BY <1>2, <1>3, ComposeType, FaultType DEF TypeOK, AllFaults

LEMMA TypeInvInitUpdate == TypeInv /\ InitUpdateStep => TypeInv'
<1> SUFFICES ASSUME TypeInv, InitUpdateStep PROVE TypeInv'
  OBVIOUS
<1> USE FaultType DEF TypeInv, TypeOK, HasTarget, EndSteps, RollbackSteps, AllFaults,
                      eventVars
<1>1. CASE InvalidClientRef
  <2>1. Finish \/ Exit \/ (pc' = "NewUpdate" /\ UNCHANGED ctx)
    BY <1>1 DEF InvalidClientRef
  <2>2. Compose!ComposeTypeOK'
    BY <1>1, ComposeType DEF InvalidClientRef
  <2> QED
    BY <1>1, <2>1, <2>2, EndType DEF InvalidClientRef, InInitUpdate, Steps
<1>2. CASE NoCurrentUpdate
  <2>1. Compose!ComposeTypeOK'
    BY <1>2, ComposeType DEF NoCurrentUpdate
  <2> QED
    BY <1>2, <2>1 DEF NoCurrentUpdate, InInitUpdate, Steps
<1>3. CASE CompleteStarted
  <2>1. Compose!ComposeTypeOK'
    BY <1>3, ComposeType DEF CompleteStarted
  <2> QED
    BY <1>3, <2>1 DEF CompleteStarted, InInitUpdate, Steps
<1>4. CASE ResumeUpdate
  <2>1. Compose!ComposeTypeOK'
    BY <1>4, ComposeType DEF ResumeUpdate
  <2>2. upd.corr \in Nat
    BY DEF Compose!ComposeTypeOK, Compose!Update
  <2>3. /\ ctx' \in Context
        /\ ctx'.target = ctx.target /\ ctx'.current = ctx.current
    BY <1>4, <2>2 DEF ResumeUpdate, Context
  <2>4. faults' \in Nat
    BY <1>4 DEF ResumeUpdate, CompleteTried
  <2> QED
    BY <1>4, <2>1, <2>3, <2>4 DEF ResumeUpdate, InInitUpdate, Steps
<1>5. CASE CancelUpdate
  <2>1. Compose!ComposeTypeOK'
    BY <1>5, ComposeType DEF CancelUpdate
  <2>2. faults' \in Nat
    BY <1>5 DEF CancelUpdate, CompleteTried
  <2>3. Finish \/ (pc' = "NewUpdate" /\ UNCHANGED ctx)
    BY <1>5 DEF CancelUpdate
  <2> QED
    BY <1>5, <2>1, <2>2, <2>3, EndType DEF CancelUpdate, InInitUpdate, Steps
<1>6. CASE NewUpdate
  <2>1. ctx.target \in Targets /\ NewCorrelationId \in Nat
    BY <1>6 DEF NewUpdate, Context, NewCorrelationId
  <2>2. Compose!ComposeTypeOK'
    BY <1>6, <2>1, ComposeType DEF NewUpdate, Names
  <2>3. faults' \in Nat /\ clock' \in Nat
    BY <1>6 DEF NewUpdate
  <2>4. \/ Finish
        \/ /\ ctx' = [ctx EXCEPT !.corr = NewCorrelationId]
           /\ pc' \in {"PullTarget", "RunnerInit"}
    BY <1>6 DEF NewUpdate
  <2>5. CASE Finish
    BY <1>6, <2>2, <2>3, <2>5, EndType DEF NewUpdate
  <2>6. CASE /\ ctx' = [ctx EXCEPT !.corr = NewCorrelationId]
             /\ pc' \in {"PullTarget", "RunnerInit"}
    <3>1. /\ ctx' \in Context
          /\ ctx'.target = ctx.target /\ ctx'.current = ctx.current
      BY <2>1, <2>6 DEF Context
    <3> QED
      BY <1>6, <2>2, <2>3, <2>6, <3>1 DEF NewUpdate, Steps
  <2> QED
    BY <2>4, <2>5, <2>6
<1>7. CASE RunnerInit
  <2>1. ctx.required \in SUBSET Apps
    BY DEF Context
  <2>2. Compose!ComposeTypeOK'
    BY <1>7, <2>1, ComposeType DEF RunnerInit
  <2>3. faults' \in Nat
    BY <1>7 DEF RunnerInit
  <2>4. Finish \/ (ctx' = [ctx EXCEPT !.runner = TRUE] /\ pc' = "PullTarget")
    BY <1>7 DEF RunnerInit
  <2>5. CASE Finish
    BY <1>7, <2>2, <2>3, <2>5, EndType DEF RunnerInit
  <2>6. CASE ctx' = [ctx EXCEPT !.runner = TRUE] /\ pc' = "PullTarget"
    <3>1. /\ ctx' \in Context
          /\ ctx'.target = ctx.target /\ ctx'.current = ctx.current
      BY <2>6 DEF Context
    <3> QED
      BY <1>7, <2>2, <2>3, <2>6, <3>1 DEF RunnerInit, Steps
  <2> QED
    BY <2>4, <2>5, <2>6
<1> QED
  BY <1>1, <1>2, <1>3, <1>4, <1>5, <1>6, <1>7 DEF InitUpdateStep

LEMMA TypeInvPull == TypeInv /\ PullStep => TypeInv'
<1> SUFFICES ASSUME TypeInv, PullStep PROVE TypeInv'
  OBVIOUS
<1> USE FaultType DEF TypeInv, TypeOK, HasTarget, EndSteps, RollbackSteps, AllFaults,
                      eventVars
<1>1. CASE SkipPull
  <2>1. Compose!ComposeTypeOK'
    BY <1>1, ComposeType DEF SkipPull
  <2> QED
    BY <1>1, <2>1 DEF SkipPull, Steps
<1>2. CASE PullTarget
  <2>1. Compose!ComposeTypeOK'
    BY <1>2, ComposeType DEF PullTarget
  <2>2. CASE /\ SaveEvent("DownloadStarted", "none")
             /\ ctx' = [ctx EXCEPT !.invoke = Invoked(ToPull)]
             /\ pc' \in {"Fetch", "PullCompleted"}
             /\ UNCHANGED faults
    <3>1. table' \in Seq(Event) /\ history' \in Seq(Event)
      BY <1>2, <2>2, SaveEventType DEF PullTarget, EventTypes
    <3>2. /\ ctx' \in Context
          /\ ctx'.target = ctx.target /\ ctx'.current = ctx.current
      BY <2>2 DEF Context, Invoked
    <3> QED
      BY <1>2, <2>1, <2>2, <3>1, <3>2 DEF PullTarget, Steps
  <2>3. CASE UNCHANGED eventVars /\ Fault("event") /\ Finish
    BY <1>2, <2>1, <2>3, EndType DEF PullTarget
  <2> QED
    BY <1>2, <2>2, <2>3 DEF PullTarget
<1>3. CASE Fetch
  <2>1. Compose!ComposeTypeOK'
    BY <1>3, ComposeType DEF Fetch
  <2> QED
    BY <1>3, <2>1 DEF Fetch, Steps
<1>4. CASE PullFailed
  <2>1. Compose!ComposeTypeOK'
    BY <1>4, ComposeType DEF PullFailed
  <2>2. table' \in Seq(Event) /\ history' \in Seq(Event) /\ faults' \in Nat
    BY <1>4, TrySaveEventType DEF PullFailed, EventTypes
  <2> QED
    BY <1>4, <2>1, <2>2, EndType DEF PullFailed
<1>5. CASE PullCompleted
  <2>1. Compose!ComposeTypeOK'
    BY <1>5, ComposeType DEF PullCompleted
  <2>2. table' \in Seq(Event) /\ history' \in Seq(Event) /\ faults' \in Nat
    BY <1>5, SaveEventType DEF PullCompleted, EventTypes
  <2>3. Finish \/ (pc' = "InstallTarget" /\ UNCHANGED ctx)
    BY <1>5 DEF PullCompleted
  <2> QED
    BY <1>5, <2>1, <2>2, <2>3, EndType DEF PullCompleted, Steps
<1> QED
  BY <1>1, <1>2, <1>3, <1>4, <1>5 DEF PullStep

LEMMA TypeInvInstall == TypeInv /\ InstallStep => TypeInv'
<1> SUFFICES ASSUME TypeInv, InstallStep PROVE TypeInv'
  OBVIOUS
<1> USE FaultType DEF TypeInv, TypeOK, HasTarget, EndSteps, RollbackSteps, AllFaults,
                      eventVars
<1>1. CASE SkipInstall
  <2>1. Compose!ComposeTypeOK'
    BY <1>1, ComposeType DEF SkipInstall
  <2> QED
    BY <1>1, <2>1 DEF SkipInstall, Steps
<1>2. CASE InstallTarget
  <2>1. Compose!ComposeTypeOK'
    BY <1>2, ComposeType DEF InstallTarget
  <2>2. rows' \in Table
    BY <1>2, UnsetFlagsEffect DEF InstallTarget, Modes
  <2>3. /\ ctx' \in Context
        /\ ctx'.target = ctx.target /\ ctx'.current = ctx.current
    BY <1>2 DEF InstallTarget, Context, Invoked
  <2> QED
    BY <1>2, <2>1, <2>2, <2>3 DEF InstallTarget, Steps
<1>3. CASE RegisterPending
  <2>1. Compose!ComposeTypeOK'
    BY <1>3, ComposeType DEF RegisterPending
  <2>2. ctx.target \in Targets
    BY <1>3 DEF RegisterPending, Context
  <2>3. rows' \in Table
    BY <1>3, <2>2, WriteRowEffect DEF RegisterPending, Modes
  <2> QED
    BY <1>3, <2>1, <2>3 DEF RegisterPending, Steps
<1>4. CASE InstallEvent
  <2>1. Compose!ComposeTypeOK'
    BY <1>4, ComposeType DEF InstallEvent
  <2>2. table' \in Seq(Event) /\ history' \in Seq(Event) /\ faults' \in Nat
    BY <1>4, SaveEventType DEF InstallEvent, EventTypes
  <2> QED
    BY <1>4, <2>1, <2>2 DEF InstallEvent, Steps
<1>5. CASE InstallStopApps
  <2>1. Compose!ComposeTypeOK' /\ faults' \in Nat
    BY <1>5, TryStopAppsType DEF InstallStopApps
  <2> QED
    BY <1>5, <2>1 DEF InstallStopApps, Steps
<1>6. CASE Install
  <2>1. Compose!ComposeTypeOK'
    BY <1>6, ComposeType DEF Install
  <2> QED
    BY <1>6, <2>1 DEF Install, Steps
<1>7. CASE InstallFailed
  <2>1. Compose!ComposeTypeOK'
    BY <1>7, ComposeType DEF InstallFailed
  <2>2. table' \in Seq(Event) /\ history' \in Seq(Event) /\ faults' \in Nat
    BY <1>7, TrySaveEventType DEF InstallFailed, EventTypes
  <2> QED
    BY <1>7, <2>1, <2>2, EndType DEF InstallFailed
<1>8. CASE InstallApplied
  <2>1. Compose!ComposeTypeOK'
    BY <1>8, ComposeType DEF InstallApplied
  <2>2. table' \in Seq(Event) /\ history' \in Seq(Event) /\ faults' \in Nat
    BY <1>8, TrySaveEventType DEF InstallApplied, EventTypes
  <2> QED
    BY <1>8, <2>1, <2>2 DEF InstallApplied, Steps
<1> QED
  BY <1>1, <1>2, <1>3, <1>4, <1>5, <1>6, <1>7, <1>8 DEF InstallStep

LEMMA TypeInvStart == TypeInv /\ StartStep => TypeInv'
<1> SUFFICES ASSUME TypeInv, StartStep PROVE TypeInv'
  OBVIOUS
<1> USE FaultType DEF TypeInv, TypeOK, HasTarget, EndSteps, RollbackSteps, AllFaults,
                      eventVars
<1>1. CASE SkipStart
  <2>1. Compose!ComposeTypeOK'
    BY <1>1, ComposeType DEF SkipStart
  <2> QED
    BY <1>1, <2>1, EndType DEF SkipStart
<1>2. CASE StartTarget
  <2>1. Compose!ComposeTypeOK' /\ faults' \in Nat
    BY <1>2, TryStopAppsType DEF StartTarget
  <2>2. /\ ctx' \in Context
        /\ ctx'.target = ctx.target /\ ctx'.current = ctx.current
    BY <1>2 DEF StartTarget, Context, Invoked
  <2> QED
    BY <1>2, <2>1, <2>2 DEF StartTarget, Steps
<1>3. CASE Start
  <2>1. Compose!ComposeTypeOK'
    BY <1>3, ComposeType DEF Start
  <2> QED
    BY <1>3, <2>1 DEF Start, Steps
<1>4. CASE StartCompleted
  <2>1. Compose!ComposeTypeOK'
    BY <1>4, ComposeType DEF StartCompleted
  <2>2. table' \in Seq(Event) /\ history' \in Seq(Event) /\ faults' \in Nat
    BY <1>4, TrySaveEventType DEF StartCompleted, EventTypes
  <2> QED
    BY <1>4, <2>1, <2>2 DEF StartCompleted, Steps
<1>5. CASE RegisterSucceeded
  <2>1. Compose!ComposeTypeOK'
    BY <1>5, ComposeType DEF RegisterSucceeded
  <2>2. rows' \in Table
    BY <1>5, UnsetFlagsEffect DEF RegisterSucceeded, Modes
  <2> QED
    BY <1>5, <2>1, <2>2 DEF RegisterSucceeded, Steps
<1>6. CASE RegisterCurrent
  <2>1. Compose!ComposeTypeOK'
    BY <1>6, ComposeType DEF RegisterCurrent
  <2>2. ctx.target \in Targets
    BY <1>6 DEF RegisterCurrent, Context
  <2>3. rows' \in Table
    BY <1>6, <2>2, WriteRowEffect DEF RegisterCurrent, Modes
  <2> QED
    BY <1>6, <2>1, <2>3 DEF RegisterCurrent, Steps
<1>7. CASE CompleteUpdate
  <2>1. Compose!ComposeTypeOK'
    BY <1>7, ComposeType DEF CompleteUpdate
  <2>2. faults' \in Nat
    BY <1>7 DEF CompleteUpdate
  <2>3. Finish \/ (pc' = "StopAndRemoveApps" /\ UNCHANGED ctx)
    BY <1>7 DEF CompleteUpdate
  <2> QED
    BY <1>7, <2>1, <2>2, <2>3, EndType DEF CompleteUpdate, Steps
<1> QED
  BY <1>1, <1>2, <1>3, <1>4, <1>5, <1>6, <1>7 DEF StartStep

LEMMA TypeInvRollback == TypeInv /\ RollbackStep => TypeInv'
<1> SUFFICES ASSUME TypeInv, RollbackStep PROVE TypeInv'
  OBVIOUS
<1> USE FaultType DEF TypeInv, TypeOK, HasTarget, EndSteps, RollbackSteps, AllFaults,
                      eventVars
<1>1. CASE StartFailed
  <2>1. Compose!ComposeTypeOK'
    BY <1>1, ComposeType DEF StartFailed
  <2>2. table' \in Seq(Event) /\ history' \in Seq(Event) /\ faults' \in Nat
    BY <1>1, TrySaveEventType DEF StartFailed, EventTypes
  <2> QED
    BY <1>1, <2>1, <2>2 DEF StartFailed, Steps
<1>2. CASE RegisterFailed
  <2>1. Compose!ComposeTypeOK'
    BY <1>2, ComposeType DEF RegisterFailed
  <2>2. ctx.target \in Targets
    BY <1>2 DEF RegisterFailed, Context
  <2>3. rows' \in Table
    BY <1>2, <2>2, WriteRowEffect DEF RegisterFailed, Modes
  <2> QED
    BY <1>2, <2>1, <2>3 DEF RegisterFailed, Steps
<1>3. CASE Rollback
  <2>1. Compose!ComposeTypeOK'
    BY <1>3, ComposeType DEF Rollback
  <2>2. CASE Finish
    BY <1>3, <2>1, <2>2, EndType DEF Rollback
  <2>3. CASE /\ ctx' = [ctx EXCEPT !.runner = FALSE, !.resuming = FALSE,
                                   !.target = ctx.current]
             /\ pc' = "RollbackNewUpdate"
    <3>1. /\ ctx' \in Context
          /\ ctx'.target = ctx.current /\ ctx'.current = ctx.current
      BY <2>3 DEF Context
    <3> QED
      BY <1>3, <2>1, <2>3, <3>1 DEF Rollback, Steps
  <2> QED
    BY <1>3, <2>2, <2>3 DEF Rollback
<1>4. CASE RollbackNewUpdate
  <2>1. ctx.target \in Names /\ ctx.corr \in Nat
    BY <1>4 DEF RollbackNewUpdate, Context, Names
  <2>2. Compose!ComposeTypeOK'
    BY <1>4, <2>1, ComposeType DEF RollbackNewUpdate
  <2>3. Finish \/ (pc' = "RollbackInit" /\ UNCHANGED ctx)
    BY <1>4 DEF RollbackNewUpdate
  <2> QED
    BY <1>4, <2>2, <2>3, EndType DEF RollbackNewUpdate, Steps
<1>5. CASE RollbackInit
  <2> DEFINE c == FillAndCheckAppsList(ctx)
  <2>1. CASE ctx.target = Initial
    <3>1. Compose!ComposeTypeOK'
      BY <1>5, <2>1, ComposeType DEF RollbackInit
    <3> QED
      BY <1>5, <2>1, <3>1, EndType DEF RollbackInit
  <2>2. CASE ctx.target # Initial
    <3>1. ctx.target \in Targets
      BY <1>5, <2>2 DEF RollbackInit, Context
    <3>2. c \in Context /\ c.target \in {ctx.target, None} /\ c.current = ctx.current
      BY <3>1, FillAndCheckAppsListType DEF Compose!ComposeTypeOK
    <3> HIDE DEF c
    <3>3. c.required \in SUBSET Apps
      BY <3>2 DEF Context
    <3>4. Compose!ComposeTypeOK'
      <4>1. UNCHANGED composeVars \/ Compose!Init(c.required) \/ Compose!InitFails(c.required)
        BY <1>5 DEF RollbackInit, c
      <4> QED
        BY <3>3, <4>1, ComposeType
    <3>5. \/ Finish
          \/ ctx' = [c EXCEPT !.runner = TRUE] /\ pc' = "InstallTarget" /\ c.target # None
      BY <1>5 DEF RollbackInit, c
    <3>6. faults' \in Nat
      BY <1>5 DEF RollbackInit
    <3>7. CASE Finish
      BY <1>5, <3>4, <3>6, <3>7, EndType DEF RollbackInit
    <3>8. CASE ctx' = [c EXCEPT !.runner = TRUE] /\ pc' = "InstallTarget" /\ c.target # None
      <4>1. /\ ctx' \in Context
            /\ ctx'.target = ctx.target /\ ctx'.current = ctx.current
        BY <3>2, <3>8 DEF Context
      <4> QED
        BY <1>5, <2>2, <3>4, <3>6, <3>8, <4>1 DEF RollbackInit, Steps
    <3> QED
      BY <3>5, <3>7, <3>8
  <2> QED
    BY <2>1, <2>2
<1> QED
  BY <1>1, <1>2, <1>3, <1>4, <1>5 DEF RollbackStep

LEMMA TypeInvEnd == TypeInv /\ EndStep => TypeInv'
<1> SUFFICES ASSUME TypeInv, EndStep PROVE TypeInv'
  OBVIOUS
<1> USE FaultType DEF TypeInv, TypeOK, HasTarget, EndSteps, RollbackSteps, AllFaults,
                      eventVars
<1>1. CASE StopAndRemoveApps
  <2>1. Compose!ComposeTypeOK' /\ faults' \in Nat
    BY <1>1, ComposeType, TryStopAppsType DEF StopAndRemoveApps
  <2>2. Finish \/ (pc' = "RemoveApps" /\ UNCHANGED ctx)
    BY <1>1 DEF StopAndRemoveApps
  <2> QED
    BY <1>1, <2>1, <2>2, EndType DEF StopAndRemoveApps, Steps
<1>2. CASE RemoveApps
  <2>1. ctx.uninstall \in SUBSET Apps
    BY DEF Context
  <2>2. Compose!ComposeTypeOK' /\ faults' \in Nat
    <3>1. \E apps \in SUBSET Apps : Compose!RemoveApps(apps)
      BY <1>2, <2>1 DEF RemoveApps
    <3> QED
      BY <1>2, <3>1, ComposeType DEF RemoveApps
  <2> QED
    BY <1>2, <2>2, EndType DEF RemoveApps
<1>3. CASE FlushEvents
  <2>1. Compose!ComposeTypeOK' /\ faults' \in Nat
    BY <1>3, ComposeType DEF FlushEvents
  <2>2. Exit \/ (pc' = "DeleteEvents" /\ UNCHANGED ctx)
    BY <1>3 DEF FlushEvents
  <2> QED
    BY <1>3, <2>1, <2>2, EndType DEF FlushEvents, Steps
<1>4. CASE DeleteEvents
  <2>1. Compose!ComposeTypeOK' /\ faults' \in Nat
    BY <1>4, ComposeType DEF DeleteEvents
  <2>2. table' \in Seq(Event)
    BY <1>4, EmptySeq DEF DeleteEvents
  <2> QED
    BY <1>4, <2>1, <2>2, EndType DEF DeleteEvents
<1> QED
  BY <1>1, <1>2, <1>3, <1>4 DEF EndStep

LEMMA TypeInvEnvironment == TypeInv /\ (Crash \/ AppStops) => TypeInv'
<1> SUFFICES ASSUME TypeInv, Crash \/ AppStops PROVE TypeInv'
  OBVIOUS
<1> USE FaultType DEF TypeInv, TypeOK, HasTarget, EndSteps, RollbackSteps, AllFaults,
                      eventVars
<1>1. CASE Crash
  <2>1. ctx.required \in SUBSET Apps
    BY DEF Context
  <2>2. Compose!ComposeTypeOK'
    BY <1>1, <2>1, ComposeType DEF Crash
  <2> QED
    BY <1>1, <2>2, EndType DEF Crash
<1>2. CASE AppStops
  <2>1. Compose!ComposeTypeOK'
    BY <1>2, ComposeType DEF AppStops
  <2> QED
    BY <1>2, <2>1 DEF AppStops
<1> QED
  BY <1>1, <1>2

LEMMA TypeInvStep == TypeInv /\ [Next]_vars => TypeInv'
<1> SUFFICES ASSUME TypeInv, [Next]_vars PROVE TypeInv'
  OBVIOUS
<1>1. CASE UNCHANGED vars
  <2>1. Compose!ComposeTypeOK'
    BY <1>1, ComposeType DEF vars, composeVars, TypeInv, TypeOK
  <2> QED
    BY <1>1, <2>1 DEF vars, TypeInv, TypeOK, HasTarget
<1> QED
  BY <1>1, TypeInvGetTarget, TypeInvInitUpdate, TypeInvPull, TypeInvInstall,
     TypeInvStart, TypeInvRollback, TypeInvEnd, TypeInvEnvironment
  DEF Next, ProcessStep

LEMMA TypeInvHolds == Spec => []TypeInv
BY TypeInvInit, TypeInvStep, PTL DEF Spec

(***************************************************************************)
(* Type correctness, for any targets, apps and faults.  In particular      *)
(* every row saved in installed_versions is of a target of the repository  *)
(* and every event is of a target that is not nil, rollbacks included.     *)
(***************************************************************************)
THEOREM TypeCorrect == Spec => []TypeOK
BY TypeInvHolds, PTL DEF TypeInv

-----------------------------------------------------------------------------
(* One current target                                                      *)

(***************************************************************************)
(* Between its two statements saveInstalledVersions has cleared the flags  *)
(* that the second one sets.  A crash there leaves too few flags, never    *)
(* too many.                                                               *)
(***************************************************************************)
FlagsInv ==
  /\ FlagsConsistent(rows)
  /\ pc \in {"RegisterPending", "RegisterCurrent"} => PendingRows(rows) = {}
  /\ pc = "RegisterCurrent" => CurrentRows(rows) = {}

LEMMA FlagsInvInit == Init => FlagsInv
BY DEF Init, FlagsInv, FlagsConsistent, CurrentRows, PendingRows

\* The steps that leave the table alone enter neither of the second statements.
LEMMA FlagsInvSameRows ==
  ASSUME FlagsInv, rows' = rows,
         pc' = pc \/ pc' \notin {"RegisterPending", "RegisterCurrent"}
  PROVE  FlagsInv'
BY DEF FlagsInv

\* The steps that write the table: what they write, and where they go.
LEMMA RegisterSteps ==
  ASSUME TypeInv, Next
  PROVE  \/ /\ rows' = rows
            /\ pc' = pc \/ pc' \notin {"RegisterPending", "RegisterCurrent"}
         \/ InstallTarget /\ rows' = UnsetFlags(rows, "pending") /\ pc' = "RegisterPending"
         \/ RegisterPending /\ rows' = WriteRow(rows, ctx.target, "pending")
            /\ pc' = "InstallEvent"
         \/ RegisterSucceeded /\ rows' = UnsetFlags(rows, "current")
            /\ pc' = "RegisterCurrent"
         \/ RegisterCurrent /\ rows' = WriteRow(rows, ctx.target, "current")
            /\ pc' = "CompleteUpdate"
         \/ RegisterFailed /\ rows' = WriteRow(rows, ctx.target, "failed")
            /\ pc' = "Rollback"
<1>1. CASE GetTargetToInstall
  BY <1>1 DEF GetTargetToInstall
<1>2. CASE InitUpdateStep
  BY <1>2 DEF InitUpdateStep, InvalidClientRef, NoCurrentUpdate, CompleteStarted,
              ResumeUpdate, CancelUpdate, NewUpdate, RunnerInit, Finish, Exit
<1>3. CASE PullStep
  BY <1>3 DEF PullStep, SkipPull, PullTarget, Fetch, PullFailed, PullCompleted, Finish
<1>4. CASE InstallStep
  BY <1>4 DEF InstallStep, SkipInstall, InstallTarget, RegisterPending, InstallEvent,
              InstallStopApps, Install, InstallFailed, InstallApplied, Finish
<1>5. CASE StartStep
  BY <1>5 DEF StartStep, SkipStart, StartTarget, Start, StartCompleted,
              RegisterSucceeded, RegisterCurrent, CompleteUpdate, Finish
<1>6. CASE RollbackStep
  BY <1>6 DEF RollbackStep, StartFailed, RegisterFailed, Rollback, RollbackNewUpdate,
              RollbackInit, Finish
<1>7. CASE EndStep
  BY <1>7 DEF EndStep, StopAndRemoveApps, RemoveApps, FlushEvents, DeleteEvents,
              Finish, Exit
<1>8. CASE Crash \/ AppStops
  BY <1>8 DEF Crash, AppStops, Exit
<1> QED
  BY <1>1, <1>2, <1>3, <1>4, <1>5, <1>6, <1>7, <1>8 DEF Next, ProcessStep

\* The target of a step that writes a row is one of the repository.
LEMMA RegisteredTarget ==
  ASSUME TypeInv, pc \in {"RegisterPending", "RegisterCurrent", "RegisterFailed"}
  PROVE  ctx.target \in Targets
BY DEF TypeInv, TypeOK, HasTarget, EndSteps, RollbackSteps, Context

LEMMA FlagsInvStep == TypeInv /\ FlagsInv /\ [Next]_vars => FlagsInv'
<1> SUFFICES ASSUME TypeInv, FlagsInv, [Next]_vars PROVE FlagsInv'
  OBVIOUS
<1>1. rows \in Table /\ FlagsConsistent(rows)
  BY DEF TypeInv, TypeOK, FlagsInv
<1>2. {"current", "pending", "failed"} \subseteq Modes
  BY DEF Modes
<1>3. CASE UNCHANGED vars
  BY <1>3, FlagsInvSameRows DEF vars
<1>4. CASE Next
  <2>1. CASE /\ rows' = rows
             /\ pc' = pc \/ pc' \notin {"RegisterPending", "RegisterCurrent"}
    BY <2>1, FlagsInvSameRows
  <2>2. CASE InstallTarget /\ rows' = UnsetFlags(rows, "pending") /\ pc' = "RegisterPending"
    BY <1>1, <1>2, <2>2, UnsetFlagsConsistent DEF FlagsInv
  <2>3. CASE RegisterPending /\ rows' = WriteRow(rows, ctx.target, "pending")
             /\ pc' = "InstallEvent"
    <3>1. ctx.target \in Targets /\ PendingRows(rows) = {}
      BY <2>3, RegisteredTarget DEF RegisterPending, FlagsInv
    <3> QED
      BY <1>1, <1>2, <2>3, <3>1, WriteRowConsistent DEF FlagsInv
  <2>4. CASE RegisterSucceeded /\ rows' = UnsetFlags(rows, "current")
             /\ pc' = "RegisterCurrent"
    BY <1>1, <1>2, <2>4, UnsetFlagsConsistent DEF FlagsInv
  <2>5. CASE RegisterCurrent /\ rows' = WriteRow(rows, ctx.target, "current")
             /\ pc' = "CompleteUpdate"
    <3>1. ctx.target \in Targets /\ PendingRows(rows) = {} /\ CurrentRows(rows) = {}
      BY <2>5, RegisteredTarget DEF RegisterCurrent, FlagsInv
    <3> QED
      BY <1>1, <1>2, <2>5, <3>1, WriteRowConsistent DEF FlagsInv
  <2>6. CASE RegisterFailed /\ rows' = WriteRow(rows, ctx.target, "failed")
             /\ pc' = "Rollback"
    <3>1. ctx.target \in Targets
      BY <2>6, RegisteredTarget DEF RegisterFailed
    <3> QED
      BY <1>1, <1>2, <2>6, <3>1, WriteRowConsistent DEF FlagsInv
  <2> QED
    BY <1>4, <2>1, <2>2, <2>3, <2>4, <2>5, <2>6, RegisterSteps
<1> QED
  BY <1>3, <1>4

LEMMA FlagsInvHolds == Spec => []FlagsInv
BY FlagsInvInit, FlagsInvStep, TypeInvHolds, PTL DEF Spec

(***************************************************************************)
(* At most one target is current, at most one is pending and no row is     *)
(* both, in every state: also after a crash or an error between the two    *)
(* statements of saveInstalledVersions.                                     *)
(***************************************************************************)
THEOREM OneCurrentTargetHolds == Spec => []OneCurrentTarget
<1>1. FlagsInv => OneCurrentTarget
  BY DEF FlagsInv, OneCurrentTarget
<1> QED
  BY <1>1, FlagsInvHolds, PTL

-----------------------------------------------------------------------------
(* A target is current only once it was started                            *)

(***************************************************************************)
(* The runner at hand is of the update that composeapp has, for the target *)
(* and the apps of the context; without a runner there are no apps.  Along *)
(* the steps the state of that update advances, but for the operations     *)
(* that a resumed update skips; those end the run in SkipStart, unless the *)
(* update is in a state that StartTarget starts.                           *)
(***************************************************************************)
Matches ==
  IF ctx.runner THEN upd.name = ctx.target /\ upd.uris = ctx.required
  ELSE ctx.required = {}

UpdateSteps ==
  {"PullTarget", "Fetch", "PullCompleted", "InstallTarget", "RegisterPending",
   "InstallEvent", "InstallStopApps", "Install", "InstallApplied", "StartTarget",
   "Start"}

UpdateInv ==
  /\ pc \in {"InitUpdate", "NewUpdate"} => ~ctx.runner
  /\ pc \in {"RunnerInit", "RollbackInit"} => upd.name = ctx.target
  /\ pc \in UpdateSteps => Matches
  /\ pc = "PullTarget" /\ ctx.runner =>
       ctx.resuming \/ upd.state \in {"Initialized", "Fetched", "Installed"}
  /\ pc = "PullCompleted" /\ ctx.runner => upd.state \in {"Fetched", "Installed"}
  /\ pc = "InstallTarget" /\ ctx.runner =>
       ctx.resuming \/ upd.state \in {"Fetched", "Installed"}
  /\ pc \in {"RegisterPending", "InstallEvent"} /\ ctx.runner =>
       ctx.invoke \/ upd.state = "Installed"
  /\ pc = "InstallApplied" /\ ctx.runner => upd.state = "Installed"
  /\ pc = "StartTarget" /\ ctx.runner => ctx.resuming \/ upd.state \in ToStart
  /\ pc \in {"StartCompleted", "RegisterSucceeded", "RegisterCurrent"} => Started

LEMMA UpdateInvInit == Init => UpdateInv
BY DEF Init, UpdateInv, UpdateSteps

\* Nothing is said of the steps in which a run ends or rolls back.
LEMMA UpdateInvElsewhere ==
  ASSUME pc' \in EndSteps \cup {"PullFailed", "InstallFailed", "StartFailed",
                                "RegisterFailed", "Rollback", "RollbackNewUpdate",
                                "CompleteUpdate"}
  PROVE  UpdateInv'
BY DEF UpdateInv, EndSteps, UpdateSteps

LEMMA UpdateInvGetTarget == TypeInv /\ GetTargetToInstall => UpdateInv'
<1> SUFFICES ASSUME TypeInv, GetTargetToInstall PROVE UpdateInv'
  OBVIOUS
<1>1. CASE pc' = "StopAndRemoveApps"
  BY <1>1, UpdateInvElsewhere DEF EndSteps
<1>2. CASE pc' = "InitUpdate"
  <2>1. ~ctx'.runner
    BY GetTargetContext
  <2> QED
    BY <1>2, <2>1 DEF UpdateInv, UpdateSteps
<1> QED
  BY <1>1, <1>2 DEF GetTargetToInstall

LEMMA UpdateInvInitUpdate == TypeInv /\ UpdateInv /\ InitUpdateStep => UpdateInv'
<1> SUFFICES ASSUME TypeInv, UpdateInv, InitUpdateStep PROVE UpdateInv'
  OBVIOUS
<1>1. ctx \in Context /\ upd \in Compose!Update
  BY DEF TypeInv, TypeOK, Compose!ComposeTypeOK
<1>2. CASE Finish \/ Exit
  BY <1>2, UpdateInvElsewhere DEF Finish, Exit, EndSteps
<1>3. CASE NoCurrentUpdate \/ CompleteStarted
  BY <1>3 DEF NoCurrentUpdate, CompleteStarted, InInitUpdate, UpdateInv, UpdateSteps
<1>4. CASE ResumeUpdate
  <2>1. /\ ctx'.runner /\ ctx'.resuming
        /\ ctx'.target = ctx.target /\ ctx'.required = ctx.required
    BY <1>1, <1>4 DEF ResumeUpdate, Context
  <2>2. pc' = "PullTarget" /\ upd' = upd
    BY <1>4 DEF ResumeUpdate, composeVars
  <2>3. upd.name = ctx.target /\ upd.uris = ctx.required
    BY <1>4 DEF ResumeUpdate, CanResume
  <2> QED
    BY <2>1, <2>2, <2>3 DEF UpdateInv, UpdateSteps, Matches
<1>5. CASE (CancelUpdate /\ ~Finish) \/ (InvalidClientRef /\ ~Finish /\ ~Exit)
  BY <1>5 DEF CancelUpdate, InvalidClientRef, InInitUpdate, UpdateInv, UpdateSteps
<1>6. CASE NewUpdate /\ ~Finish
  <2>1. /\ ~ctx'.runner
        /\ ctx'.target = ctx.target /\ ctx'.required = ctx.required
    BY <1>1, <1>6 DEF NewUpdate, UpdateInv, Context
  <2>2. CASE ctx.required = {}
    BY <1>6, <2>1, <2>2 DEF NewUpdate, UpdateInv, UpdateSteps, Matches
  <2>3. CASE ctx.required # {}
    <3>1. pc' = "RunnerInit" /\ upd'.name = ctx.target
      BY <1>6, <2>3 DEF NewUpdate, Compose!NewUpdate
    <3> QED
      BY <2>1, <3>1 DEF UpdateInv, UpdateSteps
  <2> QED
    BY <2>2, <2>3
<1>7. CASE RunnerInit /\ ~Finish
  <2>1. /\ Compose!Init(ctx.required)
        /\ ctx' = [ctx EXCEPT !.runner = TRUE] /\ pc' = "PullTarget"
    BY <1>7 DEF RunnerInit
  <2>2. ctx'.runner /\ ctx'.target = ctx.target /\ ctx'.required = ctx.required
    BY <1>1, <2>1 DEF Context
  <2>3. /\ upd'.name = upd.name /\ upd'.uris = ctx.required
        /\ upd'.state \in {"Initialized", "Fetched", "Installed"}
    BY <1>1, <2>1 DEF Compose!Init, Compose!Update
  <2>4. upd.name = ctx.target
    BY <1>7 DEF RunnerInit, UpdateInv
  <2> QED
    BY <2>1, <2>2, <2>3, <2>4 DEF UpdateInv, UpdateSteps, Matches
<1> QED
  BY <1>2, <1>3, <1>4, <1>5, <1>6, <1>7 DEF InitUpdateStep

LEMMA UpdateInvPull == TypeInv /\ UpdateInv /\ PullStep => UpdateInv'
<1> SUFFICES ASSUME TypeInv, UpdateInv, PullStep PROVE UpdateInv'
  OBVIOUS
<1>1. ctx \in Context /\ upd \in Compose!Update
  BY DEF TypeInv, TypeOK, Compose!ComposeTypeOK
<1>2. CASE pc' \in {"FlushEvents", "PullFailed"}
  BY <1>2, UpdateInvElsewhere DEF EndSteps
<1>3. CASE SkipPull
  BY <1>3 DEF SkipPull, SkipsWhenResuming, composeVars, UpdateInv, UpdateSteps, Matches
<1>4. CASE PullTarget /\ pc' # "FlushEvents"
  <2>1. /\ upd' = upd
        /\ ctx'.runner = ctx.runner /\ ctx'.target = ctx.target
        /\ ctx'.required = ctx.required
    BY <1>1, <1>4 DEF PullTarget, Finish, composeVars, Context
  <2>2. Matches'
    BY <1>4, <2>1 DEF PullTarget, UpdateInv, UpdateSteps, Matches
  <2>3. CASE Invoked(ToPull)
    <3>1. pc' = "Fetch"
      BY <1>4, <2>3 DEF PullTarget, Finish
    <3> QED
      BY <2>2, <3>1 DEF UpdateInv
  <2>4. CASE ~Invoked(ToPull)
    <3>1. pc' = "PullCompleted"
      BY <1>4, <2>4 DEF PullTarget, Finish
    <3>2. ctx.runner => upd.state \in {"Fetched", "Installed"}
      BY <1>4, <2>4 DEF PullTarget, Invoked, SkipsWhenResuming, ToPull, UpdateInv
    <3> QED
      BY <2>1, <2>2, <3>1, <3>2 DEF UpdateInv
  <2> QED
    BY <2>3, <2>4
<1>5. CASE Fetch /\ pc' # "PullFailed"
  <2>1. /\ pc' = "PullCompleted" /\ ctx' = ctx
        /\ upd' = [upd EXCEPT !.state = "Fetched"]
    BY <1>5 DEF Fetch, Compose!Fetch
  <2>2. upd'.name = upd.name /\ upd'.uris = upd.uris /\ upd'.state = "Fetched"
    BY <1>1, <2>1 DEF Compose!Update
  <2> QED
    BY <1>5, <2>1, <2>2 DEF Fetch, UpdateInv, UpdateSteps, Matches
<1>6. CASE PullCompleted /\ pc' # "FlushEvents"
  BY <1>6 DEF PullCompleted, Finish, composeVars, UpdateInv, UpdateSteps, Matches
<1> QED
  BY <1>2, <1>3, <1>4, <1>5, <1>6 DEF PullStep, PullFailed, Finish

LEMMA UpdateInvInstall == TypeInv /\ UpdateInv /\ InstallStep => UpdateInv'
<1> SUFFICES ASSUME TypeInv, UpdateInv, InstallStep PROVE UpdateInv'
  OBVIOUS
<1>1. ctx \in Context /\ upd \in Compose!Update
  BY DEF TypeInv, TypeOK, Compose!ComposeTypeOK
<1>2. CASE pc' \in {"FlushEvents", "InstallFailed"}
  BY <1>2, UpdateInvElsewhere DEF EndSteps
<1>3. CASE SkipInstall
  BY <1>3 DEF SkipInstall, SkipsWhenResuming, composeVars, UpdateInv, UpdateSteps, Matches
<1>4. CASE InstallTarget
  <2>1. /\ upd' = upd /\ ctx' = [ctx EXCEPT !.invoke = Invoked(ToInstall)]
        /\ pc' \in {"RegisterPending", "InstallEvent"}
    BY <1>4 DEF InstallTarget, composeVars
  <2>2. /\ ctx'.runner = ctx.runner /\ ctx'.target = ctx.target
        /\ ctx'.required = ctx.required /\ ctx'.invoke = Invoked(ToInstall)
    BY <1>1, <2>1 DEF Context
  <2>3. Matches'
    BY <1>4, <2>1, <2>2 DEF InstallTarget, UpdateInv, UpdateSteps, Matches
  <2>4. ctx.runner => Invoked(ToInstall) \/ upd.state = "Installed"
    BY <1>4 DEF InstallTarget, Invoked, SkipsWhenResuming, ToInstall, UpdateInv
  <2> QED
    BY <2>1, <2>2, <2>3, <2>4 DEF UpdateInv
<1>5. CASE RegisterPending
  BY <1>5 DEF RegisterPending, composeVars, UpdateInv, UpdateSteps, Matches
<1>6. CASE InstallEvent /\ pc' # "InstallFailed"
  BY <1>6 DEF InstallEvent, composeVars, UpdateInv, UpdateSteps, Matches
<1>7. CASE InstallStopApps
  <2>1. upd' = upd
    BY <1>7 DEF InstallStopApps, TryStopApps, Compose!StopApps
  <2> QED
    BY <1>7, <2>1 DEF InstallStopApps, UpdateInv, UpdateSteps, Matches
<1>8. CASE Install /\ pc' # "InstallFailed"
  <2>1. /\ pc' = "InstallApplied" /\ ctx' = ctx
        /\ upd' = [upd EXCEPT !.state = "Installed"]
    BY <1>8 DEF Install, Compose!Install
  <2>2. upd'.name = upd.name /\ upd'.uris = upd.uris /\ upd'.state = "Installed"
    BY <1>1, <2>1 DEF Compose!Update
  <2> QED
    BY <1>8, <2>1, <2>2 DEF Install, UpdateInv, UpdateSteps, Matches
<1>9. CASE InstallApplied
  BY <1>9 DEF InstallApplied, composeVars, ToStart, UpdateInv, UpdateSteps, Matches
<1> QED
  BY <1>2, <1>3, <1>4, <1>5, <1>6, <1>7, <1>8, <1>9 DEF InstallStep, InstallFailed, Finish

LEMMA UpdateInvStart == TypeInv /\ UpdateInv /\ StartStep => UpdateInv'
<1> SUFFICES ASSUME TypeInv, UpdateInv, StartStep PROVE UpdateInv'
  OBVIOUS
<1>1. ctx \in Context /\ upd \in Compose!Update
  BY DEF TypeInv, TypeOK, Compose!ComposeTypeOK
<1>2. CASE pc' \in {"FlushEvents", "StopAndRemoveApps", "StartFailed", "CompleteUpdate"}
  BY <1>2, UpdateInvElsewhere DEF EndSteps
<1>3. CASE StartTarget
  <2>1. /\ upd' = upd /\ ctx' = [ctx EXCEPT !.invoke = Invoked(ToStart)]
        /\ pc' = IF Invoked(ToStart) THEN "Start" ELSE "StartCompleted"
    BY <1>3 DEF StartTarget, TryStopApps, Compose!StopApps
  <2>2. /\ ctx'.runner = ctx.runner /\ ctx'.target = ctx.target
        /\ ctx'.required = ctx.required
    BY <1>1, <2>1 DEF Context
  <2>3. CASE Invoked(ToStart)
    <3>1. Matches'
      BY <1>3, <2>1, <2>2 DEF StartTarget, UpdateInv, UpdateSteps, Matches
    <3> QED
      BY <2>1, <2>3, <3>1 DEF UpdateInv
  <2>4. CASE ~Invoked(ToStart)
    <3>1. ~ctx.runner
      BY <1>3, <2>4 DEF StartTarget, Invoked, SkipsWhenResuming, UpdateInv
    <3>2. Started'
      BY <1>3, <2>2, <3>1 DEF StartTarget, UpdateInv, UpdateSteps, Matches, Started
    <3> QED
      BY <2>1, <2>4, <3>2 DEF UpdateInv, UpdateSteps
  <2> QED
    BY <2>3, <2>4
<1>4. CASE Start /\ pc' # "StartFailed"
  <2>1. /\ pc' = "StartCompleted" /\ ctx' = ctx
        /\ upd' = [upd EXCEPT !.state = "Started"]
    BY <1>4 DEF Start, Compose!Start
  <2>2. upd'.name = upd.name /\ upd'.uris = upd.uris /\ upd'.state = "Started"
    BY <1>1, <2>1 DEF Compose!Update
  <2>3. Started'
    BY <1>4, <2>1, <2>2 DEF Start, UpdateInv, UpdateSteps, Matches, Started
  <2> QED
    BY <2>1, <2>3 DEF UpdateInv, UpdateSteps
<1>5. CASE StartCompleted
  BY <1>5 DEF StartCompleted, composeVars, UpdateInv, UpdateSteps, Started
<1>6. CASE RegisterSucceeded /\ pc' # "CompleteUpdate"
  BY <1>6 DEF RegisterSucceeded, composeVars, UpdateInv, UpdateSteps, Started
<1> QED
  BY <1>2, <1>3, <1>4, <1>5, <1>6
  DEF StartStep, SkipStart, RegisterCurrent, CompleteUpdate, Finish

LEMMA UpdateInvRollback == TypeInv /\ UpdateInv /\ RollbackStep => UpdateInv'
<1> SUFFICES ASSUME TypeInv, UpdateInv, RollbackStep PROVE UpdateInv'
  OBVIOUS
<1>1. ctx \in Context /\ upd \in Compose!Update
  BY DEF TypeInv, TypeOK, Compose!ComposeTypeOK
<1>2. CASE pc' \in {"FlushEvents", "RegisterFailed", "Rollback", "RollbackNewUpdate"}
  BY <1>2, UpdateInvElsewhere DEF EndSteps
<1>3. CASE RollbackNewUpdate /\ pc' = "RollbackInit"
  <2>1. ctx' = ctx /\ upd'.name = ctx.target
    BY <1>3 DEF RollbackNewUpdate, Compose!NewUpdate, Finish
  <2> QED
    BY <1>3, <2>1 DEF UpdateInv, UpdateSteps
<1>4. CASE RollbackInit /\ pc' = "InstallTarget"
  <2> DEFINE c == FillAndCheckAppsList(ctx)
  <2>1. /\ ctx.target # Initial /\ c.target # None
        /\ Compose!Init(c.required) /\ ctx' = [c EXCEPT !.runner = TRUE]
        /\ upd'.state # "Initialized"
    BY <1>4 DEF RollbackInit, Finish
  <2>2. ctx.target \in Targets
    BY <1>4, <2>1 DEF RollbackInit, TypeInv, HasTarget, EndSteps, Context, TypeOK
  <2>3. c \in Context /\ c.target = ctx.target
    BY <1>1, <2>1, <2>2, FillAndCheckAppsListType DEF TypeInv, TypeOK, Compose!ComposeTypeOK
  <2> HIDE DEF c
  <2>4. ctx'.runner /\ ctx'.target = ctx.target /\ ctx'.required = c.required
    BY <2>1, <2>3 DEF Context
  <2>5. /\ upd'.name = upd.name /\ upd'.uris = c.required
        /\ upd'.state \in {"Fetched", "Installed"}
    BY <1>1, <2>1 DEF Compose!Init, Compose!Update
  <2>6. upd.name = ctx.target
    BY <1>4 DEF RollbackInit, UpdateInv
  <2> QED
    BY <1>4, <2>4, <2>5, <2>6 DEF UpdateInv, UpdateSteps, Matches
<1> QED
  BY <1>2, <1>3, <1>4
  DEF RollbackStep, StartFailed, RegisterFailed, Rollback, RollbackNewUpdate,
      RollbackInit, Finish

LEMMA UpdateInvStep == TypeInv /\ UpdateInv /\ [Next]_vars => UpdateInv'
<1> SUFFICES ASSUME TypeInv, UpdateInv, [Next]_vars PROVE UpdateInv'
  OBVIOUS
<1>1. CASE EndStep \/ Crash
  BY <1>1, UpdateInvElsewhere
  DEF EndStep, StopAndRemoveApps, RemoveApps, FlushEvents, DeleteEvents, Crash,
      Finish, Exit, EndSteps
<1>2. CASE AppStops \/ UNCHANGED vars
  BY <1>2 DEF AppStops, Compose!AppStops, vars, UpdateInv, Matches, Started
<1> QED
  BY <1>1, <1>2, UpdateInvGetTarget, UpdateInvInitUpdate, UpdateInvPull,
     UpdateInvInstall, UpdateInvStart, UpdateInvRollback
  DEF Next, ProcessStep

LEMMA UpdateInvHolds == Spec => []UpdateInv
BY UpdateInvInit, UpdateInvStep, TypeInvHolds, PTL DEF Spec

(***************************************************************************)
(* A target becomes current, and success is reported for it, only after    *)
(* composeapp has started its apps in an update made for it: whatever run  *)
(* the update was begun in, and whichever operations were skipped.         *)
(***************************************************************************)
THEOREM StartedBeforeCurrentHolds == Spec => StartedBeforeCurrent
<1>1. TypeInv /\ UpdateInv /\ [Next]_vars =>
        [/\ CurrentTargets(rows') \subseteq CurrentTargets(rows) \/ Started
         /\ pc = "StartCompleted" => Started]_vars
  <2> SUFFICES ASSUME TypeInv, UpdateInv, Next
               PROVE  /\ CurrentTargets(rows') \subseteq CurrentTargets(rows) \/ Started
                      /\ pc = "StartCompleted" => Started
    OBVIOUS
  <2>1. pc = "StartCompleted" => Started
    BY DEF UpdateInv
  <2>2. CurrentTargets(rows') \subseteq CurrentTargets(rows) \/ Started
    <3>1. rows \in Table /\ {"current", "pending", "failed"} \subseteq Modes
      BY DEF TypeInv, TypeOK, Modes
    <3>2. CASE rows' = rows
      BY <3>2
    <3>3. CASE RegisterCurrent
      BY <3>3 DEF RegisterCurrent, UpdateInv
    <3>4. ASSUME NEW mode \in {"pending", "current"}, rows' = UnsetFlags(rows, mode)
          PROVE  CurrentTargets(rows') \subseteq CurrentTargets(rows)
      BY <3>1, <3>4, UnsetFlagsTargets
    <3>5. ASSUME NEW mode \in {"pending", "failed"}, ctx.target \in Targets,
                 rows' = WriteRow(rows, ctx.target, mode)
          PROVE  CurrentTargets(rows') \subseteq CurrentTargets(rows)
      BY <3>1, <3>5, WriteRowTargets
    <3>6. CASE RegisterPending /\ rows' = WriteRow(rows, ctx.target, "pending")
      BY <3>5, <3>6, RegisteredTarget DEF RegisterPending
    <3>7. CASE RegisterFailed /\ rows' = WriteRow(rows, ctx.target, "failed")
      BY <3>5, <3>7, RegisteredTarget DEF RegisterFailed
    <3> QED
      BY <3>2, <3>3, <3>4, <3>6, <3>7, RegisterSteps
  <2> QED
    BY <2>1, <2>2
<1> QED
  BY <1>1, TypeInvHolds, UpdateInvHolds, PTL DEF Spec, StartedBeforeCurrent

-----------------------------------------------------------------------------
(* A run gets nearer to its end                                            *)

\* A failure is counted.
LEMMA FaultCounts ==
  ASSUME TypeOK, NEW kind, Fault(kind)
  PROVE  faults < faults'
BY DEF Fault, TypeOK

(***************************************************************************)
(* However the apps, the databases and composeapp are found, a run can     *)
(* only take a step back by a failure of Start: rollback, which calls      *)
(* StartTarget, which calls rollback, does not go round by itself.  With   *)
(* the bound on the faults this bounds the length of every run.            *)
(***************************************************************************)
THEOREM RunAdvancesHolds == Spec => RunAdvances
<1>1. TypeOK /\ [Next]_vars =>
        [ProcessStep => faults < faults' \/ StepsLeft[pc'] < StepsLeft[pc]]_vars
  <2> SUFFICES ASSUME TypeOK, ProcessStep, ~(faults < faults')
               PROVE  StepsLeft[pc'] < StepsLeft[pc]
    OBVIOUS
  <2>1. \A kind : ~Fault(kind)
    BY FaultCounts
  <2> USE <2>1 DEF StepsLeft, Finish, Exit
  <2>2. CASE InitUpdateStep
    BY <2>2 DEF InitUpdateStep, InvalidClientRef, NoCurrentUpdate, CompleteStarted,
                ResumeUpdate, CancelUpdate, NewUpdate, RunnerInit, InInitUpdate
  <2>3. CASE PullStep
    BY <2>3 DEF PullStep, SkipPull, PullTarget, Fetch, PullFailed, PullCompleted
  <2>4. CASE InstallStep
    BY <2>4 DEF InstallStep, SkipInstall, InstallTarget, RegisterPending, InstallEvent,
                InstallStopApps, Install, InstallFailed, InstallApplied
  <2>5. CASE StartStep
    BY <2>5 DEF StartStep, SkipStart, StartTarget, Start, StartCompleted,
                RegisterSucceeded, RegisterCurrent, CompleteUpdate
  <2>6. CASE RollbackStep
    BY <2>6 DEF RollbackStep, StartFailed, RegisterFailed, Rollback, RollbackNewUpdate,
                RollbackInit
  <2>7. CASE EndStep
    <3> HIDE DEF StepsLeft
    <3>1. \/ pc = "StopAndRemoveApps" /\ pc' \in {"FlushEvents", "RemoveApps"}
          \/ pc = "RemoveApps" /\ pc' = "FlushEvents"
          \/ pc = "FlushEvents" /\ pc' \in {"Idle", "DeleteEvents"}
          \/ pc = "DeleteEvents" /\ pc' = "Idle"
      BY <2>7 DEF EndStep, StopAndRemoveApps, RemoveApps, FlushEvents, DeleteEvents
    <3>2. /\ StepsLeft["Idle"] = 0 /\ StepsLeft["DeleteEvents"] = 1
          /\ StepsLeft["FlushEvents"] = 2 /\ StepsLeft["RemoveApps"] = 3
          /\ StepsLeft["StopAndRemoveApps"] = 4
      BY DEF StepsLeft
    <3> QED
      BY <3>1, <3>2
  <2> QED
    BY <2>2, <2>3, <2>4, <2>5, <2>6, <2>7 DEF ProcessStep
<1> QED
  BY <1>1, TypeCorrect, PTL DEF Spec, RunAdvances

-----------------------------------------------------------------------------
(* The apps of the current target stay in the store                        *)

NoDbFaults == "db" \notin FaultKinds

NoComposeApps == TRUE \notin ComposeApps

Spares(t) == ctx.uninstall \cap AppsOf[t] = {}

(***************************************************************************)
(* The lists of a run are those of its target, and what is removed at its  *)
(* end spares the target that is current by then: the one that the run has *)
(* registered, or, when it had nothing to do, the one that it has found.   *)
(***************************************************************************)
AppsInv ==
  /\ ~ctx.configured
  /\ pc \notin EndSteps \cup RollbackSteps =>
       ctx.required = AppsOf[ctx.target] /\ Spares(ctx.target)
  /\ pc = "CompleteUpdate" => GetCurrentTarget(rows) = ctx.target /\ Started
  /\ pc \in {"StopAndRemoveApps", "RemoveApps"} /\ GetCurrentTarget(rows) # Initial =>
       Spares(GetCurrentTarget(rows))

LEMMA AppsInvInit == Init => AppsInv
BY DEF Init, AppsInv, NoContext, EndSteps

\* FillAndCheckAppsList takes all the apps of the target, and drops the target
\* only when it is the current one.
LEMMA FillAndCheckAppsListLists ==
  ASSUME NEW c \in Context, c.target \in Targets, ~c.configured
  PROVE  LET f == FillAndCheckAppsList(c)
         IN  /\ ~f.configured /\ f.uninstall = store \ AppsOf[c.target]
             /\ IF f.target = None THEN c.target = c.current
                ELSE f.target = c.target /\ f.required = AppsOf[c.target]
<1>1. {a \in AppsOf[c.target] : c.configured => a \in c.required} = AppsOf[c.target]
  OBVIOUS
<1> DEFINE g == FillAppsList(c)
<1>2. /\ ~g.configured /\ g.uninstall = store \ AppsOf[c.target]
      /\ g.target = c.target /\ g.required = AppsOf[c.target] /\ g.current = c.current
  BY <1>1 DEF FillAppsList, Context
<1>3. c.target # None
  BY UpdateClientAssumption
<1>4. g = [c EXCEPT !.required = AppsOf[c.target], !.uninstall = store \ AppsOf[c.target]]
  BY <1>1 DEF FillAppsList
<1>5. CASE IsTargetRunning(g)
  <2>1. FillAndCheckAppsList(c) = [g EXCEPT !.target = None, !.required = {}]
    BY <1>5 DEF FillAndCheckAppsList
  <2>2. c.target = c.current
    BY <1>2, <1>5 DEF IsTargetRunning
  <2>3. /\ [g EXCEPT !.target = None, !.required = {}].configured = g.configured
        /\ [g EXCEPT !.target = None, !.required = {}].uninstall = g.uninstall
        /\ [g EXCEPT !.target = None, !.required = {}].target = None
    BY <1>4 DEF Context
  <2> QED
    BY <1>2, <2>1, <2>2, <2>3
<1>6. CASE ~IsTargetRunning(g)
  BY <1>2, <1>3, <1>6 DEF FillAndCheckAppsList
<1> QED
  BY <1>5, <1>6

\* Without database faults a run begins with what the database says.
Chosen(target, configured) ==
  [NoContext EXCEPT !.target = target, !.current = GetCurrentTarget(rows),
                    !.configured = configured]

LEMMA TargetChosen ==
  ASSUME NoDbFaults, TypeInv, GetTargetToInstall
  PROVE  \E candidate \in Targets, target \in Targets, configured \in ComposeApps :
           /\ target = IF IsFailingTarget(rows, candidate) THEN GetCurrentTarget(rows)
                       ELSE candidate
           /\ ctx' = FillAndCheckAppsList(Chosen(target, configured))
           /\ Chosen(target, configured) \in Context
           /\ Chosen(target, configured).target = target
           /\ Chosen(target, configured).current = GetCurrentTarget(rows)
           /\ Chosen(target, configured).configured = configured
<1>1. PICK tuf \in Offers, version \in Pins, configured \in ComposeApps :
      \E candidate \in SelectTarget(tuf, version) :
        LET current == GetCurrentTarget(rows)
            target == IF IsFailingTarget(rows, candidate) THEN current ELSE candidate
        IN  target # Initial /\ ctx' = TargetContext(target, current, configured)
  BY DEF GetTargetToInstall, Fault, NoDbFaults
<1>2. PICK candidate \in SelectTarget(tuf, version) :
        LET current == GetCurrentTarget(rows)
            target == IF IsFailingTarget(rows, candidate) THEN current ELSE candidate
        IN  target # Initial /\ ctx' = TargetContext(target, current, configured)
  BY <1>1
<1> DEFINE current == GetCurrentTarget(rows)
           target == IF IsFailingTarget(rows, candidate) THEN current ELSE candidate
<1>3. candidate \in Targets /\ configured \in BOOLEAN
  BY UpdateClientAssumption DEF SelectTarget
<1>4. current \in Targets \cup {Initial} /\ target \in Targets
  BY <1>2, <1>3, CurrentTargetType DEF TypeInv, TypeOK
<1>5. ctx' = FillAndCheckAppsList(Chosen(target, configured))
  BY <1>2 DEF TargetContext, Chosen
<1>6. \A t \in Targets : /\ Chosen(t, configured) \in Context
                         /\ Chosen(t, configured).target = t
                         /\ Chosen(t, configured).current = current
                         /\ Chosen(t, configured).configured = configured
  BY <1>3, <1>4 DEF Chosen, NoContext, Context
<1> QED
  BY <1>3, <1>4, <1>5, <1>6

LEMMA AppsInvGetTarget ==
  ASSUME NoDbFaults, NoComposeApps, TypeInv, GetTargetToInstall
  PROVE  AppsInv'
<1>1. PICK target \in Targets, configured \in ComposeApps :
        /\ ctx' = FillAndCheckAppsList(Chosen(target, configured))
        /\ Chosen(target, configured) \in Context
        /\ Chosen(target, configured).target = target
        /\ Chosen(target, configured).current = GetCurrentTarget(rows)
        /\ Chosen(target, configured).configured = configured
  BY TargetChosen
<1> DEFINE chosen == Chosen(target, configured)
           current == GetCurrentTarget(rows)
<1>2. ~configured
  BY <1>1, UpdateClientAssumption DEF NoComposeApps
<1>3. /\ ctx' = FillAndCheckAppsList(chosen) /\ chosen \in Context
      /\ chosen.target = target /\ chosen.current = current /\ ~chosen.configured
  BY <1>1, <1>2
<1> HIDE DEF chosen, current
<1>4. /\ ~ctx'.configured /\ ctx'.uninstall = store \ AppsOf[target]
      /\ IF ctx'.target = None THEN target = current
         ELSE ctx'.target = target /\ ctx'.required = AppsOf[target]
  BY <1>3, FillAndCheckAppsListLists
<1>5. rows' = rows
  BY DEF GetTargetToInstall
<1>6. CASE ctx'.target = None
  <2>1. pc' = "StopAndRemoveApps"
    BY <1>6 DEF GetTargetToInstall
  <2> QED
    BY <1>4, <1>5, <1>6, <2>1 DEF AppsInv, Spares, EndSteps, current
<1>7. CASE ctx'.target # None
  <2>1. pc' = "InitUpdate"
    BY <1>7 DEF GetTargetToInstall
  <2> QED
    BY <1>4, <1>7, <2>1 DEF AppsInv, Spares
<1> QED
  BY <1>6, <1>7

\* A step that leaves the lists of the context alone, and where it leads.
KeepsLists ==
  /\ ctx'.target = ctx.target /\ ctx'.current = ctx.current
  /\ ctx'.configured = ctx.configured
  /\ ctx'.required = ctx.required /\ ctx'.uninstall = ctx.uninstall
  /\ \/ /\ pc' \notin EndSteps \cup RollbackSteps \cup {"CompleteUpdate"}
        /\ pc \notin EndSteps \cup RollbackSteps
     \/ pc' = pc /\ UNCHANGED <<rows, ctx, upd>>
     \/ /\ RegisterCurrent /\ rows' = WriteRow(rows, ctx.target, "current")
        /\ pc' = "CompleteUpdate" /\ UNCHANGED <<ctx, upd>>
     \/ /\ pc \in {"CompleteUpdate", "StopAndRemoveApps"}
        /\ pc' \in {"StopAndRemoveApps", "RemoveApps"} /\ UNCHANGED <<rows, ctx>>
     \/ pc' \in {"DeleteEvents", "RollbackInit"}

RollsBack ==
  /\ ctx' = [ctx EXCEPT !.runner = FALSE, !.resuming = FALSE, !.target = ctx.current]
  /\ pc' = "RollbackNewUpdate"

LEMMA ListsKept ==
  ASSUME NoDbFaults, TypeInv, Next
  PROVE  \/ GetTargetToInstall \/ Finish \/ Exit \/ RollsBack
         \/ RollbackInit /\ pc' = "InstallTarget"
         \/ KeepsLists
<1> SUFFICES ASSUME ~Finish, ~Exit PROVE GetTargetToInstall \/ RollsBack
                                         \/ (RollbackInit /\ pc' = "InstallTarget")
                                         \/ KeepsLists
  OBVIOUS
<1>1. /\ ctx \in Context /\ ~Fault("db")
      /\ \A b : /\ [ctx EXCEPT !.invoke = b].target = ctx.target
                /\ [ctx EXCEPT !.invoke = b].current = ctx.current
                /\ [ctx EXCEPT !.invoke = b].configured = ctx.configured
                /\ [ctx EXCEPT !.invoke = b].required = ctx.required
                /\ [ctx EXCEPT !.invoke = b].uninstall = ctx.uninstall
  BY DEF TypeInv, TypeOK, Context, Fault, NoDbFaults
<1> USE <1>1 DEF EndSteps, RollbackSteps, KeepsLists, composeVars
<1>2. CASE InitUpdateStep
  <2>1. CASE InvalidClientRef \/ NoCurrentUpdate \/ CompleteStarted \/ CancelUpdate
    BY <2>1 DEF InvalidClientRef, NoCurrentUpdate, CompleteStarted, CancelUpdate,
                InInitUpdate
  <2>2. CASE ResumeUpdate
    <3>1. /\ ctx' = [ctx EXCEPT !.resuming = TRUE, !.runner = TRUE, !.corr = upd.corr]
          /\ pc = "InitUpdate" /\ pc' = "PullTarget"
      BY <2>2 DEF ResumeUpdate, InInitUpdate
    <3> QED
      BY <3>1 DEF Context
  <2>3. CASE NewUpdate
    <3>1. /\ ctx' = [ctx EXCEPT !.corr = NewCorrelationId]
          /\ pc = "NewUpdate" /\ pc' \in {"PullTarget", "RunnerInit"}
      BY <2>3 DEF NewUpdate
    <3> QED
      BY <3>1 DEF Context
  <2>4. CASE RunnerInit
    <3>1. /\ ctx' = [ctx EXCEPT !.runner = TRUE]
          /\ pc = "RunnerInit" /\ pc' = "PullTarget"
      BY <2>4 DEF RunnerInit
    <3> QED
      BY <3>1 DEF Context
  <2> QED
    BY <1>2, <2>1, <2>2, <2>3, <2>4 DEF InitUpdateStep
<1>3. CASE PullStep
  BY <1>3 DEF PullStep, SkipPull, PullTarget, Fetch, PullFailed, PullCompleted
<1>4. CASE InstallStep
  BY <1>4 DEF InstallStep, SkipInstall, InstallTarget, RegisterPending, InstallEvent,
              InstallStopApps, Install, InstallFailed, InstallApplied
<1>5. CASE StartStep
  BY <1>5 DEF StartStep, SkipStart, StartTarget, Start, StartCompleted,
              RegisterSucceeded, RegisterCurrent, CompleteUpdate
<1>6. CASE RollbackStep
  BY <1>6 DEF RollbackStep, StartFailed, RegisterFailed, Rollback, RollbackNewUpdate,
              RollbackInit, RollsBack
<1>7. CASE EndStep
  BY <1>7 DEF EndStep, StopAndRemoveApps, RemoveApps, FlushEvents, DeleteEvents
<1>8. CASE Crash \/ AppStops
  <2>1. AppStops => UNCHANGED <<rows, pc, ctx, upd>>
    BY DEF AppStops, Compose!AppStops
  <2> QED
    BY <1>8, <2>1 DEF Crash
<1> QED
  BY <1>2, <1>3, <1>4, <1>5, <1>6, <1>7, <1>8 DEF Next, ProcessStep

LEMMA AppsInvStep ==
  ASSUME NoDbFaults, NoComposeApps, TypeInv, FlagsInv, UpdateInv, AppsInv, [Next]_vars
  PROVE  AppsInv'
<1>1. rows \in Table /\ ctx \in Context
  BY DEF TypeInv, TypeOK
<1>2. CASE UNCHANGED vars
  BY <1>2 DEF vars, AppsInv, Spares, Started
<1>3. CASE GetTargetToInstall
  BY <1>3, AppsInvGetTarget
<1>4. CASE Finish \/ Exit
  BY <1>4 DEF Finish, Exit, AppsInv, NoContext, EndSteps
<1>5. CASE RollsBack
  <2>1. ctx' = [ctx EXCEPT !.runner = FALSE, !.resuming = FALSE, !.target = ctx.current]
    BY <1>5 DEF RollsBack
  <2>2. ~ctx'.configured
    BY <1>1, <2>1 DEF AppsInv, Context
  <2> QED
    BY <1>5, <2>2 DEF RollsBack, AppsInv, EndSteps, RollbackSteps
<1>6. CASE RollbackInit /\ pc' = "InstallTarget"
  <2> DEFINE f == FillAndCheckAppsList(ctx)
  <2>1. ctx.target # Initial /\ f.target # None /\ ctx' = [f EXCEPT !.runner = TRUE]
    BY <1>6 DEF RollbackInit, Finish
  <2>2. ctx.target \in Targets
    BY <1>1, <1>6, <2>1 DEF RollbackInit, TypeInv, HasTarget, EndSteps, Context
  <2>3. /\ f \in Context /\ ~f.configured /\ f.target = ctx.target
        /\ f.required = AppsOf[ctx.target] /\ f.uninstall = store \ AppsOf[ctx.target]
    BY <1>1, <2>1, <2>2, FillAndCheckAppsListType, FillAndCheckAppsListLists
    DEF AppsInv, TypeInv, TypeOK, Compose!ComposeTypeOK
  <2> HIDE DEF f
  <2>4. /\ ctx'.target = f.target /\ ctx'.configured = f.configured
        /\ ctx'.required = f.required /\ ctx'.uninstall = f.uninstall
    BY <2>1, <2>3 DEF Context
  <2> QED
    BY <1>6, <2>3, <2>4 DEF AppsInv, Spares
<1>7. CASE KeepsLists
  <2>1. /\ ctx'.target = ctx.target /\ ~ctx'.configured
        /\ ctx'.required = ctx.required /\ ctx'.uninstall = ctx.uninstall
    BY <1>7 DEF KeepsLists, AppsInv
  <2>2. CASE /\ pc' \notin EndSteps \cup RollbackSteps \cup {"CompleteUpdate"}
             /\ pc \notin EndSteps \cup RollbackSteps
    BY <2>1, <2>2 DEF AppsInv, Spares, EndSteps
  <2>3. CASE pc' = pc /\ UNCHANGED <<rows, ctx, upd>>
    BY <2>3 DEF AppsInv, Spares, Started
  <2>4. CASE /\ RegisterCurrent /\ rows' = WriteRow(rows, ctx.target, "current")
             /\ pc' = "CompleteUpdate" /\ UNCHANGED <<ctx, upd>>
    <3>1. ctx.target \in Targets /\ CurrentRows(rows) = {} /\ Started
      BY <2>4, RegisteredTarget DEF RegisterCurrent, FlagsInv, UpdateInv
    <3>2. GetCurrentTarget(rows') = ctx.target
      BY <1>1, <2>4, <3>1, CurrentTargetSet
    <3>3. ctx.required = AppsOf[ctx.target] /\ Spares(ctx.target)
      BY <2>4 DEF RegisterCurrent, AppsInv, EndSteps, RollbackSteps
    <3> QED
      BY <2>1, <2>4, <3>1, <3>2, <3>3 DEF AppsInv, Spares, Started
  <2>5. CASE /\ pc \in {"CompleteUpdate", "StopAndRemoveApps"}
             /\ pc' \in {"StopAndRemoveApps", "RemoveApps"} /\ UNCHANGED <<rows, ctx>>
    BY <2>1, <2>5 DEF AppsInv, Spares, EndSteps, RollbackSteps
  <2>6. CASE pc' \in {"DeleteEvents", "RollbackInit"}
    BY <2>1, <2>6 DEF AppsInv, EndSteps, RollbackSteps
  <2> QED
    BY <1>7, <2>2, <2>3, <2>4, <2>5, <2>6 DEF KeepsLists
<1> QED
  BY <1>2, <1>3, <1>4, <1>5, <1>6, <1>7, ListsKept

\* Only the completion of an update and the removal of apps take any away.
LEMMA StoreShrinks ==
  ASSUME [Next]_vars
  PROVE  \/ store \subseteq store'
         \/ pc = "CompleteUpdate" /\ store' = store \cap upd.uris
         \/ /\ pc = "RemoveApps"
            /\ \E apps \in SUBSET ctx.uninstall : store' = store \ apps
<1>1. CASE GetTargetToInstall \/ UNCHANGED vars
  BY <1>1 DEF GetTargetToInstall, vars, composeVars
<1>2. CASE InitUpdateStep
  BY <1>2 DEF InitUpdateStep, InvalidClientRef, NoCurrentUpdate, CompleteStarted,
              ResumeUpdate, CancelUpdate, NewUpdate, RunnerInit, composeVars,
              Compose!Cancel, Compose!CancelFails, Compose!Complete, Compose!NewUpdate,
              Compose!Init, Compose!InitFails
<1>3. CASE PullStep
  BY <1>3 DEF PullStep, SkipPull, PullTarget, Fetch, PullFailed, PullCompleted,
              composeVars, Compose!Fetch, Compose!FetchFails
<1>4. CASE InstallStep
  BY <1>4 DEF InstallStep, SkipInstall, InstallTarget, RegisterPending, InstallEvent,
              InstallStopApps, Install, InstallFailed, InstallApplied, TryStopApps,
              composeVars, Compose!StopApps, Compose!Install, Compose!InstallFails
<1>5. CASE StartStep
  BY <1>5 DEF StartStep, SkipStart, StartTarget, Start, StartCompleted,
              RegisterSucceeded, RegisterCurrent, CompleteUpdate, TryStopApps,
              composeVars, Compose!StopApps, Compose!Start, Compose!StartFails,
              Compose!CompleteWithPruning
<1>6. CASE RollbackStep
  BY <1>6 DEF RollbackStep, StartFailed, RegisterFailed, Rollback, RollbackNewUpdate,
              RollbackInit, composeVars, Compose!Cancel, Compose!CancelFails,
              Compose!NewUpdate, Compose!Init, Compose!InitFails
<1>7. CASE EndStep
  <2>1. CASE RemoveApps
    <3>1. PICK apps \in SUBSET ctx.uninstall : Compose!RemoveApps(apps)
      BY <2>1 DEF RemoveApps
    <3> QED
      BY <2>1, <3>1 DEF RemoveApps, Compose!RemoveApps
  <2>2. CASE StopAndRemoveApps \/ FlushEvents \/ DeleteEvents
    BY <2>2 DEF StopAndRemoveApps, FlushEvents, DeleteEvents, TryStopApps, composeVars,
                Compose!StopApps
  <2> QED
    BY <1>7, <2>1, <2>2 DEF EndStep
<1>8. CASE Crash \/ AppStops
  BY <1>8 DEF Crash, AppStops, composeVars, Compose!InitFails, Compose!FetchFails,
              Compose!InstallFails, Compose!StartFails, Compose!CancelFails,
              Compose!AppStops
<1> QED
  BY <1>1, <1>2, <1>3, <1>4, <1>5, <1>6, <1>7, <1>8 DEF Next, ProcessStep

(***************************************************************************)
(* Whatever crashes, fails in composeapp or in the events table, and stops *)
(* by itself, no step takes an app of the current target out of the store  *)
(* (CompleteWithPruning, StopAndRemoveApps).  The two hypotheses are what  *)
(* the code does not cover: an error of registering success is ignored,    *)
(* and with pacman.compose_apps the lists of a run are empty.              *)
(***************************************************************************)
THEOREM CurrentAppsKeptHolds ==
  ASSUME NoDbFaults, NoComposeApps
  PROVE  Spec => CurrentAppsKept
<1>1. TypeInv /\ AppsInv /\ [Next]_vars =>
        [LET t == GetCurrentTarget(rows)
         IN  t # Initial => AppsOf[t] \cap store \subseteq store']_vars
  <2> SUFFICES ASSUME TypeInv, AppsInv, [Next]_vars, GetCurrentTarget(rows) # Initial
               PROVE  AppsOf[GetCurrentTarget(rows)] \cap store \subseteq store'
    OBVIOUS
  <2> DEFINE t == GetCurrentTarget(rows)
  <2>1. CASE store \subseteq store'
    BY <2>1
  <2>2. CASE pc = "CompleteUpdate" /\ store' = store \cap upd.uris
    <3>1. t = ctx.target /\ Started /\ ctx.required = AppsOf[ctx.target]
      BY <2>2 DEF AppsInv, EndSteps, RollbackSteps
    <3>2. AppsOf[t] \subseteq upd.uris
      BY <3>1 DEF Started
    <3> QED
      BY <2>2, <3>2
  <2>3. CASE /\ pc = "RemoveApps"
             /\ \E apps \in SUBSET ctx.uninstall : store' = store \ apps
    <3>1. Spares(t)
      BY <2>3 DEF AppsInv
    <3> QED
      BY <2>3, <3>1 DEF Spares
  <2> QED
    BY <2>1, <2>2, <2>3, StoreShrinks
<1>2. Spec => []AppsInv
  <2>1. Spec => []TypeInv /\ []UpdateInv
    BY TypeInvHolds, UpdateInvHolds
  <2>2. TypeInv /\ FlagsInv /\ UpdateInv /\ AppsInv /\ [Next]_vars => AppsInv'
    BY AppsInvStep
  <2> QED
    BY <2>1, <2>2, AppsInvInit, FlagsInvHolds, PTL DEF Spec
<1> QED
  BY <1>1, <1>2, TypeInvHolds, PTL DEF Spec, CurrentAppsKept
=============================================================================
