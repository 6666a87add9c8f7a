----------------------------- MODULE ComposeApp -----------------------------
(***************************************************************************)
(* External: the packages compose and update of foundriesio/composeapp,    *)
(* modelled from the calls updateclient makes and from the states it tests *)
(* for.  composeapp keeps a store of fetched apps, the containers of the   *)
(* apps that run, and, in updates.db, the record of the last update; all   *)
(* three survive a crash of the client.                                    *)
(***************************************************************************)
EXTENDS Naturals

CONSTANTS
  Apps,      \* the URIs of the compose apps
  Names,     \* what the first part of a clientRef may be
  NoName     \* the name in the record before the first update

VARIABLES
  store,     \* the apps ListApps returns
  running,   \* the apps that CheckAppsStatus finds running
  upd        \* the record of the last update

composeVars == <<store, running, upd>>

(***************************************************************************)
(* update.State.  "None" stands for an empty updates.db.                   *)
(***************************************************************************)
States == {"None", "Created", "Initializing", "Initialized", "Fetching",
           "Fetched", "Installing", "Installed", "Starting", "Started",
           "Completed", "Cancelling", "Canceled"}

Update == [name : Names \cup {NoName}, corr : Nat, state : States, uris : SUBSET Apps]

NoUpdate == [name |-> NoName, corr |-> 0, state |-> "None", uris |-> {}]

ComposeTypeOK ==
  /\ store \subseteq Apps
  /\ running \subseteq Apps
  /\ upd \in Update

(***************************************************************************)
(* GetCurrentUpdate finds an update (no ErrUpdateNotFound) that neither    *)
(* completed nor was cancelled.                                            *)
(***************************************************************************)
IsActive == upd.state \notin {"None", "Completed", "Canceled"}

(***************************************************************************)
(* update.NewUpdate and the Runner's methods.  A method that fails leaves  *)
(* the record in the state of the unfinished operation.                    *)
(***************************************************************************)
NewUpdate(name, corr) ==
  /\ upd' = [name |-> name, corr |-> corr, state |-> "Created", uris |-> {}]
  /\ UNCHANGED <<store, running>>

\* Init finds out what is missing: nothing to fetch when the apps are in the
\* store, and possibly nothing to install either.
Init(uris) ==
  /\ \E s \in IF uris \subseteq store THEN {"Fetched", "Installed"} ELSE {"Initialized"} :
       upd' = [upd EXCEPT !.state = s, !.uris = uris]
  /\ UNCHANGED <<store, running>>

InitFails(uris) ==
  /\ upd' = [upd EXCEPT !.state = "Initializing", !.uris = uris]
  /\ UNCHANGED <<store, running>>

Fetch ==
  /\ upd' = [upd EXCEPT !.state = "Fetched"]
  /\ store' = store \cup upd.uris
  /\ UNCHANGED running

FetchFails ==
  /\ upd' = [upd EXCEPT !.state = "Fetching"]
  /\ \E fetched \in SUBSET upd.uris : store' = store \cup fetched
  /\ UNCHANGED running

Install ==
  /\ upd' = [upd EXCEPT !.state = "Installed"]
  /\ UNCHANGED <<store, running>>

InstallFails ==
  /\ upd' = [upd EXCEPT !.state = "Installing"]
  /\ UNCHANGED <<store, running>>

Start ==
  /\ upd' = [upd EXCEPT !.state = "Started"]
  /\ running' = running \cup upd.uris
  /\ UNCHANGED store

StartFails ==
  /\ upd' = [upd EXCEPT !.state = "Starting"]
  /\ \E started \in SUBSET upd.uris : running' = running \cup started
  /\ UNCHANGED store

Complete ==
  /\ upd' = [upd EXCEPT !.state = "Completed"]
  /\ UNCHANGED <<store, running>>

\* Complete(CompleteWithPruning()) drops the apps that the update does not use.
CompleteWithPruning ==
  /\ upd' = [upd EXCEPT !.state = "Completed"]
  /\ store' = store \cap upd.uris
  /\ running' = running \cap upd.uris

Cancel ==
  /\ upd' = [upd EXCEPT !.state = "Canceled"]
  /\ UNCHANGED <<store, running>>

\* Cancel may also fail before it has done anything.
CancelFails ==
  /\ \E s \in {upd.state, "Cancelling"} : upd' = [upd EXCEPT !.state = s]
  /\ UNCHANGED <<store, running>>

(***************************************************************************)
(* compose.StopApps (and UninstallApps, which removes the containers) and  *)
(* compose.RemoveApps, for the apps they get to before they return.        *)
(***************************************************************************)
StopApps(apps) ==
  /\ running' = running \ apps
  /\ UNCHANGED <<store, upd>>

RemoveApps(apps) ==
  /\ store' = store \ apps
  /\ UNCHANGED <<running, upd>>

\* A container dies.
AppStops ==
  /\ \E a \in running : running' = running \ {a}
  /\ UNCHANGED <<store, upd>>
=============================================================================
