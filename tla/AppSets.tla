------------------------------- MODULE AppSets -------------------------------
(***************************************************************************)
(* The decisions of the update client about apps, as UpdateClient has      *)
(* them: on sets.                                                          *)
(***************************************************************************)
CONSTANT Apps

VARIABLES
  store,       \* the apps in the store of composeapp
  running,     \* the apps that run
  uris,        \* the apps of the update that composeapp has
  required,    \* RequiredApps
  uninstall,   \* AppsToUninstall
  isRunning,   \* what IsTargetRunning found
  resumes      \* whether the update that composeapp has is for these apps

vars == <<store, running, uris, required, uninstall, isRunning, resumes>>

Init ==
  /\ store \in SUBSET Apps /\ running \in SUBSET Apps
  /\ uris = {} /\ required = {} /\ uninstall = {}
  /\ isRunning = FALSE /\ resumes = FALSE

\* A new process: the context is empty.
NewContext ==
  /\ required' = {} /\ uninstall' = {} /\ isRunning' = FALSE /\ resumes' = FALSE
  /\ UNCHANGED <<store, running, uris>>

Require(target, configured) ==
  /\ required' = {a \in target : configured => a \in required}
  /\ UNCHANGED <<store, running, uris, uninstall, isRunning, resumes>>

Uninstall ==
  /\ uninstall' = store \ required
  /\ UNCHANGED <<store, running, uris, required, isRunning, resumes>>

Decide ==
  /\ isRunning' = (required \subseteq store /\ required \subseteq running)
  /\ resumes' = (uris = required)
  /\ UNCHANGED <<store, running, uris, required, uninstall>>

NewUpdate ==
  /\ uris' = required
  /\ UNCHANGED <<store, running, required, uninstall, isRunning, resumes>>

\* composeapp installs, starts, stops and removes apps.
Change ==
  /\ store' \in SUBSET Apps /\ running' \in SUBSET Apps
  /\ UNCHANGED <<uris, required, uninstall, isRunning, resumes>>

Next ==
  \/ NewContext
  \/ \E target \in SUBSET Apps, configured \in BOOLEAN : Require(target, configured)
  \/ Uninstall \/ Decide \/ NewUpdate \/ Change

Spec == Init /\ [][Next]_vars
=============================================================================
