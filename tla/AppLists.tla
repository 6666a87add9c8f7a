------------------------------ MODULE AppLists ------------------------------
(***************************************************************************)
(* The lists of apps that the update client works with (FillAppsList,      *)
(* IsTargetRunning, and the comparison with the update that composeapp     *)
(* has), as the code has them: slices, filled from a map in any order and  *)
(* from what composeapp lists, filtered by loops, and compared by their    *)
(* lengths and elements.                                                   *)
(***************************************************************************)
EXTENDS FiniteSets, Sequences, Functions

CONSTANT Apps   \* URIs of apps; no two apps of a target have the same one

ASSUME AppListsAssumption == IsFiniteSet(Apps)

VARIABLES
  store,        \* the apps in the store of composeapp
  running,      \* the apps that run
  uris,         \* URIs of the update that composeapp has
  pc,           \* the loop that runs, or what comes next
  configured,   \* pacman.compose_apps is set
  targetApps,   \* targetApps of FillAppsList
  installed,    \* InstalledApps
  i,            \* the index of the loop
  kept,         \* requiredApps, then appsToUninstall, of FillAppsList
  required,     \* RequiredApps
  uninstall,    \* AppsToUninstall
  isRunning,    \* the answer of IsTargetRunning
  resumes       \* the answer of appsListMatch

external == <<store, running, uris>>
loop == <<configured, targetApps, installed, i, kept>>
answers == <<isRunning, resumes>>
listVars == <<external, pc, loop, required, uninstall, answers>>

\* The lists that hold each element of S once, in any order.
Listings(S) ==
  {s \in [1 .. Cardinality(S) -> S] :
     Range(s) = S /\ \A j, k \in DOMAIN s : s[j] = s[k] => j = k}

-----------------------------------------------------------------------------
\* FillAppsList begins, in a process that has just started or in a rollback.
\* GetAppsUris goes through the map docker_compose_apps.
FillAppsList ==
  /\ pc = "FillAppsList"
  /\ \E target \in SUBSET Apps : targetApps' \in Listings(target)
  /\ pc' = "RequiredApps"
  /\ UNCHANGED <<external, configured, installed, i, kept, required, uninstall, answers>>

IsRequired(app) == configured => app \in Range(required)

\* One turn of the loop over targetApps.
RequiredApp ==
  /\ pc = "RequiredApps" /\ i <= Len(targetApps)
  /\ kept' = IF IsRequired(targetApps[i]) THEN Append(kept, targetApps[i]) ELSE kept
  /\ i' = i + 1
  /\ UNCHANGED <<external, pc, configured, targetApps, installed, required, uninstall, answers>>

\* The loop is done; getInstalledApps lists the apps of the store.
ListApps ==
  /\ pc = "RequiredApps" /\ i > Len(targetApps)
  /\ required' = kept
  /\ installed' \in Listings(store)
  /\ targetApps' = <<>> /\ i' = 1 /\ kept' = <<>>
  /\ pc' = "AppsToUninstall"
  /\ UNCHANGED <<external, configured, uninstall, answers>>

\* One turn of the loop over installedApps.
InstalledApp ==
  /\ pc = "AppsToUninstall" /\ i <= Len(installed)
  /\ kept' = IF installed[i] \notin Range(required) THEN Append(kept, installed[i]) ELSE kept
  /\ i' = i + 1
  /\ UNCHANGED <<external, pc, configured, targetApps, installed, required, uninstall, answers>>

AppsToUninstall ==
  /\ pc = "AppsToUninstall" /\ i > Len(installed)
  /\ uninstall' = kept
  /\ i' = 1 /\ kept' = <<>>
  /\ pc' = "IsTargetRunning"
  /\ UNCHANGED <<external, configured, targetApps, installed, required, answers>>

isSublist(mainList, sublist) ==
  /\ Len(sublist) <= Len(mainList)
  /\ \A k \in DOMAIN sublist : sublist[k] \in Range(mainList)

\* Mutant of appsListMatch: the lengths are not compared.
appsListMatchAnyLength(list1, list2) == \A k \in DOMAIN list1 : list1[k] \in Range(list2)

appsListMatch(list1, list2) ==
  /\ Len(list1) = Len(list2)
  /\ \A k \in DOMAIN list1 : list1[k] \in Range(list2)

\* IsTargetRunning for a target that is the current one, and the test of
\* InitUpdate for an update of that target.
IsTargetRunning ==
  /\ pc = "IsTargetRunning"
  /\ isRunning' = \/ Len(required) = 0
                  \/ isSublist(installed, required) /\ Range(required) \subseteq running
  /\ resumes' = appsListMatch(uris, required)
  /\ installed' = <<>>
  /\ pc' = "Done"
  /\ UNCHANGED <<external, configured, targetApps, i, kept, required, uninstall>>

\* The update that composeapp gets, and what becomes of it.
NewUpdate ==
  /\ pc = "Done" /\ uris' = required
  /\ UNCHANGED <<store, running, pc, loop, required, uninstall, answers>>

Change ==
  /\ pc = "Done"
  /\ store' \in SUBSET Apps /\ running' \in SUBSET Apps
  /\ UNCHANGED <<uris, pc, loop, required, uninstall, answers>>

\* The rollback fills the lists of the same context again.
Rollback ==
  /\ pc = "Done" /\ pc' = "FillAppsList"
  /\ UNCHANGED <<external, loop, required, uninstall, answers>>

\* The next run begins; what the locals of the last one held is gone.
NextRun ==
  /\ pc = "Done" /\ pc' = "FillAppsList"
  /\ configured' \in BOOLEAN
  /\ required' = <<>> /\ uninstall' = <<>> /\ isRunning' = FALSE /\ resumes' = FALSE
  /\ UNCHANGED <<external, targetApps, installed, i, kept>>

ListsInit ==
  /\ store \in SUBSET Apps /\ running \in SUBSET Apps /\ uris = <<>>
  /\ pc = "FillAppsList"
  /\ configured \in BOOLEAN /\ targetApps = <<>> /\ installed = <<>> /\ i = 1 /\ kept = <<>>
  /\ required = <<>> /\ uninstall = <<>> /\ isRunning = FALSE /\ resumes = FALSE

ListsNext ==
  \/ FillAppsList \/ RequiredApp \/ ListApps \/ InstalledApp \/ AppsToUninstall
  \/ IsTargetRunning \/ NewUpdate \/ Change \/ Rollback \/ NextRun

ListsSpec == ListsInit /\ [][ListsNext]_listVars

-----------------------------------------------------------------------------
Sets == INSTANCE AppSets WITH
          uris <- Range(uris), required <- Range(required), uninstall <- Range(uninstall)

(***************************************************************************)
(* The lists decide as sets would: neither the order in which a map or a   *)
(* listing comes, which differs from one run to the next, nor the tests of *)
(* the lengths make a target that runs look stopped, an update that could  *)
(* be resumed look like another one, or an app be removed or kept wrongly. *)
(***************************************************************************)
ListsActAsSets == Sets!Spec
=============================================================================
