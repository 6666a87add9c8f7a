--------------------------- MODULE AppListsProofs ---------------------------
(***************************************************************************)
(* The lists of apps act as sets, for any finite set of apps: AppLists     *)
(* implements AppSets.                                                     *)
(***************************************************************************)
EXTENDS AppLists, FiniteSetTheorems, TLAPS

-----------------------------------------------------------------------------
(* Lists without repetitions                                               *)

List(s) ==
  /\ s \in Seq(Apps)
  /\ IsFiniteSet(Range(s)) /\ Cardinality(Range(s)) = Len(s)

LEMMA EmptyList == List(<<>>) /\ Range(<<>>) = {}
<1>1. Range(<<>>) = {}
  BY DEF Range
<1>2. QED
  BY <1>1, FS_EmptySet DEF List

LEMMA ListRange ==
  ASSUME NEW s \in Seq(Apps)
  PROVE  Range(s) = {s[k] : k \in 1 .. Len(s)} /\ Range(s) \subseteq Apps
  BY DEF Range

\* A new element at the end.
LEMMA ListAppend ==
  ASSUME NEW s, List(s), NEW app \in Apps, app \notin Range(s)
  PROVE  List(Append(s, app)) /\ Range(Append(s, app)) = Range(s) \cup {app}
<1>1. s \in Seq(Apps) /\ IsFiniteSet(Range(s)) /\ Cardinality(Range(s)) = Len(s)
  BY DEF List
<1>2. Append(s, app) \in Seq(Apps) /\ Len(Append(s, app)) = Len(s) + 1
  BY <1>1
<1>3. Range(Append(s, app)) = Range(s) \cup {app}
  <2>1. /\ Range(Append(s, app)) = {Append(s, app)[k] : k \in 1 .. Len(s) + 1}
        /\ Range(s) = {s[k] : k \in 1 .. Len(s)}
    BY <1>1, <1>2, ListRange
  <2>2. /\ \A k \in 1 .. Len(s) : Append(s, app)[k] = s[k]
        /\ Append(s, app)[Len(s) + 1] = app /\ Len(s) \in Nat
    BY <1>1
  <2>3. 1 .. Len(s) + 1 = (1 .. Len(s)) \cup {Len(s) + 1}
    BY <2>2
  <2>4. QED
    BY <2>1, <2>2, <2>3
<1>4. IsFiniteSet(Range(s) \cup {app}) /\ Cardinality(Range(s) \cup {app}) = Len(s) + 1
  BY <1>1, FS_AddElement
<1>5. QED
  BY <1>2, <1>3, <1>4 DEF List

LEMMA ListingFacts ==
  ASSUME NEW S \in SUBSET Apps, NEW s \in Listings(S)
  PROVE  /\ s \in Seq(Apps) /\ Len(s) \in Nat /\ Len(s) = Cardinality(S) /\ IsFiniteSet(S)
         /\ Range(s) = S /\ S = {s[k] : k \in 1 .. Len(s)}
         /\ \A j, k \in 1 .. Len(s) : s[j] = s[k] => j = k
<1>1. IsFiniteSet(S) /\ Cardinality(S) \in Nat
  BY AppListsAssumption, FS_Subset, FS_CardinalityType
<1>2. /\ s \in [1 .. Cardinality(S) -> S] /\ Range(s) = S
      /\ \A j, k \in DOMAIN s : s[j] = s[k] => j = k
  BY DEF Listings
<1>3. s \in Seq(Apps) /\ Len(s) = Cardinality(S)
  BY <1>1, <1>2
<1>4. QED
  BY <1>1, <1>2, <1>3, ListRange

(***************************************************************************)
(* isSublist is inclusion: the test of the lengths refuses nothing that is *)
(* included.                                                               *)
(***************************************************************************)
LEMMA SublistIsSubset ==
  ASSUME NEW S \in SUBSET Apps, NEW s \in Listings(S), NEW sub, List(sub)
  PROVE  isSublist(s, sub) <=> Range(sub) \subseteq S
<1>1. Len(s) = Cardinality(S) /\ IsFiniteSet(S) /\ Range(s) = S
  BY ListingFacts
<1>2. Cardinality(Range(sub)) = Len(sub)
  BY DEF List
<1>3. Range(sub) \subseteq S => Len(sub) <= Len(s)
  BY <1>1, <1>2, FS_Subset
<1>4. (\A k \in DOMAIN sub : sub[k] \in Range(s)) <=> Range(sub) \subseteq S
  BY <1>1 DEF Range
<1>5. QED
  BY <1>3, <1>4 DEF isSublist

(***************************************************************************)
(* appsListMatch is equality: as many elements, all of them in the other.  *)
(***************************************************************************)
LEMMA MatchIsEquality ==
  ASSUME NEW list1, NEW list2, List(list1), List(list2)
  PROVE  appsListMatch(list1, list2) <=> Range(list1) = Range(list2)
<1>1. /\ Cardinality(Range(list1)) = Len(list1) /\ IsFiniteSet(Range(list1))
      /\ Cardinality(Range(list2)) = Len(list2) /\ IsFiniteSet(Range(list2))
  BY DEF List
<1>2. (\A k \in DOMAIN list1 : list1[k] \in Range(list2)) <=> Range(list1) \subseteq Range(list2)
  BY DEF Range
<1>3. Range(list1) \subseteq Range(list2) /\ Len(list1) = Len(list2)
        => Range(list1) = Range(list2)
  BY <1>1, FS_Subset
<1>4. QED
  BY <1>1, <1>2, <1>3 DEF appsListMatch

LEMMA EmptyLength == ASSUME NEW s, List(s) PROVE Len(s) = 0 <=> Range(s) = {}
  BY FS_EmptySet DEF List

-----------------------------------------------------------------------------
(* The loops                                                               *)

\* Of list, the loop has kept those elements before i that Keeps keeps.
Kept(list, keeps) ==
  /\ i \in 1 .. Len(list) + 1
  /\ List(kept)
  /\ Range(kept) = {list[k] : k \in 1 .. i - 1} \cap keeps

ListsInv ==
  /\ store \subseteq Apps /\ running \subseteq Apps /\ configured \in BOOLEAN
  /\ List(uris) /\ List(required) /\ List(uninstall)
  /\ pc \in {"FillAppsList", "Done", "IsTargetRunning"} => i = 1 /\ kept = <<>>
  /\ pc = "RequiredApps" =>
       /\ \E target \in SUBSET Apps : targetApps \in Listings(target)
       /\ Kept(targetApps, {a \in Apps : IsRequired(a)})
  /\ pc = "AppsToUninstall" =>
       /\ installed \in Listings(store)
       /\ Kept(installed, store \ Range(required))
  /\ pc = "IsTargetRunning" => installed \in Listings(store)

\* A turn of a loop over a list without repetitions.
LEMMA LoopTurn ==
  ASSUME NEW S \in SUBSET Apps, NEW list \in Listings(S), NEW keeps,
         Kept(list, keeps), i <= Len(list),
         i' = i + 1,
         kept' = IF list[i] \in keeps THEN Append(kept, list[i]) ELSE kept
  PROVE  /\ i' \in 1 .. Len(list) + 1 /\ List(kept')
         /\ Range(kept') = {list[k] : k \in 1 .. i' - 1} \cap keeps
<1>1. /\ list \in Seq(Apps) /\ Len(list) \in Nat
      /\ \A j, k \in 1 .. Len(list) : list[j] = list[k] => j = k
  BY ListingFacts
<1>2. i \in 1 .. Len(list) /\ list[i] \in Apps
  BY <1>1 DEF Kept
<1>3. 1 .. i' - 1 = (1 .. i - 1) \cup {i}
  BY <1>2
<1>4. {list[k] : k \in 1 .. i' - 1} = {list[k] : k \in 1 .. i - 1} \cup {list[i]}
  BY <1>3
<1>5. list[i] \notin {list[k] : k \in 1 .. i - 1}
  BY <1>1, <1>2
<1>6. List(kept) /\ Range(kept) = {list[k] : k \in 1 .. i - 1} \cap keeps
  BY DEF Kept
<1>7. i' \in 1 .. Len(list) + 1
  BY <1>1, <1>2
<1>8. CASE list[i] \in keeps
  <2>1. list[i] \notin Range(kept)
    BY <1>5, <1>6
  <2>2. List(kept') /\ Range(kept') = Range(kept) \cup {list[i]}
    BY <1>2, <1>6, <1>8, <2>1, ListAppend
  <2>3. QED
    BY <1>4, <1>6, <1>7, <1>8, <2>2
<1>9. CASE list[i] \notin keeps
  BY <1>4, <1>6, <1>7, <1>9
<1>10. QED
  BY <1>8, <1>9

\* A loop that is done.
LEMMA LoopEnds ==
  ASSUME NEW S \in SUBSET Apps, NEW list \in Listings(S), NEW keeps,
         Kept(list, keeps), i > Len(list)
  PROVE  List(kept) /\ Range(kept) = S \cap keeps
<1>1. Len(list) \in Nat /\ S = {list[k] : k \in 1 .. Len(list)}
  BY ListingFacts
<1>2. i - 1 = Len(list)
  BY <1>1 DEF Kept
<1>3. QED
  BY <1>1, <1>2 DEF Kept

-----------------------------------------------------------------------------
(* Every step keeps the invariant, and is a step on sets                   *)

LEMMA ListsInvInit == ListsInit => ListsInv /\ Sets!Init
<1> SUFFICES ASSUME ListsInit PROVE ListsInv /\ Sets!Init
  OBVIOUS
<1>1. ListsInv
  BY EmptyList DEF ListsInit, ListsInv
<1>2. Sets!Init
  BY EmptyList DEF ListsInit, Sets!Init
<1>3. QED
  BY <1>1, <1>2

LEMMA FillAppsListStep ==
  ASSUME ListsInv, FillAppsList
  PROVE  ListsInv' /\ UNCHANGED Sets!vars
<1>1. PICK target \in SUBSET Apps : targetApps' \in Listings(target)
  BY DEF FillAppsList
<1>2. /\ UNCHANGED <<store, running, uris, configured, required, uninstall, isRunning, resumes,
                     i, kept>>
      /\ pc' = "RequiredApps" /\ i = 1 /\ kept = <<>>
  BY DEF FillAppsList, external, answers, ListsInv
<1>3. targetApps' \in Seq(Apps) /\ Len(targetApps') \in Nat
  BY <1>1, ListingFacts
<1>4. Kept(targetApps, {a \in Apps : IsRequired(a)})'
  BY <1>2, <1>3, EmptyList DEF Kept
<1>5. ListsInv'
  BY <1>1, <1>2, <1>4 DEF ListsInv
<1>6. QED
  BY <1>2, <1>5 DEF Sets!vars

LEMMA RequiredAppStep ==
  ASSUME ListsInv, RequiredApp
  PROVE  ListsInv' /\ UNCHANGED Sets!vars
<1>1. /\ UNCHANGED <<store, running, uris, pc, configured, targetApps, required, uninstall,
                     isRunning, resumes>>
      /\ pc = "RequiredApps" /\ i <= Len(targetApps) /\ i' = i + 1
      /\ kept' = IF IsRequired(targetApps[i]) THEN Append(kept, targetApps[i]) ELSE kept
  BY DEF RequiredApp, external, answers
<1> DEFINE keeps == {a \in Apps : IsRequired(a)}
<1>2. PICK target \in SUBSET Apps : targetApps \in Listings(target)
  BY <1>1 DEF ListsInv
<1>3. Kept(targetApps, keeps)
  BY <1>1 DEF ListsInv
<1>4. targetApps[i] \in Apps
  BY <1>1, <1>2, <1>3, ListingFacts DEF Kept
<1>5. kept' = IF targetApps[i] \in keeps THEN Append(kept, targetApps[i]) ELSE kept
  BY <1>1, <1>4
<1>6. keeps' = keeps
  BY <1>1 DEF IsRequired
<1> HIDE DEF keeps
<1>7. /\ i' \in 1 .. Len(targetApps) + 1 /\ List(kept')
      /\ Range(kept') = {targetApps[k] : k \in 1 .. i' - 1} \cap keeps
  BY <1>1, <1>2, <1>3, <1>5, LoopTurn
<1>8. Kept(targetApps, keeps)'
  BY <1>1, <1>6, <1>7 DEF Kept
<1>9. ListsInv'
  BY <1>1, <1>2, <1>8 DEF ListsInv, keeps
<1>10. QED
  BY <1>1, <1>9 DEF Sets!vars

LEMMA ListAppsStep ==
  ASSUME ListsInv, ListApps
  PROVE  ListsInv' /\ \E target \in SUBSET Apps : Sets!Require(target, configured)
<1>1. /\ UNCHANGED <<store, running, uris, configured, uninstall, isRunning, resumes>>
      /\ pc = "RequiredApps" /\ i > Len(targetApps) /\ pc' = "AppsToUninstall"
      /\ required' = kept /\ installed' \in Listings(store) /\ i' = 1 /\ kept' = <<>>
  BY DEF ListApps, external, answers
<1> DEFINE keeps == {a \in Apps : IsRequired(a)}
<1>2. PICK target \in SUBSET Apps : targetApps \in Listings(target)
  BY <1>1 DEF ListsInv
<1>3. Kept(targetApps, keeps)
  BY <1>1 DEF ListsInv
<1> HIDE DEF keeps
<1>4. List(kept) /\ Range(kept) = target \cap keeps
  BY <1>1, <1>2, <1>3, LoopEnds
<1>5. store \in SUBSET Apps
  BY DEF ListsInv
<1>6. installed' \in Seq(Apps) /\ Len(installed') \in Nat
  BY <1>1, <1>5, ListingFacts
<1>7. Kept(installed, store \ Range(required))'
  BY <1>1, <1>6, EmptyList DEF Kept
<1>8. ListsInv'
  BY <1>1, <1>4, <1>7 DEF ListsInv
<1>9. Range(required') = {a \in target : configured => a \in Range(required)}
  BY <1>1, <1>4 DEF keeps, IsRequired
<1>10. Sets!Require(target, configured)
  BY <1>1, <1>9 DEF Sets!Require
<1>11. QED
  BY <1>8, <1>10

LEMMA InstalledAppStep ==
  ASSUME ListsInv, InstalledApp
  PROVE  ListsInv' /\ UNCHANGED Sets!vars
<1>1. /\ UNCHANGED <<store, running, uris, pc, configured, installed, required, uninstall,
                     isRunning, resumes>>
      /\ pc = "AppsToUninstall" /\ i <= Len(installed) /\ i' = i + 1
      /\ kept' = IF installed[i] \notin Range(required) THEN Append(kept, installed[i]) ELSE kept
  BY DEF InstalledApp, external, answers
<1> DEFINE keeps == store \ Range(required)
<1>2. store \in SUBSET Apps /\ installed \in Listings(store)
  BY <1>1 DEF ListsInv
<1>3. Kept(installed, keeps)
  BY <1>1 DEF ListsInv
<1>4. installed[i] \in store
  <2>1. store = {installed[k] : k \in 1 .. Len(installed)} /\ Len(installed) \in Nat
    BY <1>2, ListingFacts
  <2>2. i \in 1 .. Len(installed)
    BY <1>1, <1>3, <2>1 DEF Kept
  <2>3. QED
    BY <2>1, <2>2
<1>5. kept' = IF installed[i] \in keeps THEN Append(kept, installed[i]) ELSE kept
  BY <1>1, <1>4
<1>6. keeps' = keeps
  BY <1>1
<1> HIDE DEF keeps
<1>7. /\ i' \in 1 .. Len(installed) + 1 /\ List(kept')
      /\ Range(kept') = {installed[k] : k \in 1 .. i' - 1} \cap keeps
  BY <1>1, <1>2, <1>3, <1>5, LoopTurn
<1>8. Kept(installed, keeps)'
  BY <1>1, <1>6, <1>7 DEF Kept
<1>9. ListsInv'
  BY <1>1, <1>8 DEF ListsInv, keeps
<1>10. QED
  BY <1>1, <1>9 DEF Sets!vars

LEMMA AppsToUninstallStep ==
  ASSUME ListsInv, AppsToUninstall
  PROVE  ListsInv' /\ Sets!Uninstall
<1>1. /\ UNCHANGED <<store, running, uris, configured, installed, required, isRunning, resumes>>
      /\ pc = "AppsToUninstall" /\ i > Len(installed) /\ pc' = "IsTargetRunning"
      /\ uninstall' = kept /\ i' = 1 /\ kept' = <<>>
  BY DEF AppsToUninstall, external, answers
<1>2. /\ store \in SUBSET Apps /\ installed \in Listings(store)
      /\ Kept(installed, store \ Range(required))
  BY <1>1 DEF ListsInv
<1>3. List(kept) /\ Range(kept) = store \ Range(required)
  BY <1>1, <1>2, LoopEnds
<1>4. ListsInv'
  BY <1>1, <1>2, <1>3 DEF ListsInv
<1>5. QED
  BY <1>1, <1>3, <1>4 DEF Sets!Uninstall

LEMMA IsTargetRunningStep ==
  ASSUME ListsInv, IsTargetRunning
  PROVE  ListsInv' /\ Sets!Decide
<1>1. /\ UNCHANGED <<store, running, uris, configured, i, kept, required, uninstall>>
      /\ pc = "IsTargetRunning" /\ pc' = "Done"
      /\ isRunning' = (Len(required) = 0
                         \/ (isSublist(installed, required) /\ Range(required) \subseteq running))
      /\ resumes' = appsListMatch(uris, required)
  BY DEF IsTargetRunning, external
<1>2. /\ store \in SUBSET Apps /\ installed \in Listings(store)
      /\ List(uris) /\ List(required)
  BY <1>1 DEF ListsInv
<1>3. isSublist(installed, required) <=> Range(required) \subseteq store
  BY <1>2, SublistIsSubset
<1>4. Len(required) = 0 <=> Range(required) = {}
  BY <1>2, EmptyLength
<1>5. isRunning' = (Range(required) \subseteq store /\ Range(required) \subseteq running)
  BY <1>1, <1>3, <1>4, Zenon
<1>6. resumes' = (Range(uris) = Range(required))
  BY <1>1, <1>2, MatchIsEquality, Zenon DEF appsListMatch
<1>7. ListsInv'
  BY <1>1 DEF ListsInv
<1>8. QED
  BY <1>1, <1>5, <1>6, <1>7 DEF Sets!Decide

LEMMA DoneStep ==
  ASSUME ListsInv, NewUpdate \/ Change \/ Rollback \/ NextRun
  PROVE  ListsInv' /\ [Sets!Next]_Sets!vars
<1>1. CASE NewUpdate
  <2>1. /\ uris' = required /\ pc = "Done"
        /\ UNCHANGED <<store, running, pc, configured, i, kept, required, uninstall, isRunning,
                       resumes>>
    BY <1>1 DEF NewUpdate, loop, answers
  <2>2. ListsInv' /\ Sets!NewUpdate
    BY <2>1 DEF ListsInv, Sets!NewUpdate
  <2>3. QED
    BY <2>2 DEF Sets!Next
<1>2. CASE Change
  <2>1. /\ pc = "Done" /\ store' \in SUBSET Apps /\ running' \in SUBSET Apps
        /\ UNCHANGED <<uris, pc, configured, i, kept, required, uninstall, isRunning, resumes>>
    BY <1>2 DEF Change, loop, answers
  <2>2. ListsInv' /\ Sets!Change
    BY <2>1 DEF ListsInv, Sets!Change
  <2>3. QED
    BY <2>2 DEF Sets!Next
<1>3. CASE Rollback
  <2>1. /\ pc = "Done" /\ pc' = "FillAppsList"
        /\ UNCHANGED <<store, running, uris, configured, i, kept, required, uninstall, isRunning,
                       resumes>>
    BY <1>3 DEF Rollback, external, loop, answers
  <2>2. QED
    BY <2>1 DEF ListsInv, Sets!vars
<1>4. CASE NextRun
  <2>1. /\ pc = "Done" /\ pc' = "FillAppsList"
        /\ required' = <<>> /\ uninstall' = <<>> /\ isRunning' = FALSE /\ resumes' = FALSE
        /\ configured' \in BOOLEAN
        /\ UNCHANGED <<store, running, uris, i, kept>>
    BY <1>4 DEF NextRun, external
  <2>2. ListsInv' /\ Sets!NewContext
    BY <2>1, EmptyList DEF ListsInv, Sets!NewContext
  <2>3. QED
    BY <2>2 DEF Sets!Next
<1>5. QED
  BY <1>1, <1>2, <1>3, <1>4

LEMMA ListsInvNext == ListsInv /\ [ListsNext]_listVars => ListsInv' /\ [Sets!Next]_Sets!vars
<1> SUFFICES ASSUME ListsInv, [ListsNext]_listVars PROVE ListsInv' /\ [Sets!Next]_Sets!vars
  OBVIOUS
<1>1. CASE FillAppsList \/ RequiredApp \/ InstalledApp
  BY <1>1, FillAppsListStep, RequiredAppStep, InstalledAppStep
<1>2. CASE ListApps
  <2>1. ListsInv' /\ \E target \in SUBSET Apps : Sets!Require(target, configured)
    BY <1>2, ListAppsStep
  <2>2. configured \in BOOLEAN
    BY DEF ListsInv
  <2>3. QED
    BY <2>1, <2>2 DEF Sets!Next
<1>3. CASE AppsToUninstall
  BY <1>3, AppsToUninstallStep DEF Sets!Next
<1>4. CASE IsTargetRunning
  BY <1>4, IsTargetRunningStep DEF Sets!Next
<1>5. CASE NewUpdate \/ Change \/ Rollback \/ NextRun
  BY <1>5, DoneStep
<1>6. CASE UNCHANGED listVars
  BY <1>6 DEF listVars, external, loop, answers, ListsInv, Kept, IsRequired, Sets!vars
<1>7. QED
  BY <1>1, <1>2, <1>3, <1>4, <1>5, <1>6 DEF ListsNext

(***************************************************************************)
(* The lists of FillAppsList, isSublist and appsListMatch decide as sets   *)
(* of apps would, so UpdateClient may have sets.                           *)
(***************************************************************************)
THEOREM ListsActAsSetsHolds == ListsSpec => ListsActAsSets
<1>1. ListsInv /\ [ListsNext]_listVars => ListsInv'
  BY ListsInvNext
<1>2. ListsInv /\ [ListsNext]_listVars => [Sets!Next]_Sets!vars
  BY ListsInvNext
<1>3. ListsInit => ListsInv /\ Sets!Init
  BY ListsInvInit
<1>4. QED
  BY <1>1, <1>2, <1>3, PTL DEF ListsSpec, ListsActAsSets, Sets!Spec
=============================================================================
