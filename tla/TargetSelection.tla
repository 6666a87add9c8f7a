--------------------------- MODULE TargetSelection ---------------------------
(***************************************************************************)
(* selectTarget, one target of the repository after the other, in the      *)
(* order in which a Go map happens to be traversed, and the reading of the *)
(* version that it is asked for.  UpdateClient has the result as one set   *)
(* of targets, SelectTarget, of a repository whose targets have versions;  *)
(* here is the loop, for any repository.                                   *)
(***************************************************************************)
EXTENDS Integers

CONSTANTS
  Names,         \* names of targets
  Versions,      \* the versions they may have, integers
  NotAVersion,   \* a version, of a target or asked for, that Atoi refuses
  NoCustom,      \* stands for the version of a target without custom metadata
  Unset,         \* UPDATE_TO_VERSION is not set
  Pins,          \* the integers that it may be set to
  NoTarget       \* a nil target

ASSUME TargetSelectionAssumption ==
  /\ Versions \subseteq Int /\ Pins \subseteq Int
  /\ NotAVersion \notin Int /\ Unset \notin Int /\ Unset # NotAVersion
  /\ NoCustom \notin Int /\ NoCustom # NotAVersion
  /\ NoTarget \notin Names

VARIABLES
  allTargets,   \* the version of each target of the repository, as it is written
  asked,        \* UPDATE_TO_VERSION
  todo,         \* the targets that are still to come
  latest,       \* latest of selectTarget
  selected,     \* selectedTarget
  panicked      \* the process has died of a nil pointer

selectVars == <<allTargets, asked, todo, latest, selected, panicked>>

\* versionInt of GetTargetToInstall: the error of Atoi is dropped.  (A number
\* that is out of range is one of Pins: Atoi answers the one closest to it.)
VersionInt == CASE asked = Unset -> -1 [] asked = NotAVersion -> 0 [] OTHER -> asked

Offered == DOMAIN allTargets

SelectTypeOK ==
  /\ Offered \subseteq Names
  /\ allTargets \in [Offered -> Versions \cup {NotAVersion, NoCustom}]
  /\ asked \in Pins \cup {NotAVersion, Unset}
  /\ todo \subseteq Offered
  /\ latest \in Int
  /\ selected \in Offered \cup {NoTarget}
  /\ panicked \in BOOLEAN

\* Mutant of Takes: the newest target is taken whatever is asked for.
TakesNewer(v) == (VersionInt > 0 /\ VersionInt = v) \/ v > latest

Takes(v) == (VersionInt > 0 /\ VersionInt = v) \/ (VersionInt <= 0 /\ v > latest)

\* Custom is used for every target, whether or not it is nil.
Panic ==
  /\ ~panicked /\ \E name \in todo : allTargets[name] = NoCustom
  /\ panicked' = TRUE
  /\ UNCHANGED <<allTargets, asked, todo, latest, selected>>

SelectTurn ==
  \E name \in todo :
    /\ ~panicked /\ allTargets[name] # NoCustom
    /\ todo' = todo \ {name}
    /\ IF allTargets[name] # NotAVersion /\ Takes(allTargets[name])
         THEN selected' = name /\ latest' = allTargets[name]
         ELSE UNCHANGED <<selected, latest>>
    /\ UNCHANGED <<allTargets, asked, panicked>>

SelectNext == SelectTurn \/ Panic

SelectInit ==
  /\ \E offered \in SUBSET Names :
       allTargets \in [offered -> Versions \cup {NotAVersion, NoCustom}]
  /\ asked \in Pins \cup {NotAVersion, Unset}
  /\ todo = Offered
  /\ latest = -1 /\ selected = NoTarget /\ panicked = FALSE

SelectSpec == SelectInit /\ [][SelectNext]_selectVars

-----------------------------------------------------------------------------
\* The targets that have a version, and no negative one.
Versioned ==
  {t \in Offered : allTargets[t] \notin {NotAVersion, NoCustom} /\ allTargets[t] >= 0}

\* What UpdateClient takes the loop for.
SelectTarget(tuf, version) ==
  {t \in tuf : IF version > 0 THEN allTargets[t] = version
               ELSE \A u \in tuf : allTargets[u] <= allTargets[t]}

(***************************************************************************)
(* When the loop is done, it has selected a target of the version that is  *)
(* asked for or, when none is, or none that is a positive number, one of   *)
(* the highest version, in whatever order the targets came; and nothing    *)
(* only if there is no such target.  A target whose version is no number,  *)
(* or a negative one, hides no other.  One without custom metadata does:   *)
(* as long as the repository has it the loop is never done, in no order,   *)
(* and only then does the process die of it.                               *)
(***************************************************************************)
SelectsTarget ==
  LET nil == {t \in Offered : allTargets[t] = NoCustom}
  IN  /\ panicked => nil # {}
      /\ todo = {} =>
           /\ nil = {} /\ ~panicked
           /\ IF SelectTarget(Versioned, VersionInt) = {} THEN selected = NoTarget
              ELSE selected \in SelectTarget(Versioned, VersionInt)
=============================================================================
