------------------------ MODULE TargetSelectionProofs ------------------------
(***************************************************************************)
(* selectTarget is right for any targets, any versions and any order, and  *)
(* with a target without custom metadata it ends in no order.              *)
(***************************************************************************)
EXTENDS TargetSelection, TLAPS

\* With a version asked for: a target of that version, if one has come.
Pinned ==
  /\ selected # NoTarget => selected \in Versioned /\ allTargets[selected] = VersionInt
  /\ \A t \in Versioned \ todo : allTargets[t] = VersionInt => selected # NoTarget

\* Without: the highest version so far, and a target that has it.
Highest ==
  /\ IF selected = NoTarget THEN latest = -1
     ELSE selected \in Versioned /\ allTargets[selected] = latest
  /\ \A t \in Versioned \ todo : allTargets[t] <= latest

\* A target without custom metadata is never passed.
PanicInv ==
  /\ \A t \in Offered : allTargets[t] = NoCustom => t \in todo
  /\ panicked => \E t \in todo : allTargets[t] = NoCustom

SelectionInv ==
  /\ SelectTypeOK
  /\ PanicInv
  /\ selected # NoTarget => selected \notin todo
  /\ IF VersionInt > 0 THEN Pinned ELSE Highest

LEMMA VersionIntType == ASSUME SelectTypeOK PROVE VersionInt \in Int
  BY TargetSelectionAssumption DEF SelectTypeOK, VersionInt

LEMMA VersionedType ==
  ASSUME SelectTypeOK
  PROVE  /\ \A t \in Offered :
              allTargets[t] \notin {NotAVersion, NoCustom} => allTargets[t] \in Int
         /\ \A t \in Versioned : t \in Offered /\ allTargets[t] \in Int
  BY TargetSelectionAssumption DEF SelectTypeOK, Versioned

LEMMA SelectionInit == SelectInit => SelectionInv
<1> SUFFICES ASSUME SelectInit PROVE SelectionInv
  OBVIOUS
<1>1. PICK offered \in SUBSET Names : allTargets \in [offered -> Versions \cup {NotAVersion, NoCustom}]
  BY DEF SelectInit
<1>2. Offered = offered
  BY <1>1 DEF Offered
<1>3. SelectTypeOK
  <2>1. /\ allTargets \in [Offered -> Versions \cup {NotAVersion, NoCustom}]
        /\ Offered \subseteq Names
    BY <1>1, <1>2
  <2>2. /\ asked \in Pins \cup {NotAVersion, Unset} /\ todo \subseteq Offered
        /\ selected \in Offered \cup {NoTarget} /\ panicked \in BOOLEAN
    BY DEF SelectInit
  <2>3. latest \in Int
    BY DEF SelectInit
  <2>4. QED
    BY <2>1, <2>2, <2>3 DEF SelectTypeOK
<1>4. Versioned \ todo = {} /\ selected = NoTarget /\ latest = -1
  BY DEF SelectInit, Versioned
<1>5. PanicInv
  BY DEF SelectInit, PanicInv
<1>6. QED
  BY <1>3, <1>4, <1>5 DEF SelectionInv, Pinned, Highest

LEMMA SelectionNext == SelectionInv /\ [SelectNext]_selectVars => SelectionInv'
<1> SUFFICES ASSUME SelectionInv, [SelectNext]_selectVars PROVE SelectionInv'
  OBVIOUS
<1>1. CASE UNCHANGED selectVars
  BY <1>1 DEF selectVars, SelectionInv, SelectTypeOK, PanicInv, Pinned, Highest, Versioned,
              Offered, VersionInt
<1>2. ASSUME NEW name \in todo,
             ~panicked, allTargets[name] # NoCustom,
             todo' = todo \ {name},
             IF allTargets[name] # NotAVersion /\ Takes(allTargets[name])
               THEN selected' = name /\ latest' = allTargets[name]
               ELSE UNCHANGED <<selected, latest>>,
             UNCHANGED <<allTargets, asked, panicked>>
      PROVE  SelectionInv'
  <2>1. SelectTypeOK /\ name \in Offered /\ name # NoTarget
    BY TargetSelectionAssumption DEF SelectionInv, SelectTypeOK
  <2>2. Offered' = Offered /\ Versioned' = Versioned /\ VersionInt' = VersionInt
    BY <1>2 DEF Offered, Versioned, VersionInt
  <2>3. /\ VersionInt \in Int /\ latest \in Int
        /\ allTargets[name] # NotAVersion => allTargets[name] \in Int
        /\ \A t \in Versioned : t \in Offered /\ allTargets[t] \in Int
    BY <1>2, <2>1, VersionIntType, VersionedType DEF SelectTypeOK
  <2>9. PanicInv'
    BY <1>2, <2>2 DEF SelectionInv, PanicInv
  <2>4. SelectTypeOK'
    <3>1. todo' \subseteq Offered
      BY <1>2, <2>1 DEF SelectTypeOK
    <3>2. latest' \in Int /\ selected' \in Offered \cup {NoTarget}
      BY <1>2, <2>1, <2>3 DEF SelectTypeOK
    <3>3. QED
      BY <1>2, <2>1, <2>2, <3>1, <3>2 DEF SelectTypeOK
  <2>5. selected' # NoTarget => selected' \notin todo'
    BY <1>2 DEF SelectionInv
  <2>6. CASE VersionInt > 0
    <3>1. Pinned /\ (Takes(allTargets[name]) <=> VersionInt = allTargets[name])
      BY <2>3, <2>6 DEF SelectionInv, Takes
    <3>2. VersionInt = allTargets[name] => name \in Versioned
      BY <2>1, <2>3, <2>6, TargetSelectionAssumption DEF Versioned
    <3>3. name \in Versioned => allTargets[name] # NotAVersion
      BY DEF Versioned
    <3>4. Pinned'
      BY <1>2, <2>1, <2>2, <3>1, <3>2, <3>3 DEF Pinned
    <3>5. VersionInt' > 0
      BY <2>2, <2>6
    <3>6. QED
      BY <2>4, <2>5, <2>9, <3>4, <3>5, Zenon DEF SelectionInv
  <2>7. CASE ~(VersionInt > 0)
    <3>1. Highest /\ (Takes(allTargets[name]) <=> allTargets[name] > latest)
      BY <2>3, <2>7 DEF SelectionInv, Takes
    <3>2. latest >= -1
      BY <2>3, <3>1 DEF Highest, Versioned
    <3>3. ASSUME allTargets[name] # NotAVersion /\ Takes(allTargets[name])
          PROVE  Highest'
      <4>1. name \in Versioned /\ latest' = allTargets[name] /\ allTargets[name] > latest
        BY <1>2, <2>1, <2>3, <3>1, <3>2, <3>3 DEF Versioned
      <4>2. \A t \in Versioned \ todo : allTargets[t] <= allTargets[name]
        BY <2>3, <3>1, <4>1 DEF Highest
      <4>3. QED
        BY <1>2, <2>1, <2>2, <2>3, <3>3, <4>1, <4>2 DEF Highest
    <3>4. ASSUME ~(allTargets[name] # NotAVersion /\ Takes(allTargets[name]))
          PROVE  Highest'
      <4>1. name \in Versioned => allTargets[name] <= latest
        BY <2>3, <3>1, <3>4 DEF Versioned
      <4>2. UNCHANGED <<selected, latest>>
        BY <1>2, <3>4
      <4>3. QED
        BY <1>2, <2>2, <3>1, <4>1, <4>2 DEF Highest
    <3>5. ~(VersionInt' > 0)
      BY <2>2, <2>7
    <3>6. Highest'
      BY <3>3, <3>4
    <3>7. QED
      BY <2>4, <2>5, <2>9, <3>5, <3>6, Zenon DEF SelectionInv
  <2>8. QED
    BY <2>6, <2>7
<1>3. CASE Panic
  <2>1. /\ Offered' = Offered /\ Versioned' = Versioned /\ VersionInt' = VersionInt
        /\ \E t \in todo : allTargets[t] = NoCustom
    BY <1>3 DEF Panic, Offered, Versioned, VersionInt
  <2>2. SelectTypeOK' /\ PanicInv'
    BY <1>3, <2>1 DEF Panic, SelectionInv, SelectTypeOK, PanicInv
  <2>3. (IF VersionInt > 0 THEN Pinned ELSE Highest)'
    BY <1>3, <2>1 DEF Panic, SelectionInv, Pinned, Highest
  <2>4. QED
    BY <1>3, <2>2, <2>3 DEF Panic, SelectionInv
<1>4. QED
  BY <1>1, <1>2, <1>3 DEF SelectNext, SelectTurn

(***************************************************************************)
(* When selectTarget returns it has selected what UpdateClient takes it to *)
(* select, in any order; it does not return when a target has no custom    *)
(* metadata.                                                               *)
(***************************************************************************)
THEOREM SelectsTargetHolds == SelectSpec => []SelectsTarget
<1>1. SelectionInv => SelectsTarget
  <2> DEFINE nil == {t \in Offered : allTargets[t] = NoCustom}
             Right == IF SelectTarget(Versioned, VersionInt) = {} THEN selected = NoTarget
                      ELSE selected \in SelectTarget(Versioned, VersionInt)
  <2>5. SUFFICES ASSUME SelectionInv, todo = {} PROVE Right
    <3>1. SelectionInv => (panicked => nil # {}) /\ (todo = {} => nil = {} /\ ~panicked)
      BY DEF SelectionInv, SelectTypeOK, PanicInv
    <3>2. QED
      BY <2>5, <3>1 DEF SelectsTarget
  <2>1. /\ VersionInt \in Int /\ latest \in Int
        /\ \A t \in Versioned : t \in Offered /\ allTargets[t] \in Int
    BY <2>5, VersionIntType, VersionedType DEF SelectionInv, SelectTypeOK
  <2>2. CASE VersionInt > 0
    BY <2>2, <2>5 DEF SelectionInv, Pinned, SelectTarget
  <2>3. CASE ~(VersionInt > 0)
    <3>1. Highest
      BY <2>3, <2>5 DEF SelectionInv
    <3>2. CASE selected = NoTarget
      <4>1. Versioned = {}
        BY <2>1, <2>5, <3>1, <3>2 DEF Highest, Versioned
      <4>2. QED
        BY <3>2, <4>1 DEF SelectTarget
    <3>3. CASE selected # NoTarget
      <4>1. selected \in SelectTarget(Versioned, VersionInt)
        BY <2>3, <2>5, <3>1, <3>3 DEF Highest, SelectTarget
      <4>2. QED
        BY <4>1
    <3>4. QED
      BY <3>2, <3>3
  <2>4. QED
    BY <2>2, <2>3
<1>2. QED
  BY <1>1, SelectionInit, SelectionNext, PTL DEF SelectSpec
=============================================================================
