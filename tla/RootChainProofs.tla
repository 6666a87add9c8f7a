--------------------------- MODULE RootChainProofs ---------------------------
(***************************************************************************)
(* RootsOnlyAdvance and ChainFollowed for any number of roots.  The        *)
(* strengthening is the invariant of getTufCfg's loop (LoopInv), what it   *)
(* leaves behind for the reading of the file (ImportedInv), and that       *)
(* go-tuf's root is the stored one, at the end of a series that the source *)
(* has (TrustedInv).                                                       *)
(***************************************************************************)
EXTENDS RootChain, TLAPS

LastOfSeries(n) ==
  Consecutive(n) /\ (n = LastProvided \/ ~Consecutive(n + 1))

LoopInv ==
  rootPc = "Import" =>
    /\ rootFile = 0 /\ existing = number - 1 /\ existing <= LastProvided
    /\ Consecutive(existing)

ImportedInv ==
  rootPc = "ReadFile" /\ rootFile = 0 => existing \in Roots /\ LastOfSeries(existing)

TrustedInv ==
  rootPc \in {"LoadRoot", "Refreshed"} =>
    /\ root = rootFile /\ root \in Roots
    /\ rootBytes \in Roots /\ rootBytes <= root
    /\ \A m \in (rootBytes + 1) .. root : Readable(m)

\* The refresh has come to the end of the series.
SeriesDone == rootPc = "Refreshed" => ~Readable(root + 1)

RootInv == RootTypeOK /\ LoopInv /\ ImportedInv /\ TrustedInv /\ SeriesDone

-----------------------------------------------------------------------------
\* A series of initial roots is within the roots there are.
LEMMA SeriesBounded ==
  ASSUME NEW n \in Nat, Consecutive(n) PROVE n \in 0 .. MaxRoot
<1>1. CASE n = 0 BY <1>1, RootChainAssumption
<1>2. CASE n # 0
  <2>1. n \in 1 .. n BY <1>2
  <2>2. File(provided, n) # "missing" BY <2>1 DEF Consecutive
  <2> QED BY <2>2, <1>2, RootChainAssumption DEF File, Roots
<1> QED BY <1>1, <1>2

\* A root that is there makes the series one longer.
LEMMA SeriesExtended ==
  ASSUME NEW n \in Nat, Consecutive(n), File(provided, n + 1) # "missing"
  PROVE  Consecutive(n + 1)
<1> SUFFICES ASSUME NEW k \in 1 .. n + 1 PROVE File(provided, k) # "missing"
  BY DEF Consecutive
<1>1. CASE k = n + 1 BY <1>1
<1>2. CASE k # n + 1
  <2>1. k \in 1 .. n BY <1>2
  <2> QED BY <2>1 DEF Consecutive
<1> QED BY <1>1, <1>2

\* And one that is missing ends it.
LEMMA SeriesEnds ==
  ASSUME NEW n \in Nat, File(provided, n + 1) = "missing"
  PROVE  ~Consecutive(n + 1)
<1>1. n + 1 \in 1 .. n + 1 OBVIOUS
<1> QED BY <1>1 DEF Consecutive

\* A root that a source has under a number is one of the roots.
LEMMA PresentIsRoot ==
  ASSUME NEW n \in Nat, File(published, n) # "missing" PROVE n \in Roots
BY DEF File

\* The series is the same while the initial roots are.
LEMMA SeriesUnchanged ==
  ASSUME provided' = provided, NEW n PROVE Consecutive(n)' <=> Consecutive(n)
BY DEF Consecutive, File

-----------------------------------------------------------------------------
LEMMA InitRootInv == RootInit => RootInv
<1> SUFFICES ASSUME RootInit PROVE RootInv OBVIOUS
<1>1. published \in [Roots -> Files] BY DEF RootInit, Files
<1>2. 0 \in 0 .. MaxRoot BY RootChainAssumption
<1>3. local \in BOOLEAN BY DEF RootInit
<1>4. provided \in [Roots -> Files \ {"long"}] BY DEF RootInit
<1>5. rootFile = 0 /\ root = 0 /\ existing = 0 /\ number = 1 /\ rootPc = "Idle" /\ rootBytes = 0
  BY DEF RootInit
<1>6. RootTypeOK BY <1>1, <1>2, <1>3, <1>4, <1>5 DEF RootTypeOK
<1> QED BY <1>6 DEF RootInit, RootInv, LoopInv, ImportedInv, TrustedInv, SeriesDone

LEMMA RefreshRootInv == RootInv /\ Refresh => RootInv'
<1> SUFFICES ASSUME RootInv, Refresh PROVE RootInv' OBVIOUS
<1>1. RootTypeOK'
  BY RootChainAssumption DEF RootInv, RootTypeOK, Refresh, Roots
<1>2. existing' = 0 /\ number' = 1 /\ rootFile' = rootFile /\ rootPc' \in {"Import", "ReadFile"}
  BY DEF Refresh
<1>3. (rootPc' = "Import") <=> (rootFile = 0)
  BY DEF Refresh
<1>4. Consecutive(existing)'
  BY <1>2 DEF Consecutive
<1>5. LoopInv'
  BY <1>2, <1>3, <1>4, RootChainAssumption DEF LoopInv
<1>6. ImportedInv' /\ TrustedInv' /\ SeriesDone'
  BY <1>2, <1>3 DEF ImportedInv, TrustedInv, SeriesDone
<1> QED BY <1>1, <1>5, <1>6 DEF RootInv

LEMMA ImportRootInv == RootInv /\ Import => RootInv'
<1> SUFFICES ASSUME RootInv, Import PROVE RootInv' OBVIOUS
<1>1. /\ rootPc = "Import" /\ rootFile = 0 /\ existing = number - 1 /\ existing <= LastProvided
      /\ Consecutive(existing)
  BY DEF RootInv, LoopInv, Import
<1>2. number \in Nat \ {0} /\ existing \in 0 .. MaxRoot /\ existing \in Nat /\ number = existing + 1
  BY <1>1, RootChainAssumption DEF RootInv, RootTypeOK
<1>3. /\ provided' = provided /\ rootFile' = rootFile /\ local' = local
      /\ published' = published /\ rootBytes' = rootBytes /\ root' = root
  BY DEF Import
<1>4. CASE number <= LastProvided /\ File(provided, number) # "missing"
  <2>1. existing' = number /\ number' = number + 1 /\ rootPc' = rootPc
    BY <1>4 DEF Import
  <2>2. Consecutive(existing + 1)
    BY <1>1, <1>2, <1>4, SeriesExtended
  <2>3. Consecutive(number)
    BY <1>2, <2>2
  <2>4. number \in 0 .. MaxRoot
    BY <1>2, <2>3, SeriesBounded
  <2>5. RootTypeOK'
    BY <1>2, <1>3, <2>1, <2>4 DEF RootInv, RootTypeOK
  <2>6. Consecutive(existing)'
    BY <1>3, <2>1, <2>3 DEF Consecutive, File
  <2>7. LoopInv'
    BY <1>1, <1>2, <1>3, <1>4, <2>1, <2>6 DEF LoopInv
  <2>8. ImportedInv' /\ TrustedInv' /\ SeriesDone'
    BY <1>1, <2>1 DEF ImportedInv, TrustedInv, SeriesDone
  <2> QED BY <2>5, <2>7, <2>8 DEF RootInv
<1>5. CASE ~(number <= LastProvided /\ File(provided, number) # "missing")
  <2>1. existing' = existing /\ number' = number /\ rootPc' = IF existing = 0 THEN "Idle" ELSE "ReadFile"
    BY <1>5 DEF Import
  <2>2. existing = LastProvided \/ ~Consecutive(existing + 1)
    <3>1. CASE number <= LastProvided BY <1>2, <1>5, <3>1, SeriesEnds
    <3>2. CASE ~(number <= LastProvided) BY <1>1, <1>2, <3>2, RootChainAssumption
    <3> QED BY <3>1, <3>2
  <2>3. LastOfSeries(existing)
    BY <1>1, <2>2 DEF LastOfSeries
  <2>4. LastOfSeries(existing)'
    BY <1>3, <2>1, <2>3 DEF LastOfSeries, Consecutive, File
  <2>5. RootTypeOK'
    BY <1>3, <2>1 DEF RootInv, RootTypeOK
  <2>6. rootPc' # "Import" /\ rootPc' \notin {"LoadRoot", "Refreshed"}
    BY <2>1
  <2>7. rootPc' = "ReadFile" => existing' \in Roots
    BY <1>2, <2>1 DEF Roots
  <2> QED BY <2>4, <2>5, <2>6, <2>7
       DEF RootInv, LoopInv, ImportedInv, TrustedInv, SeriesDone
<1> QED BY <1>4, <1>5

LEMMA ReadFileRootInv == RootInv /\ ReadFile => RootInv'
<1> SUFFICES ASSUME RootInv, ReadFile PROVE RootInv' OBVIOUS
<1>1. /\ provided' = provided /\ local' = local /\ published' = published
      /\ number' = number /\ existing' = existing
  BY DEF ReadFile
<1>2. CASE Fail /\ UNCHANGED rootBytes
  BY <1>1, <1>2
     DEF Fail, RootInv, RootTypeOK, LoopInv, ImportedInv, TrustedInv, SeriesDone
<1>3. CASE /\ rootBytes' = IF rootFile # 0 THEN rootFile ELSE existing
           /\ root' = rootBytes' /\ rootFile' = rootBytes'
           /\ rootPc' = "LoadRoot"
  <2>1. root' \in Roots
    BY <1>3 DEF ReadFile, RootInv, RootTypeOK, ImportedInv, Roots
  <2>2. RootTypeOK'
    BY <1>1, <1>3, <2>1 DEF RootInv, RootTypeOK, Roots
  <2>3. (rootBytes' + 1) .. root' = {}
    BY <1>3, <2>1, RootChainAssumption DEF Roots
  <2>4. TrustedInv'
    BY <1>3, <2>1, <2>3 DEF TrustedInv, Roots
  <2> QED BY <1>3, <2>2, <2>4 DEF RootInv, LoopInv, ImportedInv, SeriesDone
<1> QED BY <1>2, <1>3 DEF ReadFile

LEMMA DownloadFileRootInv == RootInv /\ DownloadFile => RootInv'
<1> SUFFICES ASSUME RootInv, DownloadFile PROVE RootInv' OBVIOUS
<1>1. /\ provided' = provided /\ local' = local /\ published' = published
      /\ number' = number /\ existing' = existing /\ rootBytes' = rootBytes
  BY DEF DownloadFile
<1>2. /\ rootPc = "LoadRoot" /\ root = rootFile /\ root \in Roots
      /\ rootBytes \in Roots /\ rootBytes <= root
      /\ \A m \in (rootBytes + 1) .. root : Readable(m)
  BY DEF DownloadFile, RootInv, TrustedInv
<1> DEFINE file == File(published, root + 1)
<1>3. CASE Fail
  BY <1>1, <1>3
     DEF Fail, RootInv, RootTypeOK, LoopInv, ImportedInv, TrustedInv, SeriesDone
<1>4. CASE Delivers(file) /\ root' = root + 1 /\ rootFile' = root + 1 /\ rootPc' = rootPc
  <2>1. file # "missing" BY <1>4 DEF Delivers
  <2>2. root + 1 \in Nat BY <1>2, RootChainAssumption DEF Roots
  <2>3. root + 1 \in Roots BY <2>1, <2>2, PresentIsRoot
  <2>4. RootTypeOK'
    BY <1>1, <1>4, <2>3 DEF RootInv, RootTypeOK, Roots
  <2>5. Readable(root + 1)
    BY <1>4 DEF Delivers, Readable
  <2>6. ASSUME NEW m \in (rootBytes + 1) .. (root + 1) PROVE Readable(m)
    <3>1. m = root + 1 \/ m \in (rootBytes + 1) .. root
      BY <1>2, RootChainAssumption DEF Roots
    <3> QED BY <1>2, <2>5, <3>1
  <2>7. \A m : Readable(m)' <=> Readable(m)
    BY <1>1 DEF Readable, File
  <2>8. rootBytes <= root + 1
    BY <1>2, RootChainAssumption DEF Roots
  <2>9. TrustedInv'
    BY <1>1, <1>2, <1>4, <2>3, <2>6, <2>7, <2>8 DEF TrustedInv, Roots
  <2> QED BY <1>2, <1>4, <2>4, <2>9 DEF RootInv, LoopInv, ImportedInv, SeriesDone
<1>5. CASE NotFound(file) /\ rootPc' = "Refreshed" /\ rootFile' = rootFile /\ root' = root
  <2>1. SeriesDone'
    BY <1>1, <1>2, <1>5 DEF NotFound, SeriesDone, Readable, File
  <2>2. RootTypeOK'
    BY <1>1, <1>5 DEF RootInv, RootTypeOK
  <2>3. TrustedInv'
    BY <1>1, <1>2, <1>5 DEF TrustedInv, Readable, Roots, File
  <2> QED BY <1>5, <2>1, <2>2, <2>3 DEF RootInv, LoopInv, ImportedInv
<1> QED BY <1>3, <1>4, <1>5 DEF DownloadFile

LEMMA CrashRootInv == RootInv /\ Crash => RootInv'
BY DEF Crash, Fail, RootInv, RootTypeOK, LoopInv, ImportedInv, TrustedInv, SeriesDone

LEMMA StutterRootInv == RootInv /\ UNCHANGED rootVars => RootInv'
BY DEF rootVars, RootInv, RootTypeOK, LoopInv, ImportedInv, LastOfSeries, Consecutive, File,
       TrustedInv, SeriesDone, Readable

LEMMA RootInvHolds == RootSpec => []RootInv
<1>1. RootInv /\ [RootNext]_rootVars => RootInv'
  BY RefreshRootInv, ImportRootInv, ReadFileRootInv, DownloadFileRootInv,
     CrashRootInv, StutterRootInv DEF RootNext
<1> QED BY InitRootInv, <1>1, PTL DEF RootSpec

(***************************************************************************)
(* A refresh goes past the roots with the last one of the unbroken series  *)
(* of readable ones that its source has, from the root it began with:      *)
(* ChainFollowed, of getTufCfg and DownloadFile in tuf.go.                 *)
(***************************************************************************)
THEOREM ChainFollowedHolds == RootSpec => []ChainFollowed
<1>1. RootInv => ChainFollowed
  <2> SUFFICES ASSUME RootInv, rootPc = "Refreshed" PROVE ChainFollowed
    BY DEF ChainFollowed
  <2>1. /\ root = rootFile /\ root \in Roots
        /\ rootBytes \in Roots /\ rootBytes <= root
        /\ \A m \in (rootBytes + 1) .. root : Readable(m)
        /\ ~Readable(root + 1)
    BY DEF RootInv, TrustedInv, SeriesDone
  <2>2. ASSUME NEW n \in Roots, rootBytes < n
        PROVE  n <= root <=> \A m \in (rootBytes + 1) .. n : Readable(m)
    <3>1. CASE n <= root
      <4>1. \A m \in (rootBytes + 1) .. n : m \in (rootBytes + 1) .. root
        BY <2>1, <2>2, <3>1, RootChainAssumption DEF Roots
      <4> QED BY <2>1, <3>1, <4>1
    <3>2. CASE ~(n <= root)
      <4>1. root + 1 \in (rootBytes + 1) .. n
        BY <2>1, <2>2, <3>2, RootChainAssumption DEF Roots
      <4> QED BY <2>1, <3>2, <4>1
    <3> QED BY <3>1, <3>2
  <2> QED BY <2>1, <2>2, RootChainAssumption DEF ChainFollowed, Roots
<1> QED BY RootInvHolds, <1>1, PTL

-----------------------------------------------------------------------------
Advances ==
  /\ rootFile' >= rootFile
  /\ rootFile = 0 /\ rootFile' # 0 =>
       /\ Consecutive(rootFile')
       /\ rootFile' = LastProvided \/ ~Consecutive(rootFile' + 1)

\* A step that keeps the stored root advances.
LEMMA KeptAdvances == RootInv /\ rootFile' = rootFile => Advances
BY RootChainAssumption DEF RootInv, RootTypeOK, Advances

LEMMA ReadFileAdvances == RootInv /\ ReadFile => Advances
<1> SUFFICES ASSUME RootInv, ReadFile PROVE Advances OBVIOUS
<1>1. CASE rootFile' = rootFile BY <1>1, KeptAdvances
<1>2. CASE rootFile' # rootFile
  <2>1. rootFile = 0 /\ rootFile' = existing /\ rootPc = "ReadFile"
    BY <1>2 DEF ReadFile, Fail
  <2>2. existing \in Roots /\ LastOfSeries(existing)
    BY <2>1 DEF RootInv, ImportedInv
  <2> QED BY <2>1, <2>2 DEF Advances, LastOfSeries, Roots
<1> QED BY <1>1, <1>2

LEMMA DownloadFileAdvances == RootInv /\ DownloadFile => Advances
<1> SUFFICES ASSUME RootInv, DownloadFile PROVE Advances OBVIOUS
<1>1. CASE rootFile' = rootFile BY <1>1, KeptAdvances
<1>2. CASE rootFile' # rootFile
  <2>1. rootFile' = root + 1 /\ rootPc = "LoadRoot"
    BY <1>2 DEF DownloadFile, Fail
  <2>2. root = rootFile /\ root \in Roots
    BY <2>1 DEF RootInv, TrustedInv
  <2> QED BY <2>1, <2>2, RootChainAssumption DEF Advances, Roots
<1> QED BY <1>1, <1>2

(***************************************************************************)
(* A device starts from the last of its unbroken series of initial roots   *)
(* and never gets back to an older root: RootsOnlyAdvance, of getTufCfg.   *)
(***************************************************************************)
THEOREM RootsOnlyAdvanceHolds == RootSpec => RootsOnlyAdvance
<1>1. RootInv /\ [RootNext]_rootVars => [Advances]_rootVars
  <2> SUFFICES ASSUME RootInv, RootNext PROVE Advances OBVIOUS
  <2>1. CASE Refresh BY <2>1, KeptAdvances DEF Refresh
  <2>2. CASE Import BY <2>2, KeptAdvances DEF Import
  <2>3. CASE Crash BY <2>3, KeptAdvances DEF Crash, Fail
  <2> QED BY <2>1, <2>2, <2>3, ReadFileAdvances, DownloadFileAdvances DEF RootNext
<1>2. RootSpec => [][Advances]_rootVars
  BY RootInvHolds, <1>1, PTL DEF RootSpec
<1> QED BY <1>2 DEF RootsOnlyAdvance, Advances
=============================================================================
