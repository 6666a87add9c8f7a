------------------------------ MODULE RootChain ------------------------------
(***************************************************************************)
(* How a FioTuf comes by its root: getTufCfg takes the one in the local    *)
(* directory, or imports the last one of the initial roots of the device;  *)
(* from there go-tuf, external, asks for one root after the other, until   *)
(* the fetcher answers that there is no next one (an HTTP error 404 or     *)
(* 403).  Any other error ends the refresh.  TufAgent has the import and   *)
(* the chain as one step each, TrustedRoot and LoadRoot.                   *)
(***************************************************************************)
EXTENDS Naturals

CONSTANTS
  MaxRoot,        \* the highest number of a root
  LastProvided    \* the last initial root that getTufCfg looks for: 99

ASSUME RootChainAssumption == MaxRoot \in Nat \ {0} /\ LastProvided \in Nat \ {0}

VARIABLES
  provided,    \* the initial roots, /usr/lib/sota/tuf/ci/<n>.root.json
  rootFile,    \* the number of /var/sota/tuf/root.json, 0 for no such file
  local,       \* whether the source of the refresh is a directory
  published,   \* the roots that the source has
  rootPc,      \* what comes next
  number,      \* i of getTufCfg
  existing,    \* existingRootPath of getTufCfg, 0 for none
  rootBytes,   \* the root that getTufCfg has read, for the updater to begin with
  root         \* the root that go-tuf trusts

rootVars == <<provided, rootFile, local, published, rootPc, number, existing, rootBytes, root>>

Roots == 1 .. MaxRoot

\* A file that is longer than go-tuf allows for is "long"; one that the gateway
\* answers with HTTP error 403, or that a read fails on, is "unreadable".
Files == {"present", "missing", "unreadable", "long"}

RootTypeOK ==
  /\ provided \in [Roots -> Files \ {"long"}] /\ published \in [Roots -> Files]
  /\ rootFile \in 0 .. MaxRoot /\ existing \in 0 .. MaxRoot
  /\ rootBytes \in 0 .. MaxRoot /\ root \in 0 .. MaxRoot
  /\ local \in BOOLEAN
  /\ number \in Nat \ {0}
  /\ rootPc \in {"Idle", "Import", "ReadFile", "LoadRoot", "Refreshed"}

File(files, n) == IF n \in Roots THEN files[n] ELSE "missing"

Fail == rootPc' = "Idle" /\ UNCHANGED <<rootFile, root>>

-----------------------------------------------------------------------------
\* getTufCfg begins, for a refresh from any source.
Refresh ==
  /\ rootPc \in {"Idle", "Refreshed"}
  /\ local' \in BOOLEAN /\ published' \in [Roots -> Files]
  /\ number' = 1 /\ existing' = 0 /\ rootBytes' = 0 /\ root' = 0
  /\ rootPc' = IF rootFile = 0 THEN "Import" ELSE "ReadFile"
  /\ UNCHANGED <<provided, rootFile>>

\* Mutant of Import: a missing root is skipped, the search goes on.
ImportNoBreak ==
  /\ rootPc = "Import"
  /\ IF number <= LastProvided
       THEN /\ existing' = IF File(provided, number) # "missing" THEN number ELSE existing
            /\ number' = number + 1 /\ UNCHANGED rootPc
       ELSE rootPc' = (IF existing = 0 THEN "Idle" ELSE "ReadFile") /\ UNCHANGED <<number, existing>>
  /\ UNCHANGED <<provided, rootFile, local, published, rootBytes, root>>

\* A turn of the loop: any error of Stat but ErrNotExist counts as existing.
Import ==
  /\ rootPc = "Import"
  /\ IF number <= LastProvided /\ File(provided, number) # "missing"
       THEN existing' = number /\ number' = number + 1 /\ UNCHANGED rootPc
       ELSE rootPc' = (IF existing = 0 THEN "Idle" ELSE "ReadFile") /\ UNCHANGED <<number, existing>>
  /\ UNCHANGED <<provided, rootFile, local, published, rootBytes, root>>

\* The root is read and given to updater.New, which stores it.
ReadFile ==
  /\ rootPc = "ReadFile"
  /\ \/ /\ rootFile = 0 => File(provided, existing) = "present"
        /\ rootBytes' = IF rootFile # 0 THEN rootFile ELSE existing
        /\ root' = rootBytes' /\ rootFile' = rootBytes'
        /\ rootPc' = "LoadRoot"
     \/ Fail /\ UNCHANGED rootBytes
  /\ UNCHANGED <<provided, local, published, number, existing>>

\* readLocalFile answers the file, and 404 for any error; readRemoteFile tests
\* the status and the length.
Delivers(file) == file \in IF local THEN {"present", "long"} ELSE {"present"}

\* Mutant of NotFound: readRemoteFile answers 404 for any error, too.
NotFoundForAll(file) == file # "present"

NotFound(file) == file \in {"missing", "unreadable"}

\* go-tuf asks for the next root; the gateway may not be reached at all.
DownloadFile ==
  /\ rootPc = "LoadRoot"
  /\ LET file == File(published, root + 1)
     IN  \/ /\ Delivers(file)
            /\ root' = root + 1 /\ rootFile' = root + 1 /\ UNCHANGED rootPc
         \/ NotFound(file) /\ rootPc' = "Refreshed" /\ UNCHANGED <<rootFile, root>>
         \/ ~Delivers(file) /\ ~NotFound(file) /\ Fail
         \/ ~local /\ Fail
  /\ UNCHANGED <<provided, local, published, number, existing, rootBytes>>

Crash ==
  /\ rootPc # "Idle" /\ Fail
  /\ UNCHANGED <<provided, local, published, number, existing, rootBytes>>

RootInit ==
  /\ provided \in [Roots -> Files \ {"long"}]
  /\ rootFile = 0 /\ existing = 0 /\ number = 1 /\ rootBytes = 0 /\ root = 0
  /\ local = FALSE /\ published = [n \in Roots |-> "missing"]
  /\ rootPc = "Idle"

RootNext == Refresh \/ Import \/ ReadFile \/ DownloadFile \/ Crash

RootSpec == RootInit /\ [][RootNext]_rootVars

-----------------------------------------------------------------------------
\* No root up to n is missing among the initial ones.
Consecutive(n) == \A m \in 1 .. n : File(provided, m) # "missing"

(***************************************************************************)
(* A device without a root gets the last of its initial roots, in an       *)
(* unbroken series from the first one; and from then on it never gets back *)
(* to an older root, whatever sources it refreshes from, whatever they do  *)
(* not have, and wherever it stops.                                        *)
(***************************************************************************)
RootsOnlyAdvance ==
  [][/\ rootFile' >= rootFile
     /\ rootFile = 0 /\ rootFile' # 0 =>
          /\ Consecutive(rootFile')
          /\ rootFile' = LastProvided \/ ~Consecutive(rootFile' + 1)]_rootVars

\* The source has this root and lets it be read, be it too long for go-tuf.
Readable(n) == File(published, n) \in {"present", "long"}

(***************************************************************************)
(* A refresh that goes on past the roots trusts the last root that there   *)
(* is in an unbroken series of readable ones at its source, from the root  *)
(* that it began with: it has left out none, and no error of the gateway   *)
(* and no answer that is too long has passed for the end of the series.  A *)
(* source whose roots are older leaves it with the root it began with.     *)
(* (What comes after a root that cannot be read is out of reach.)          *)
(***************************************************************************)
ChainFollowed ==
  rootPc = "Refreshed" =>
    /\ rootBytes # 0 /\ rootBytes <= root /\ root = rootFile
    /\ \A n \in Roots :
         rootBytes < n => (n <= root <=> \A m \in (rootBytes + 1) .. n : Readable(m))
=============================================================================
