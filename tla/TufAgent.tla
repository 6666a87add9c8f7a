------------------------------ MODULE TufAgent ------------------------------
(***************************************************************************)
(* The TUF client (FioTuf of package tuf), as two programs use it: the     *)
(* HTTP agent, whose handlers run concurrently on one FioTuf, and the      *)
(* update client, which has a FioTuf of its own.  Both keep the metadata   *)
(* they trust in one directory, and nothing locks either.                  *)
(*                                                                         *)
(* A refresh makes a new updater from the root in that directory, puts it  *)
(* in the place of the old one, and only then fills it, from the device    *)
(* gateway or from a bundle.  What go-tuf does in it is external: it       *)
(* follows the chain of roots, refuses metadata older than what the        *)
(* directory holds, and stores what it accepts.                            *)
(***************************************************************************)
EXTENDS Naturals

CONSTANTS
  Agent,         \* the program start-http-agent
  Clients,       \* programs update-client
  Posts,         \* handlers of POST /targets/update/
  Gets,          \* handlers of GET /targets and GET /root
  Online,        \* the repository of the device gateway, as a source
  Bundles,       \* offline bundles: sets of metadata that do not change
  InitialRoot,   \* the root found under /usr/lib/sota/tuf, 0 for none
  Updaters,      \* addresses of updaters, enough for those in use
  NoUpdater,     \* a nil fioUpdater
  FaultKinds,    \* what may go wrong: a subset of AllFaults
  MaxFaults,     \* bound on the number of faults of a behaviour
  MaxRoot,       \* bound on the root of the repository
  MaxVersion     \* bound on the version of its targets

AllFaults == {"crash", "io", "fetch", "race"}

Metadata == [root : Nat, version : Nat]

Programs == {Agent} \cup Clients
Refreshers == Posts \cup Clients
Processes == {Agent} \cup Refreshers \cup Gets

ASSUME TufAgentAssumption ==
  /\ Agent \notin Refreshers \cup Gets
  /\ Clients \cap Posts = {} /\ Gets \cap Refreshers = {}
  /\ Bundles \subseteq [root : Nat \ {0}, version : Nat \ {0}]
  /\ InitialRoot \in Nat
  /\ NoUpdater \notin Updaters
  /\ FaultKinds \subseteq AllFaults
  /\ MaxFaults \in Nat /\ MaxRoot \in Nat \ {0} /\ MaxVersion \in Nat \ {0}

VARIABLES
  repo,     \* what the device gateway serves
  disk,     \* /var/sota/tuf: the trusted root, 0 for none, and the version
  heap,     \* heap[u]: the trusted metadata of updater u, version 0 for no targets
  fio,      \* fioUpdater of the program's FioTuf
  proc,     \* what a process is doing, and its local variables
  seen,     \* history variable: what a process was given last
  faults    \* the faults so far

vars == <<repo, disk, heap, fio, proc, seen, faults>>

Sources == Bundles \cup {Online}

(***************************************************************************)
(* The local variables of newFioUpdater and RefreshTuf: localRepoPath,     *)
(* rootBytes, up (which is also the updater that a GET reads), and the     *)
(* version that Refresh has loaded from the directory.                     *)
(***************************************************************************)
Process == [pc : {"Idle", "ReadRoot", "NewUpdater", "Assign", "LoadRoot", "LoadLocal",
                  "Download", "GetTargets", "GetRoot"},
            task : {"NewFioTuf", "RefreshTuf"}, source : Sources,
            root : Nat, up : Updaters \cup {NoUpdater}, base : Nat]

Idle == [pc |-> "Idle", task |-> "NewFioTuf", source |-> Online,
         root |-> 0, up |-> NoUpdater, base |-> 0]

HasUpdater == {"Assign", "LoadRoot", "LoadLocal", "Download", "GetTargets", "GetRoot"}

TypeOK ==
  /\ repo \in Metadata /\ disk \in Metadata
  /\ heap \in [Updaters -> Metadata]
  /\ fio \in [Programs -> Updaters \cup {NoUpdater}]
  /\ proc \in [Processes -> Process]
  /\ seen \in [Processes -> Metadata]
  /\ faults \in Nat
  /\ \A p \in Processes : proc[p].pc \in HasUpdater => proc[p].up # NoUpdater

Program(p) == IF p \in Clients THEN p ELSE Agent

Fault(kind) == kind \in FaultKinds /\ faults < MaxFaults /\ faults' = faults + 1

At(p, step) == proc[p].pc = step

Goto(p, step) == proc' = [proc EXCEPT ![p].pc = step]

Return(p) == proc' = [proc EXCEPT ![p] = Idle]

\* An error, which NewFioTuf and RefreshTuf return: the handler answers it,
\* and a program that was starting ends.
Fail(p, kind) == Fault(kind) /\ Return(p)

\* What the source of a refresh serves now.
Content(p) == IF proc[p].source = Online THEN repo ELSE proc[p].source

Nothing == [root |-> 0, version |-> 0]

\* The updaters that nothing refers to.
Free == Updaters \ ({fio[f] : f \in Programs} \cup {proc[p].up : p \in Processes})

-----------------------------------------------------------------------------
(* The programs start                                                      *)

\* A bundle is made from what the repository has published.
Available(src) ==
  src \in Bundles => repo.root >= src.root /\ repo.version >= src.version

Call(p, function) ==
  \E src \in Sources :
    /\ Available(src)
    /\ proc' = [proc EXCEPT ![p] = [Idle EXCEPT !.pc = "ReadRoot", !.task = function,
                                                !.source = src]]

\* StartTufAgent, and RunUpdateClient up to NewFioTuf; src-dir is its source.
Start(p) ==
  /\ p \in Programs /\ At(p, "Idle")
  /\ p = Agent => fio[p] = NoUpdater
  /\ Call(p, "NewFioTuf")
  /\ UNCHANGED <<repo, disk, heap, fio, seen, faults>>

\* refreshTufHttp: a request to refresh from a source.
Post(p) ==
  /\ p \in Posts /\ At(p, "Idle") /\ fio[Agent] # NoUpdater
  /\ Call(p, "RefreshTuf")
  /\ UNCHANGED <<repo, disk, heap, fio, seen, faults>>

-----------------------------------------------------------------------------
(* newFioUpdater, from NewFioTuf and from RefreshTuf                       *)

\* getTufCfg: the root in the directory, or the initial one.
TrustedRoot == IF disk.root = 0 THEN InitialRoot ELSE disk.root

ReadRoot(p) ==
  /\ At(p, "ReadRoot")
  /\ \/ /\ TrustedRoot # 0 /\ UNCHANGED faults
        /\ proc' = [proc EXCEPT ![p].root = TrustedRoot, ![p].pc = "NewUpdater"]
     \/ TrustedRoot = 0 /\ Return(p) /\ UNCHANGED faults
     \/ Fail(p, "io")
  /\ UNCHANGED <<repo, disk, heap, fio, seen>>

\* An updater is made, and those that nothing refers to are collected.
Allocate(u, trusted) ==
  heap' = [v \in Updaters |-> IF v = u THEN [root |-> trusted, version |-> 0]
                              ELSE IF v \in Free THEN Nothing ELSE heap[v]]

\* updater.New: it stores the root it was given.
NewUpdater(p) ==
  /\ At(p, "NewUpdater")
  /\ \/ /\ \E u \in Free :
             /\ Allocate(u, proc[p].root)
             /\ proc' = [proc EXCEPT ![p].up = u, ![p].pc = "Assign"]
        /\ disk' = [disk EXCEPT !.root = proc[p].root]
        /\ UNCHANGED faults
     \/ Fail(p, "io") /\ UNCHANGED <<disk, heap>>
  /\ UNCHANGED <<repo, fio, seen>>

\* Mutant of SetUpdater: a refresh keeps the old updater.
SetUpdaterOnce(p) ==
  fio' = IF fio[Program(p)] = NoUpdater THEN [fio EXCEPT ![Program(p)] = proc[p].up] ELSE fio

SetUpdater(p) == fio' = [fio EXCEPT ![Program(p)] = proc[p].up]

\* NewFioTuf is done: the agent serves, the update client goes on to refresh.
AssignNew(p) ==
  /\ At(p, "Assign") /\ proc[p].task = "NewFioTuf"
  /\ SetUpdater(p)
  /\ IF p \in Clients
       THEN proc' = [proc EXCEPT ![p].pc = "ReadRoot", ![p].task = "RefreshTuf"]
       ELSE Return(p)
  /\ UNCHANGED <<repo, disk, heap, seen, faults>>

\* RefreshTuf puts the updater in place before it refreshes it.
AssignRefresh(p) ==
  /\ At(p, "Assign") /\ proc[p].task = "RefreshTuf"
  /\ SetUpdater(p)
  /\ Goto(p, "LoadRoot")
  /\ UNCHANGED <<repo, disk, heap, seen, faults>>

-----------------------------------------------------------------------------
(* Updater.Refresh, external, and the fetcher it calls                     *)

\* The roots that follow the trusted one are fetched and stored, until there
\* is no next one.
LoadRoot(p) ==
  /\ At(p, "LoadRoot")
  /\ \/ /\ IF Content(p).root > heap[proc[p].up].root
             THEN /\ heap' = [heap EXCEPT ![proc[p].up].root = Content(p).root]
                  /\ disk' = [disk EXCEPT !.root = Content(p).root]
             ELSE UNCHANGED <<heap, disk>>
        /\ Goto(p, "LoadLocal") /\ UNCHANGED faults
     \/ Fail(p, "fetch") /\ UNCHANGED <<heap, disk>>
  /\ UNCHANGED <<repo, fio, seen>>

\* Mutant of LocalVersion: LocalMetadataDir is not set, nothing is found.
NoLocalVersion == 0

LocalVersion == disk.version

\* The metadata in the directory are loaded first.
LoadLocal(p) ==
  /\ At(p, "LoadLocal")
  /\ proc' = [proc EXCEPT ![p].base = LocalVersion, ![p].pc = "Download"]
  /\ UNCHANGED <<repo, disk, heap, fio, seen, faults>>

\* A version is stored when it is newer than the one that was loaded.
Store(p) ==
  disk' = IF Content(p).version > proc[p].base
            THEN [disk EXCEPT !.version = Content(p).version] ELSE disk

\* An older version is refused.  A fetch may fail before the version is stored
\* or, between the timestamp and the targets, after.
Download(p) ==
  /\ At(p, "Download")
  /\ \/ /\ Content(p).version >= proc[p].base /\ Store(p)
        /\ heap' = [heap EXCEPT ![proc[p].up].version = Content(p).version]
        /\ IF p \in Clients THEN Goto(p, "GetTargets") ELSE Return(p)
        /\ UNCHANGED faults
     \/ /\ Content(p).version < proc[p].base /\ Return(p)
        /\ UNCHANGED <<disk, heap, faults>>
     \/ /\ Fail(p, "fetch") /\ UNCHANGED heap
        /\ UNCHANGED disk \/ (Content(p).version >= proc[p].base /\ Store(p))
  /\ UNCHANGED <<repo, fio, seen>>

-----------------------------------------------------------------------------
(* GetTargets and GetRoot                                                  *)

\* Mutant of Get: the server is started before globalFioTuf is set.
GetUnset(p) ==
  /\ p \in Gets /\ At(p, "Idle")
  /\ \E step \in {"GetTargets", "GetRoot"} :
       proc' = [proc EXCEPT ![p].up = fio[Agent], ![p].pc = step]
  /\ UNCHANGED <<repo, disk, heap, fio, seen, faults>>

\* getTargetsHttp and getRootHttp begin: fioUpdater is read ...
Get(p) ==
  /\ p \in Gets /\ At(p, "Idle") /\ fio[Agent] # NoUpdater
  /\ \E step \in {"GetTargets", "GetRoot"} :
       proc' = [proc EXCEPT ![p].up = fio[Agent], ![p].pc = step]
  /\ UNCHANGED <<repo, disk, heap, fio, seen, faults>>

\* The updater whose targets a process asks for.
Asked(p) == IF p \in Clients THEN fio[p] ELSE proc[p].up

\* ... and then what it points to.  Of an updater that is not refreshed there
\* are no targets: the handler panics, and gin answers with an error.
GetTargets(p) ==
  /\ At(p, "GetTargets")
  /\ seen' = IF heap[Asked(p)].version = 0 THEN seen
             ELSE [seen EXCEPT ![p].version = heap[Asked(p)].version]
  /\ Return(p)
  /\ UNCHANGED <<repo, disk, heap, fio, faults>>

GetRoot(p) ==
  /\ At(p, "GetRoot")
  /\ seen' = [seen EXCEPT ![p].root = heap[Asked(p)].root]
  /\ Return(p)
  /\ UNCHANGED <<repo, disk, heap, fio, faults>>

-----------------------------------------------------------------------------
(* The rest of the world                                                   *)

Publish ==
  /\ \/ repo.version < MaxVersion /\ repo' = [repo EXCEPT !.version = @ + 1]
     \/ repo.root < MaxRoot /\ repo' = [repo EXCEPT !.root = @ + 1]
  /\ UNCHANGED <<disk, heap, fio, proc, seen, faults>>

\* A program ends, with all its processes.
Dies(f) ==
  /\ fio' = [fio EXCEPT ![f] = NoUpdater]
  /\ proc' = [p \in Processes |-> IF Program(p) = f THEN Idle ELSE proc[p]]
  /\ UNCHANGED <<repo, disk, heap, seen>>

Crash(f) == f \in Programs /\ fio[f] # NoUpdater /\ Fault("crash") /\ Dies(f)

\* GetTopLevelTargets reads a map while Refresh writes it: the runtime may stop
\* the program for that.
MapRace(p) ==
  /\ p \in Gets /\ At(p, "GetTargets")
  /\ \E q \in Posts : At(q, "Download") /\ proc[q].up = proc[p].up
  /\ Fault("race") /\ Dies(Agent)

-----------------------------------------------------------------------------
Init ==
  /\ repo = [root |-> 1, version |-> 1]
  /\ disk = Nothing
  /\ heap = [u \in Updaters |-> Nothing]
  /\ fio = [f \in Programs |-> NoUpdater]
  /\ proc = [p \in Processes |-> Idle]
  /\ seen = [p \in Processes |-> Nothing]
  /\ faults = 0

RefreshStep(p) ==
  \/ ReadRoot(p) \/ NewUpdater(p) \/ AssignNew(p) \/ AssignRefresh(p)
  \/ LoadRoot(p) \/ LoadLocal(p) \/ Download(p)

GetStep(p) == Get(p) \/ GetTargets(p) \/ GetRoot(p)

ProcessStep(p) == Start(p) \/ Post(p) \/ RefreshStep(p) \/ GetStep(p)

Next ==
  \/ \E p \in Processes : ProcessStep(p) \/ Crash(p) \/ MapRace(p)
  \/ Publish

Spec == Init /\ [][Next]_vars

\* The agent is kept running, its handlers are scheduled, and a refresh from
\* the device gateway is requested again and again.
FairSpec ==
  /\ Spec
  /\ WF_vars(Start(Agent))
  /\ \A p \in Processes : WF_vars(RefreshStep(p) \/ GetStep(p))
  /\ \A p \in Posts : SF_vars(Post(p) /\ proc'[p].source = Online)

-----------------------------------------------------------------------------
NotOlder(m, n) == m.root >= n.root /\ m.version >= n.version

(***************************************************************************)
(* With one refresh at a time, what a process is given never gets older,   *)
(* neither the targets nor the root: a GET that read fioUpdater before a   *)
(* refresh, a failed refresh, a bundle with old metadata, and a restart,   *)
(* none of them takes it back.  Neither does the directory get older.      *)
(***************************************************************************)
NoRollback ==
  [][/\ \A p \in Processes : NotOlder(seen'[p], seen[p])
     /\ NotOlder(disk', disk)]_vars

(***************************************************************************)
(* The update client always gets targets, those of the refresh it has just *)
(* made, and none older than what the directory held when it began.        *)
(***************************************************************************)
OwnTargets ==
  \A p \in Clients : At(p, "GetTargets") =>
    heap[Asked(p)].version > 0 /\ heap[Asked(p)].version >= proc[p].base

Serving == fio[Agent] # NoUpdater /\ heap[fio[Agent]].version > 0

(***************************************************************************)
(* With one refresh at a time, the agent gets to serve targets again and   *)
(* again, whatever failed before: no stale file or old updater is in the   *)
(* way of a refresh for good.                                              *)
(***************************************************************************)
ServesAgain == []<>Serving
=============================================================================
