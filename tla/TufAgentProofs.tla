--------------------------- MODULE TufAgentProofs ---------------------------
(***************************************************************************)
(* Theorems about TufAgent, for any number of clients, handlers, bundles   *)
(* and faults: the update client gets the targets of its own refresh; and, *)
(* where refreshes come one at a time, nothing ever gets older.            *)
(***************************************************************************)
EXTENDS TufAgent, TLAPS

-----------------------------------------------------------------------------
(* Types                                                                   *)

Pcs == {"Idle", "ReadRoot", "NewUpdater", "Assign", "LoadRoot", "LoadLocal",
        "Download", "GetTargets", "GetRoot"}

LEMMA IdleType == Idle \in Process
  BY DEF Idle, Process, Sources

LEMMA GotoType ==
  ASSUME proc \in [Processes -> Process], NEW p \in Processes, NEW step \in Pcs, Goto(p, step)
  PROVE  proc' \in [Processes -> Process]
<1>1. [proc[p] EXCEPT !.pc = step] \in Process
  BY DEF Process, Pcs
<1>2. proc' = [proc EXCEPT ![p] = [proc[p] EXCEPT !.pc = step]]
  BY DEF Goto
<1>3. QED
  BY <1>1, <1>2

LEMMA ReturnType ==
  ASSUME proc \in [Processes -> Process], NEW p \in Processes, Return(p)
  PROVE  proc' \in [Processes -> Process]
  BY IdleType DEF Return

LEMMA ContentType ==
  ASSUME TypeOK, NEW p \in Processes
  PROVE  Content(p) \in Metadata
  BY TufAgentAssumption DEF TypeOK, Content, Process, Sources, Metadata

LEMMA CallType ==
  ASSUME proc \in [Processes -> Process], NEW p \in Processes,
         NEW function \in {"NewFioTuf", "RefreshTuf"}, Call(p, function)
  PROVE  /\ proc' \in [Processes -> Process]
         /\ proc'[p].pc = "ReadRoot" /\ proc'[p].task = function
         /\ \A q \in Processes : q # p => proc'[q] = proc[q]
<1>1. PICK src \in Sources :
        proc' = [proc EXCEPT ![p] = [Idle EXCEPT !.pc = "ReadRoot", !.task = function,
                                                 !.source = src]]
  BY DEF Call
<1>2. [Idle EXCEPT !.pc = "ReadRoot", !.task = function, !.source = src] \in Process
  BY DEF Idle, Process
<1>3. /\ [Idle EXCEPT !.pc = "ReadRoot", !.task = function, !.source = src].pc = "ReadRoot"
      /\ [Idle EXCEPT !.pc = "ReadRoot", !.task = function, !.source = src].task = function
  BY DEF Idle
<1>4. QED
  BY <1>1, <1>2, <1>3

\* The process that takes a step has an updater where it needs one.
UpdaterAt(p) == proc[p].pc \in HasUpdater => proc[p].up # NoUpdater

LEMMA TypeOKOf ==
  ASSUME TypeOK, NEW p \in Processes,
         repo' \in Metadata, disk' \in Metadata, heap' \in [Updaters -> Metadata],
         fio' \in [Programs -> Updaters \cup {NoUpdater}],
         proc' \in [Processes -> Process], seen' \in [Processes -> Metadata], faults' \in Nat,
         \A q \in Processes : q # p => proc'[q] = proc[q],
         UpdaterAt(p)'
  PROVE  TypeOK'
<1>1. ASSUME NEW q \in Processes PROVE UpdaterAt(q)'
  BY <1>1 DEF TypeOK, UpdaterAt
<1>2. QED
  BY <1>1 DEF TypeOK, UpdaterAt

LEMMA FaultType == ASSUME TypeOK, NEW kind, Fault(kind) PROVE faults' \in Nat
  BY DEF TypeOK, Fault

LEMMA ReturnFacts ==
  ASSUME TypeOK, NEW p \in Processes, Return(p)
  PROVE  /\ proc' \in [Processes -> Process] /\ proc'[p] = Idle /\ UpdaterAt(p)'
         /\ \A q \in Processes : q # p => proc'[q] = proc[q]
  BY ReturnType DEF TypeOK, Return, UpdaterAt, HasUpdater, Idle

LEMMA GotoFacts ==
  ASSUME TypeOK, NEW p \in Processes, NEW step \in Pcs, Goto(p, step),
         step \in HasUpdater => proc[p].up # NoUpdater
  PROVE  /\ proc' \in [Processes -> Process] /\ UpdaterAt(p)'
         /\ proc'[p] = [proc[p] EXCEPT !.pc = step]
         /\ proc'[p].pc = step /\ proc'[p].up = proc[p].up /\ proc'[p].task = proc[p].task
         /\ proc'[p].source = proc[p].source /\ proc'[p].root = proc[p].root
         /\ proc'[p].base = proc[p].base
         /\ \A q \in Processes : q # p => proc'[q] = proc[q]
<1>1. proc[p] \in Process
  BY DEF TypeOK
<1>2. proc' \in [Processes -> Process]
  BY GotoType DEF TypeOK
<1>3. proc' = [proc EXCEPT ![p] = [proc[p] EXCEPT !.pc = step]]
  BY DEF Goto
<1>4. /\ proc'[p] = [proc[p] EXCEPT !.pc = step]
      /\ \A q \in Processes : q # p => proc'[q] = proc[q]
  BY <1>3 DEF TypeOK
<1>5. QED
  BY <1>1, <1>2, <1>4 DEF UpdaterAt, Process

LEMMA ReadRootType ==
  ASSUME TypeOK, NEW p \in Processes, ReadRoot(p)
  PROVE  TypeOK'
<1>1. UNCHANGED <<repo, disk, heap, fio, seen>>
  BY DEF ReadRoot
<1>2. faults' \in Nat
  BY FaultType DEF ReadRoot, Fail, TypeOK
<1>3. CASE Return(p)
  BY <1>1, <1>2, <1>3, ReturnFacts, TypeOKOf DEF TypeOK
<1>4. CASE proc' = [proc EXCEPT ![p].root = TrustedRoot, ![p].pc = "NewUpdater"]
  <2>1. TrustedRoot \in Nat
    BY TufAgentAssumption DEF TypeOK, TrustedRoot, Metadata
  <2>2. proc[p] \in Process
    BY DEF TypeOK
  <2>3. [proc[p] EXCEPT !.root = TrustedRoot, !.pc = "NewUpdater"] \in Process
    BY <2>1, <2>2 DEF Process
  <2>4. proc' = [proc EXCEPT ![p] = [proc[p] EXCEPT !.root = TrustedRoot, !.pc = "NewUpdater"]]
    BY <1>4, <2>2 DEF TypeOK
  <2>5. proc' \in [Processes -> Process] /\ proc'[p].pc = "NewUpdater"
        /\ \A q \in Processes : q # p => proc'[q] = proc[q]
    BY <2>2, <2>3, <2>4 DEF TypeOK, Process
  <2>6. QED
    BY <1>1, <1>2, <2>5, TypeOKOf DEF TypeOK, UpdaterAt, HasUpdater
<1>5. QED
  BY <1>3, <1>4 DEF ReadRoot, Fail

LEMMA NewUpdaterType ==
  ASSUME TypeOK, NEW p \in Processes, NewUpdater(p)
  PROVE  TypeOK'
<1>1. UNCHANGED <<repo, fio, seen>>
  BY DEF NewUpdater
<1>2. faults' \in Nat
  BY FaultType DEF NewUpdater, Fail, TypeOK
<1>3. CASE Return(p) /\ UNCHANGED <<disk, heap>>
  BY <1>1, <1>2, <1>3, ReturnFacts, TypeOKOf DEF TypeOK
<1>4. ASSUME NEW u \in Free, Allocate(u, proc[p].root),
             proc' = [proc EXCEPT ![p].up = u, ![p].pc = "Assign"],
             disk' = [disk EXCEPT !.root = proc[p].root]
      PROVE  TypeOK'
  <2>1. proc[p] \in Process /\ proc[p].root \in Nat /\ u \in Updaters /\ u # NoUpdater
    BY TufAgentAssumption DEF TypeOK, Process, Free
  <2>2. [root |-> proc[p].root, version |-> 0] \in Metadata /\ Nothing \in Metadata
    BY <2>1 DEF Metadata, Nothing
  <2>3. heap' \in [Updaters -> Metadata]
    BY <1>4, <2>2 DEF Allocate, TypeOK
  <2>4. disk' \in Metadata
    BY <1>4, <2>1 DEF TypeOK, Metadata
  <2>5. [proc[p] EXCEPT !.up = u, !.pc = "Assign"] \in Process
    BY <2>1 DEF Process
  <2>6. proc' = [proc EXCEPT ![p] = [proc[p] EXCEPT !.up = u, !.pc = "Assign"]]
    BY <1>4, <2>1 DEF TypeOK
  <2>7. proc' \in [Processes -> Process] /\ proc'[p].up = u
        /\ \A q \in Processes : q # p => proc'[q] = proc[q]
    BY <2>1, <2>5, <2>6 DEF TypeOK, Process
  <2>8. QED
    BY <1>1, <1>2, <2>1, <2>3, <2>4, <2>7, TypeOKOf DEF TypeOK, UpdaterAt
<1>5. QED
  BY <1>3, <1>4 DEF NewUpdater, Fail

LEMMA ProgramType == \A p \in Processes : Program(p) \in Programs
  BY DEF Program, Programs

LEMMA AssignType ==
  ASSUME TypeOK, NEW p \in Processes, AssignNew(p) \/ AssignRefresh(p)
  PROVE  TypeOK'
<1>1. UNCHANGED <<repo, disk, heap, seen, faults>>
  BY DEF AssignNew, AssignRefresh
<1>2. proc[p] \in Process /\ proc[p].up # NoUpdater
  BY DEF AssignNew, AssignRefresh, At, TypeOK, HasUpdater
<1>3. fio' \in [Programs -> Updaters \cup {NoUpdater}]
  BY <1>2, ProgramType DEF AssignNew, AssignRefresh, SetUpdater, TypeOK, Process
<1>4. CASE Return(p)
  BY <1>1, <1>3, <1>4, ReturnFacts, TypeOKOf DEF TypeOK
<1>5. CASE Goto(p, "LoadRoot")
  BY <1>1, <1>2, <1>3, <1>5, GotoFacts, TypeOKOf DEF TypeOK, Pcs
<1>6. CASE proc' = [proc EXCEPT ![p].pc = "ReadRoot", ![p].task = "RefreshTuf"]
  <2>1. [proc[p] EXCEPT !.pc = "ReadRoot", !.task = "RefreshTuf"] \in Process
    BY <1>2 DEF Process
  <2>2. proc' = [proc EXCEPT ![p] = [proc[p] EXCEPT !.pc = "ReadRoot", !.task = "RefreshTuf"]]
    BY <1>2, <1>6 DEF TypeOK
  <2>3. proc' \in [Processes -> Process] /\ proc'[p].pc = "ReadRoot"
        /\ \A q \in Processes : q # p => proc'[q] = proc[q]
    BY <1>2, <2>1, <2>2 DEF TypeOK, Process
  <2>4. QED
    BY <1>1, <1>3, <2>3, TypeOKOf DEF TypeOK, UpdaterAt, HasUpdater
<1>7. QED
  BY <1>4, <1>5, <1>6 DEF AssignNew, AssignRefresh

(***************************************************************************)
(* The steps of Refresh work on the updater at hand and on the directory.  *)
(***************************************************************************)
LEMMA RefreshType ==
  ASSUME TypeOK, NEW p \in Processes, LoadRoot(p) \/ LoadLocal(p) \/ Download(p)
  PROVE  TypeOK'
<1>1. UNCHANGED <<repo, fio, seen>>
  BY DEF LoadRoot, LoadLocal, Download
<1>2. /\ proc[p] \in Process /\ proc[p].up \in Updaters /\ proc[p].up # NoUpdater
      /\ Content(p) \in Metadata /\ heap[proc[p].up] \in Metadata
  BY ContentType DEF LoadRoot, LoadLocal, Download, At, TypeOK, HasUpdater, Process
<1>3. faults' \in Nat
  BY FaultType DEF LoadRoot, LoadLocal, Download, Fail, TypeOK
<1>4. heap' \in [Updaters -> Metadata]
  <2>1. [heap[proc[p].up] EXCEPT !.root = Content(p).root] \in Metadata
        /\ [heap[proc[p].up] EXCEPT !.version = Content(p).version] \in Metadata
    BY <1>2 DEF Metadata
  <2>2. \/ UNCHANGED heap
        \/ heap' = [heap EXCEPT ![proc[p].up] = [heap[proc[p].up] EXCEPT !.root = Content(p).root]]
        \/ heap' = [heap EXCEPT ![proc[p].up] = [heap[proc[p].up] EXCEPT !.version = Content(p).version]]
    BY <1>2 DEF LoadRoot, LoadLocal, Download, TypeOK
  <2>3. QED
    BY <1>2, <2>1, <2>2 DEF TypeOK
<1>5. disk' \in Metadata
  BY <1>2 DEF LoadRoot, LoadLocal, Download, Store, TypeOK, Metadata
<1>6. CASE Return(p)
  BY <1>1, <1>3, <1>4, <1>5, <1>6, ReturnFacts, TypeOKOf DEF TypeOK
<1>7. ASSUME NEW step \in {"LoadLocal", "GetTargets"}, Goto(p, step) PROVE TypeOK'
  BY <1>1, <1>2, <1>3, <1>4, <1>5, <1>7, GotoFacts, TypeOKOf DEF TypeOK, Pcs
<1>8. CASE proc' = [proc EXCEPT ![p].base = LocalVersion, ![p].pc = "Download"]
  <2>1. LocalVersion \in Nat
    BY DEF LocalVersion, TypeOK, Metadata
  <2>2. [proc[p] EXCEPT !.base = LocalVersion, !.pc = "Download"] \in Process
    BY <1>2, <2>1 DEF Process
  <2>3. proc' = [proc EXCEPT ![p] = [proc[p] EXCEPT !.base = LocalVersion, !.pc = "Download"]]
    BY <1>2, <1>8 DEF TypeOK
  <2>4. proc' \in [Processes -> Process] /\ proc'[p].up = proc[p].up
        /\ \A q \in Processes : q # p => proc'[q] = proc[q]
    BY <1>2, <2>2, <2>3 DEF TypeOK, Process
  <2>5. QED
    BY <1>1, <1>2, <1>3, <1>4, <1>5, <2>4, TypeOKOf DEF TypeOK, UpdaterAt
<1>9. QED
  BY <1>6, <1>7, <1>8 DEF LoadRoot, LoadLocal, Download, Fail

LEMMA CallerType ==
  ASSUME TypeOK, NEW p \in Processes, Start(p) \/ Post(p)
  PROVE  TypeOK'
<1>1. UNCHANGED <<repo, disk, heap, fio, seen, faults>>
  BY DEF Start, Post
<1>2. PICK function \in {"NewFioTuf", "RefreshTuf"} : Call(p, function)
  BY DEF Start, Post
<1>3. proc \in [Processes -> Process]
  BY DEF TypeOK
<1>4. /\ proc' \in [Processes -> Process] /\ proc'[p].pc = "ReadRoot"
      /\ \A q \in Processes : q # p => proc'[q] = proc[q]
  BY <1>2, <1>3, CallType
<1>5. QED
  BY <1>1, <1>4, TypeOKOf DEF TypeOK, UpdaterAt, HasUpdater

\* What a GET knows once it has read fioUpdater.
LEMMA GetFacts ==
  ASSUME TypeOK, NEW p \in Processes, Get(p)
  PROVE  /\ proc' \in [Processes -> Process]
         /\ proc'[p].pc \in {"GetTargets", "GetRoot"} /\ proc'[p].up = fio[Agent]
         /\ fio[Agent] # NoUpdater
         /\ \A q \in Processes : q # p => proc'[q] = proc[q]
<1>1. PICK step \in {"GetTargets", "GetRoot"} :
        proc' = [proc EXCEPT ![p].up = fio[Agent], ![p].pc = step]
  BY DEF Get
<1>2. proc[p] \in Process /\ fio[Agent] \in Updaters \cup {NoUpdater}
  BY DEF TypeOK, Programs
<1>3. [proc[p] EXCEPT !.up = fio[Agent], !.pc = step] \in Process
  BY <1>2 DEF Process
<1>4. proc' = [proc EXCEPT ![p] = [proc[p] EXCEPT !.up = fio[Agent], !.pc = step]]
  BY <1>1, <1>2 DEF TypeOK
<1>5. QED
  BY <1>2, <1>3, <1>4 DEF TypeOK, Process, Get

LEMMA GetType ==
  ASSUME TypeOK, NEW p \in Processes, Get(p)
  PROVE  TypeOK'
<1>1. UNCHANGED <<repo, disk, heap, fio, seen, faults>>
  BY DEF Get
<1>2. QED
  BY <1>1, GetFacts, TypeOKOf DEF TypeOK, UpdaterAt

LEMMA GivenType ==
  ASSUME TypeOK, NEW p \in Processes, GetTargets(p) \/ GetRoot(p),
         Asked(p) \in Updaters
  PROVE  TypeOK'
<1>1. UNCHANGED <<repo, disk, heap, fio, faults>> /\ Return(p)
  BY DEF GetTargets, GetRoot
<1>2. heap[Asked(p)] \in Metadata /\ seen[p] \in Metadata
  BY DEF TypeOK
<1>3. seen' \in [Processes -> Metadata]
  <2>1. [seen[p] EXCEPT !.version = heap[Asked(p)].version] \in Metadata
        /\ [seen[p] EXCEPT !.root = heap[Asked(p)].root] \in Metadata
    BY <1>2 DEF Metadata
  <2>2. \/ UNCHANGED seen
        \/ seen' = [seen EXCEPT ![p] = [seen[p] EXCEPT !.version = heap[Asked(p)].version]]
        \/ seen' = [seen EXCEPT ![p] = [seen[p] EXCEPT !.root = heap[Asked(p)].root]]
    BY <1>2 DEF GetTargets, GetRoot, TypeOK
  <2>3. QED
    BY <2>1, <2>2 DEF TypeOK
<1>4. QED
  BY <1>1, <1>3, ReturnFacts, TypeOKOf DEF TypeOK

LEMMA DiesType ==
  ASSUME TypeOK, NEW f \in Programs, Dies(f), faults' \in Nat
  PROVE  TypeOK'
<1>1. UNCHANGED <<repo, disk, heap, seen>> /\ fio' \in [Programs -> Updaters \cup {NoUpdater}]
  BY DEF Dies, TypeOK
<1>2. proc' \in [Processes -> Process]
  BY IdleType DEF Dies, TypeOK
<1>3. ASSUME NEW p \in Processes, proc'[p].pc \in HasUpdater
      PROVE  proc'[p].up # NoUpdater
  <2>1. proc'[p] = IF Program(p) = f THEN Idle ELSE proc[p]
    BY DEF Dies
  <2>2. Idle.pc \notin HasUpdater
    BY DEF Idle, HasUpdater
  <2>3. proc'[p] = proc[p]
    BY <1>3, <2>1, <2>2
  <2>4. QED
    BY <1>3, <2>3 DEF TypeOK
<1>4. QED
  BY <1>1, <1>2, <1>3 DEF TypeOK

LEMMA PublishType ==
  ASSUME TypeOK, Publish
  PROVE  TypeOK'
<1>1. repo' \in Metadata
  BY DEF Publish, TypeOK, Metadata
<1>2. QED
  BY <1>1 DEF Publish, TypeOK

LEMMA InitType == Init => TypeOK
<1>1. Nothing \in Metadata /\ [root |-> 1, version |-> 1] \in Metadata
  BY DEF Nothing, Metadata
<1>2. Idle.pc \notin HasUpdater
  BY DEF Idle, HasUpdater
<1>3. QED
  BY <1>1, <1>2, IdleType DEF Init, TypeOK

-----------------------------------------------------------------------------
(* The targets of one's own refresh                                        *)

Refreshing == {"LoadRoot", "LoadLocal", "Download"}

\* A handler of GET makes no updater, and only it asks for the root.
Roles ==
  \A p \in Processes : IF p \in Gets THEN proc[p].pc \in {"Idle", "GetTargets", "GetRoot"}
                                     ELSE ~At(p, "GetRoot")

\* No two refreshes work on one updater, although the agent's share fioUpdater.
Distinct ==
  \A p, q \in Processes \ Gets :
    p # q /\ proc[p].up # NoUpdater => proc[p].up # proc[q].up

\* The FioTuf of a client has the updater of its refresh.
Own(c) == proc[c].pc \in Refreshing \cup {"GetTargets"} => fio[c] = proc[c].up

Filled(c) ==
  At(c, "GetTargets") =>
    heap[proc[c].up].version > 0 /\ heap[proc[c].up].version >= proc[c].base

OwnInv ==
  /\ TypeOK
  /\ repo.version > 0
  /\ Roles
  /\ Distinct
  /\ \A c \in Clients : Own(c) /\ Filled(c)

LEMMA OwnInit == Init => OwnInv
<1> SUFFICES ASSUME Init PROVE OwnInv
  OBVIOUS
<1>1. \A p \in Processes : proc[p].pc = "Idle" /\ proc[p].up = NoUpdater
  BY DEF Init, Idle
<1>2. Roles /\ Distinct
  BY <1>1 DEF Roles, Distinct, At
<1>3. \A c \in Clients : c \in Processes
  BY DEF Processes, Refreshers
<1>4. \A c \in Clients : Own(c) /\ Filled(c)
  BY <1>1, <1>3 DEF Own, Filled, At, Refreshing
<1>5. repo.version > 0
  BY DEF Init
<1>6. QED
  BY <1>2, <1>4, <1>5, InitType DEF OwnInv

\* A step of p that leaves the updaters of the others alone.
LEMMA OwnOthers ==
  ASSUME OwnInv, TypeOK', NEW p \in Processes,
         \A q \in Processes : q # p => proc'[q] = proc[q],
         repo' = repo,
         \A f \in Programs : f # Program(p) => fio'[f] = fio[f],
         \A q \in Processes : q # p /\ q \notin Gets /\ proc[q].up # NoUpdater
                                => heap'[proc[q].up] = heap[proc[q].up],
         IF p \in Gets THEN proc'[p].pc \in {"Idle", "GetTargets", "GetRoot"}
                       ELSE proc'[p].pc # "GetRoot",
         p \notin Gets => \/ proc'[p].up \in {proc[p].up, NoUpdater}
                          \/ \A q \in Processes : proc[q].up # proc'[p].up,
         p \in Clients => Own(p)' /\ Filled(p)'
  PROVE  OwnInv'
<1>1. Roles'
  BY DEF OwnInv, Roles, At
<1>2. Distinct'
  BY DEF OwnInv, Distinct
<1>3. ASSUME NEW c \in Clients PROVE Own(c)' /\ Filled(c)'
  <2>1. CASE c = p
    BY <2>1
  <2>2. CASE c # p
    <3>1. c \in Programs /\ c \in Processes /\ c # Program(p) /\ c \notin Gets
      BY <2>2, TufAgentAssumption DEF Programs, Processes, Refreshers, Program
    <3>2. proc'[c] = proc[c] /\ fio'[c] = fio[c] /\ Own(c) /\ Filled(c)
      BY <2>2, <3>1 DEF OwnInv
    <3>3. CASE At(c, "GetTargets")
      <4>1. proc[c].up # NoUpdater
        BY <3>1, <3>3 DEF OwnInv, TypeOK, At, HasUpdater
      <4>2. heap'[proc[c].up] = heap[proc[c].up]
        BY <2>2, <3>1, <4>1
      <4>3. QED
        BY <3>2, <4>2 DEF Own, Filled, At
    <3>4. CASE ~At(c, "GetTargets")
      BY <3>2, <3>4 DEF Own, Filled, At
    <3>5. QED
      BY <3>3, <3>4
  <2>3. QED
    BY <2>1, <2>2
<1>4. QED
  BY <1>1, <1>2, <1>3 DEF OwnInv

\* After Return there is nothing to know of a process.
LEMMA OwnReturn ==
  ASSUME TypeOK, NEW p \in Processes, Return(p)
  PROVE  /\ proc'[p].pc = "Idle" /\ proc'[p].up = NoUpdater /\ Own(p)' /\ Filled(p)'
         /\ \A q \in Processes : q # p => proc'[q] = proc[q]
<1>1. proc'[p] = Idle /\ \A q \in Processes : q # p => proc'[q] = proc[q]
  BY ReturnFacts
<1>2. QED
  BY <1>1 DEF Idle, Own, Filled, At, Refreshing

LEMMA OwnCaller ==
  ASSUME OwnInv, NEW p \in Processes, Start(p) \/ Post(p)
  PROVE  OwnInv'
<1>1. TypeOK /\ TypeOK'
  BY CallerType DEF OwnInv
<1>2. p \notin Gets
  BY TufAgentAssumption DEF Start, Post, Programs, Refreshers
<1>3. PICK function \in {"NewFioTuf", "RefreshTuf"}, src \in Sources :
        proc' = [proc EXCEPT ![p] = [Idle EXCEPT !.pc = "ReadRoot", !.task = function,
                                                 !.source = src]]
  BY DEF Start, Post, Call
<1>4. /\ proc'[p].pc = "ReadRoot" /\ proc'[p].up = NoUpdater
      /\ \A q \in Processes : q # p => proc'[q] = proc[q]
  BY <1>1, <1>3 DEF TypeOK, Idle
<1>5. Own(p)' /\ Filled(p)'
  BY <1>4 DEF Own, Filled, At, Refreshing
<1>6. UNCHANGED <<repo, heap, fio>>
  BY DEF Start, Post
<1>7. QED
  BY <1>1, <1>2, <1>4, <1>5, <1>6, OwnOthers

LEMMA OwnReadRoot ==
  ASSUME OwnInv, NEW p \in Processes, ReadRoot(p)
  PROVE  OwnInv'
<1>1. TypeOK /\ TypeOK'
  BY ReadRootType DEF OwnInv
<1>2. UNCHANGED <<repo, heap, fio>>
  BY DEF ReadRoot
<1>3. p \notin Gets
  BY DEF OwnInv, Roles, ReadRoot, At
<1>4. CASE Return(p)
  BY <1>1, <1>2, <1>3, <1>4, OwnReturn, OwnOthers
<1>5. CASE proc' = [proc EXCEPT ![p].root = TrustedRoot, ![p].pc = "NewUpdater"]
  <2>1. /\ proc'[p].pc = "NewUpdater" /\ proc'[p].up = proc[p].up
        /\ \A q \in Processes : q # p => proc'[q] = proc[q]
    BY <1>1, <1>5 DEF TypeOK, Process
  <2>2. Own(p)' /\ Filled(p)'
    BY <2>1 DEF Own, Filled, At, Refreshing
  <2>3. QED
    BY <1>1, <1>2, <1>3, <2>1, <2>2, OwnOthers
<1>6. QED
  BY <1>4, <1>5 DEF ReadRoot, Fail

LEMMA OwnNewUpdater ==
  ASSUME OwnInv, NEW p \in Processes, NewUpdater(p)
  PROVE  OwnInv'
<1>1. TypeOK /\ TypeOK'
  BY NewUpdaterType DEF OwnInv
<1>2. UNCHANGED <<repo, fio>>
  BY DEF NewUpdater
<1>3. p \notin Gets
  BY DEF OwnInv, Roles, NewUpdater, At
<1>4. CASE Return(p) /\ UNCHANGED heap
  BY <1>1, <1>2, <1>3, <1>4, OwnReturn, OwnOthers
<1>5. ASSUME NEW u \in Free, Allocate(u, proc[p].root),
             proc' = [proc EXCEPT ![p].up = u, ![p].pc = "Assign"]
      PROVE  OwnInv'
  <2>1. /\ proc'[p].pc = "Assign" /\ proc'[p].up = u
        /\ \A q \in Processes : q # p => proc'[q] = proc[q]
    BY <1>1, <1>5 DEF TypeOK, Process
  <2>2. \A q \in Processes : proc[q].up # u /\ proc[q].up \notin Free
    BY DEF Free
  <2>3. \A q \in Processes : proc[q].up # NoUpdater => heap'[proc[q].up] = heap[proc[q].up]
    BY <1>1, <1>5, <2>2 DEF Allocate, TypeOK, Process
  <2>4. Own(p)' /\ Filled(p)'
    BY <2>1 DEF Own, Filled, At, Refreshing
  <2>5. QED
    BY <1>1, <1>2, <1>3, <2>1, <2>2, <2>3, <2>4, OwnOthers
<1>6. QED
  BY <1>4, <1>5 DEF NewUpdater, Fail

LEMMA OwnAssign ==
  ASSUME OwnInv, NEW p \in Processes, AssignNew(p) \/ AssignRefresh(p)
  PROVE  OwnInv'
<1>1. TypeOK /\ TypeOK'
  BY AssignType DEF OwnInv
<1>2. UNCHANGED <<repo, heap>> /\ SetUpdater(p)
  BY DEF AssignNew, AssignRefresh
<1>3. p \notin Gets /\ proc[p].up # NoUpdater
  BY DEF OwnInv, Roles, AssignNew, AssignRefresh, At, TypeOK, HasUpdater
<1>4. /\ \A f \in Programs : f # Program(p) => fio'[f] = fio[f]
      /\ fio'[Program(p)] = proc[p].up
  BY <1>1, <1>2, ProgramType DEF SetUpdater, TypeOK
<1>5. CASE Return(p)
  BY <1>1, <1>2, <1>3, <1>4, <1>5, OwnReturn, OwnOthers
<1>6. CASE Goto(p, "LoadRoot")
  <2>1. /\ proc'[p].pc = "LoadRoot" /\ proc'[p].up = proc[p].up
        /\ \A q \in Processes : q # p => proc'[q] = proc[q]
    BY <1>1, <1>3, <1>6, GotoFacts DEF Pcs
  <2>2. p \in Clients => Own(p)' /\ Filled(p)'
    BY <1>4, <2>1 DEF Own, Filled, At, Program
  <2>3. QED
    BY <1>1, <1>2, <1>3, <1>4, <2>1, <2>2, OwnOthers
<1>7. CASE proc' = [proc EXCEPT ![p].pc = "ReadRoot", ![p].task = "RefreshTuf"]
  <2>1. /\ proc'[p].pc = "ReadRoot" /\ proc'[p].up = proc[p].up
        /\ \A q \in Processes : q # p => proc'[q] = proc[q]
    BY <1>1, <1>7 DEF TypeOK, Process
  <2>2. Own(p)' /\ Filled(p)'
    BY <2>1 DEF Own, Filled, At, Refreshing
  <2>3. QED
    BY <1>1, <1>2, <1>3, <1>4, <2>1, <2>2, OwnOthers
<1>8. QED
  BY <1>5, <1>6, <1>7 DEF AssignNew, AssignRefresh

LEMMA OwnRefresh ==
  ASSUME OwnInv, NEW p \in Processes, LoadRoot(p) \/ LoadLocal(p) \/ Download(p)
  PROVE  OwnInv'
<1>1. TypeOK /\ TypeOK'
  BY RefreshType DEF OwnInv
<1>2. UNCHANGED <<repo, fio>>
  BY DEF LoadRoot, LoadLocal, Download
<1>3. /\ p \notin Gets /\ proc[p].up # NoUpdater /\ proc[p].pc \in Refreshing
      /\ proc[p].up \in Updaters /\ proc[p] \in Process
  BY DEF OwnInv, Roles, LoadRoot, LoadLocal, Download, At, TypeOK, HasUpdater, Refreshing, Process
<1>4. \A v \in Updaters : v # proc[p].up => heap'[v] = heap[v]
  BY <1>1 DEF LoadRoot, LoadLocal, Download, TypeOK
<1>5. \A q \in Processes : q # p /\ q \notin Gets /\ proc[q].up # NoUpdater
                             => heap'[proc[q].up] = heap[proc[q].up]
  BY <1>1, <1>3, <1>4 DEF OwnInv, Distinct, TypeOK, Process
<1>6. CASE Return(p)
  BY <1>1, <1>2, <1>3, <1>5, <1>6, OwnReturn, OwnOthers
<1>7. CASE Goto(p, "LoadLocal") \/ proc' = [proc EXCEPT ![p].base = LocalVersion, ![p].pc = "Download"]
  <2>1. /\ proc'[p].pc \in Refreshing /\ proc'[p].up = proc[p].up
        /\ \A q \in Processes : q # p => proc'[q] = proc[q]
    BY <1>1, <1>3, <1>7 DEF TypeOK, Process, Goto, Refreshing
  <2>2. p \in Clients => Own(p)' /\ Filled(p)'
    BY <1>2, <1>3, <2>1 DEF OwnInv, Own, Filled, At, Refreshing
  <2>3. QED
    BY <1>1, <1>2, <1>3, <1>5, <2>1, <2>2, OwnOthers DEF Refreshing
<1>8. ASSUME p \in Clients, Download(p), Goto(p, "GetTargets"),
             Content(p).version >= proc[p].base,
             heap' = [heap EXCEPT ![proc[p].up].version = Content(p).version]
      PROVE  OwnInv'
  <2>1. /\ proc'[p].pc = "GetTargets" /\ proc'[p].up = proc[p].up
        /\ proc'[p].base = proc[p].base
        /\ \A q \in Processes : q # p => proc'[q] = proc[q]
    BY <1>1, <1>3, <1>8, GotoFacts DEF Pcs
  <2>2. Content(p).version > 0
    BY <1>3, TufAgentAssumption DEF OwnInv, Content, Process, Sources
  <2>3. heap'[proc[p].up].version = Content(p).version
    BY <1>1, <1>3, <1>8 DEF TypeOK, Metadata
  <2>4. Own(p)' /\ Filled(p)'
    BY <1>2, <1>3, <1>8, <2>1, <2>2, <2>3 DEF OwnInv, Own, Filled, At
  <2>5. QED
    BY <1>1, <1>2, <1>3, <1>5, <2>1, <2>4, OwnOthers
<1>9. QED
  BY <1>6, <1>7, <1>8 DEF LoadRoot, LoadLocal, Download, Fail

LEMMA OwnGet ==
  ASSUME OwnInv, NEW p \in Processes, Get(p)
  PROVE  OwnInv'
<1>1. TypeOK /\ TypeOK'
  BY GetType DEF OwnInv
<1>2. UNCHANGED <<repo, heap, fio>> /\ p \in Gets /\ p \notin Clients
  BY TufAgentAssumption DEF Get, Refreshers
<1>3. QED
  BY <1>1, <1>2, GetFacts, OwnOthers

LEMMA OwnGiven ==
  ASSUME OwnInv, NEW p \in Processes, GetTargets(p) \/ GetRoot(p)
  PROVE  /\ OwnInv'
         /\ p \notin Clients => Asked(p) = proc[p].up
<1>1. Asked(p) \in Updaters
  <2>1. proc[p].up \in Updaters
    BY DEF OwnInv, TypeOK, GetTargets, GetRoot, At, HasUpdater, Process
  <2>2. p \in Clients => fio[p] = proc[p].up
    BY TufAgentAssumption DEF OwnInv, Roles, Own, GetTargets, GetRoot, At, Refreshers
  <2>3. QED
    BY <2>1, <2>2 DEF Asked
<1>2. TypeOK /\ TypeOK'
  BY <1>1, GivenType DEF OwnInv
<1>3. UNCHANGED <<repo, heap, fio>> /\ Return(p)
  BY DEF GetTargets, GetRoot
<1>4. QED
  BY <1>2, <1>3, OwnReturn, OwnOthers DEF Asked

LEMMA OwnDies ==
  ASSUME OwnInv, NEW f \in Programs, Dies(f), faults' \in Nat
  PROVE  OwnInv'
<1>1. TypeOK'
  BY DiesType DEF OwnInv
<1>2. UNCHANGED <<repo, heap>>
  BY DEF Dies
<1>3. \A p \in Processes : proc'[p] = IF Program(p) = f THEN Idle ELSE proc[p]
  BY DEF Dies
<1>4. Idle.pc = "Idle" /\ Idle.up = NoUpdater
  BY DEF Idle
<1>5. Roles'
  BY <1>3, <1>4 DEF OwnInv, Roles, At
<1>6. Distinct'
  BY <1>3, <1>4 DEF OwnInv, Distinct
<1>7. ASSUME NEW c \in Clients PROVE Own(c)' /\ Filled(c)'
  <2>1. c \in Processes /\ Program(c) = c /\ c \in Programs
    BY DEF Processes, Refreshers, Program, Programs
  <2>2. c # f => fio'[c] = fio[c]
    BY <2>1 DEF Dies, OwnInv, TypeOK
  <2>3. QED
    BY <1>2, <1>3, <1>4, <2>1, <2>2 DEF OwnInv, Own, Filled, At, Refreshing
<1>8. QED
  BY <1>1, <1>2, <1>5, <1>6, <1>7 DEF OwnInv

LEMMA OwnPublish ==
  ASSUME OwnInv, Publish
  PROVE  OwnInv'
<1>1. TypeOK'
  BY PublishType DEF OwnInv
<1>2. UNCHANGED <<proc, heap, fio>> /\ repo'.version > 0
  BY DEF Publish, OwnInv, TypeOK, Metadata
<1>3. QED
  BY <1>1, <1>2 DEF OwnInv, Roles, Distinct, Own, Filled, At

LEMMA OwnNext == OwnInv /\ [Next]_vars => OwnInv'
<1> SUFFICES ASSUME OwnInv, [Next]_vars PROVE OwnInv'
  OBVIOUS
<1>1. ASSUME NEW p \in Processes, Start(p) \/ Post(p) PROVE OwnInv'
  BY <1>1, OwnCaller
<1>2. ASSUME NEW p \in Processes, RefreshStep(p) PROVE OwnInv'
  BY <1>2, OwnReadRoot, OwnNewUpdater, OwnAssign, OwnRefresh DEF RefreshStep
<1>3. ASSUME NEW p \in Processes, GetStep(p) PROVE OwnInv'
  BY <1>3, OwnGet, OwnGiven DEF GetStep
<1>4. ASSUME NEW p \in Processes, Crash(p) \/ MapRace(p) PROVE OwnInv'
  <2>1. TypeOK
    BY DEF OwnInv
  <2>2. faults' \in Nat
    BY <1>4, <2>1, FaultType DEF Crash, MapRace
  <2>3. PICK f \in Programs : Dies(f)
    BY <1>4 DEF Crash, MapRace, Programs
  <2>4. QED
    BY <2>2, <2>3, OwnDies
<1>5. CASE Publish
  BY <1>5, OwnPublish
<1>6. CASE UNCHANGED vars
  BY <1>6 DEF vars, OwnInv, TypeOK, Roles, Distinct, Own, Filled, At
<1>7. QED
  BY <1>1, <1>2, <1>3, <1>4, <1>5, <1>6 DEF Next, ProcessStep

LEMMA OwnInvHolds == Spec => []OwnInv
  BY OwnInit, OwnNext, PTL DEF Spec

(***************************************************************************)
(* Every reachable state is type correct: no handler and no client uses an *)
(* updater that it does not have.                                          *)
(***************************************************************************)
THEOREM AgentTypeCorrect == Spec => []TypeOK
<1>1. OwnInv => TypeOK
  BY DEF OwnInv
<1>2. QED
  BY OwnInvHolds, <1>1, PTL

(***************************************************************************)
(* The update client reads the targets that its own RefreshTuf has just    *)
(* fetched, none older than the directory held when it began, whatever     *)
(* other programs do to that directory meanwhile.                          *)
(***************************************************************************)
THEOREM OwnTargetsHolds == Spec => []OwnTargets
<1>1. OwnInv => OwnTargets
  BY DEF OwnInv, OwnTargets, Own, Filled, Asked, At, Refreshing
<1>2. QED
  BY OwnInvHolds, <1>1, PTL

-----------------------------------------------------------------------------
(* One refresh at a time                                                   *)

OneRefresher == Clients = {} /\ \A p, q \in Posts : p = q

\* The agent starts when it has no updater, and handles requests when it has.
Running ==
  /\ ~At(Agent, "Idle") => fio[Agent] = NoUpdater /\ proc[Agent].task = "NewFioTuf"
  /\ \A p \in Posts \cup Gets : ~At(p, "Idle") => fio[Agent] # NoUpdater

\* How far the refresh of p has got: from the root in the directory to an
\* updater with that root, in place, and no targets yet.
Progress(p) ==
  /\ At(p, "NewUpdater") => proc[p].root = TrustedRoot /\ TrustedRoot # 0
  /\ At(p, "Assign") => disk.root # 0 /\ heap[proc[p].up] = [root |-> disk.root, version |-> 0]
  /\ proc[p].pc \in Refreshing => proc[p].up = fio[Agent] /\ heap[proc[p].up].version = 0
  /\ At(p, "Download") => proc[p].base = disk.version
  /\ ~At(p, "GetTargets")

\* The updater in place is the last one made: its root is the trusted one, and
\* its targets, if it has any, are those stored last.
Latest ==
  fio[Agent] # NoUpdater => /\ heap[fio[Agent]].root = disk.root /\ disk.root # 0
                            /\ heap[fio[Agent]].version \in {0, disk.version}

\* Nothing that was given out is newer than the directory, nor is what a GET is
\* about to read older than what the same process was given before.
Given(p) ==
  /\ NotOlder(disk, seen[p])
  /\ p \in Gets /\ ~At(p, "Idle") =>
       /\ heap[proc[p].up].root >= seen[p].root
       /\ heap[proc[p].up].version = 0 \/ heap[proc[p].up].version >= seen[p].version

RollbackInv ==
  /\ OwnInv
  /\ Running
  /\ \A p \in Processes \ Gets : Progress(p)
  /\ Latest
  /\ \A u \in Updaters : NotOlder(disk, heap[u])
  /\ \A p \in Processes : Given(p)

Forward ==
  (\A p \in Processes : NotOlder(seen'[p], seen[p])) /\ NotOlder(disk', disk)

LEMMA RollbackInit == Init => RollbackInv
<1> SUFFICES ASSUME Init PROVE RollbackInv
  OBVIOUS
<1>1. \A p \in Processes : proc[p].pc = "Idle"
  BY DEF Init, Idle
<1>2. Agent \in Processes /\ Posts \cup Gets \subseteq Processes
  BY DEF Processes, Refreshers
<1>3. Running
  BY <1>1, <1>2 DEF Running, At
<1>4. \A p \in Processes : Progress(p)
  BY <1>1 DEF Progress, At, Refreshing
<1>5. Latest
  BY DEF Init, Latest, Programs
<1>6. NotOlder(Nothing, Nothing)
  BY DEF Nothing, NotOlder
<1>7. \A p \in Processes : Given(p)
  BY <1>1, <1>6 DEF Init, Given, At
<1>8. QED
  BY <1>3, <1>4, <1>5, <1>6, <1>7, OwnInit DEF Init, RollbackInv

LEMMA NotOlderSelf ==
  ASSUME TypeOK
  PROVE  NotOlder(disk, disk) /\ \A p \in Processes : NotOlder(seen[p], seen[p])
  BY DEF TypeOK, Metadata, NotOlder

(***************************************************************************)
(* Where refreshes come one at a time, the agent that starts or the        *)
(* handler that refreshes is alone.                                        *)
(***************************************************************************)
LEMMA Alone ==
  ASSUME OneRefresher, RollbackInv, NEW p \in Processes \ Gets,
         ~At(p, "Idle") \/ Start(p) \/ Post(p)
  PROVE  /\ \/ p = Agent /\ fio[Agent] = NoUpdater
            \/ p \in Posts /\ fio[Agent] # NoUpdater
         /\ \A q \in Processes \ Gets : q # p => At(q, "Idle")
         /\ Program(p) = Agent /\ Programs = {Agent}
<1>1. Programs = {Agent} /\ Processes = {Agent} \cup Posts \cup Gets /\ Agent \notin Posts
  BY TufAgentAssumption DEF OneRefresher, Programs, Processes, Refreshers
<1>2. \/ p = Agent /\ fio[Agent] = NoUpdater
      \/ p \in Posts /\ fio[Agent] # NoUpdater
  BY <1>1 DEF RollbackInv, Running, Start, Post
<1>3. \A q \in Processes \ Gets : q # p => At(q, "Idle")
  BY <1>1, <1>2 DEF RollbackInv, Running, OneRefresher
<1>4. QED
  BY <1>1, <1>2, <1>3 DEF Program, OneRefresher

(***************************************************************************)
(* What a step of the process that refreshes has to show.                  *)
(***************************************************************************)
LEMMA RefresherStep ==
  ASSUME OneRefresher, RollbackInv, OwnInv', NEW p \in Processes \ Gets,
         \A q \in Processes \ Gets : q # p => At(q, "Idle"),
         \A q \in Processes : q # p => proc'[q] = proc[q],
         seen' = seen,
         Running', Progress(p)', Latest',
         NotOlder(disk', disk),
         \A u \in Updaters : NotOlder(disk', heap'[u]),
         \A g \in Gets : ~At(g, "Idle") =>
           /\ heap'[proc[g].up].root >= heap[proc[g].up].root
           /\ \/ heap'[proc[g].up].version = heap[proc[g].up].version
              \/ heap'[proc[g].up].version >= disk.version
  PROVE  RollbackInv' /\ Forward
<1>1. TypeOK /\ TypeOK'
  BY DEF RollbackInv, OwnInv
<1>2. ASSUME NEW q \in Processes \ Gets PROVE Progress(q)'
  BY <1>2 DEF Progress, At, Refreshing
<1>3. ASSUME NEW q \in Processes PROVE Given(q)'
  <2>1. seen[q] \in Metadata /\ disk \in Metadata /\ disk' \in Metadata
    BY <1>1 DEF TypeOK
  <2>2. NotOlder(disk', seen'[q])
    BY <2>1 DEF RollbackInv, Given, NotOlder, Metadata
  <2>3. ASSUME q \in Gets, ~At(q, "Idle")
        PROVE  /\ heap'[proc[q].up].root >= seen[q].root
               /\ heap'[proc[q].up].version = 0 \/ heap'[proc[q].up].version >= seen[q].version
    <3>1. proc[q].up \in Updaters
      BY <1>1, <2>3 DEF RollbackInv, OwnInv, Roles, TypeOK, At, HasUpdater, Process
    <3>2. heap[proc[q].up] \in Metadata /\ heap'[proc[q].up] \in Metadata
      BY <1>1, <3>1 DEF TypeOK
    <3>3. /\ heap[proc[q].up].root >= seen[q].root
          /\ heap[proc[q].up].version = 0 \/ heap[proc[q].up].version >= seen[q].version
          /\ disk.version >= seen[q].version
      BY <2>3 DEF RollbackInv, Given, NotOlder
    <3>4. QED
      BY <2>1, <2>3, <3>2, <3>3 DEF Metadata
  <2>4. QED
    BY <2>2, <2>3 DEF Given, At
<1>4. Forward
  BY <1>1, NotOlderSelf DEF Forward
<1>5. QED
  BY <1>2, <1>3, <1>4 DEF RollbackInv

LEMMA RollbackCaller ==
  ASSUME OneRefresher, RollbackInv, NEW p \in Processes, Start(p) \/ Post(p)
  PROVE  RollbackInv' /\ Forward
<1>1. TypeOK /\ OwnInv'
  BY OwnCaller DEF RollbackInv, OwnInv
<1>2. p \in Processes \ Gets
  BY TufAgentAssumption DEF Start, Post, Programs, Refreshers
<1>3. PICK function \in {"NewFioTuf", "RefreshTuf"} :
        Call(p, function) /\ (Start(p) => function = "NewFioTuf")
  BY DEF Start, Post
<1>4. /\ proc'[p].pc = "ReadRoot" /\ proc'[p].task = function
      /\ \A q \in Processes : q # p => proc'[q] = proc[q]
  BY <1>1, <1>3, CallType DEF TypeOK
<1>5. UNCHANGED <<disk, heap, fio, seen>>
  BY DEF Start, Post
<1>6. Running'
  <2>1. Agent \in Processes /\ Posts \cup Gets \subseteq Processes /\ Agent \notin Posts \cup Gets
    BY TufAgentAssumption DEF Processes, Refreshers
  <2>2. \/ p = Agent /\ Start(p) /\ fio[Agent] = NoUpdater
        \/ p \in Posts /\ fio[Agent] # NoUpdater
    BY <1>2, <2>1, Alone DEF Start, Post
  <2>3. Running
    BY DEF RollbackInv
  <2>4. CASE p = Agent /\ Start(p) /\ fio[Agent] = NoUpdater
    BY <1>3, <1>4, <1>5, <2>1, <2>3, <2>4 DEF Running, At
  <2>5. CASE p \in Posts /\ fio[Agent] # NoUpdater
    BY <1>4, <1>5, <2>1, <2>3, <2>5 DEF Running, At
  <2>6. QED
    BY <2>2, <2>4, <2>5
<1>7. Progress(p)' /\ Latest'
  BY <1>4, <1>5 DEF RollbackInv, Progress, Latest, At, Refreshing
<1>8. \A g \in Gets : ~At(g, "Idle") => heap[proc[g].up].root >= heap[proc[g].up].root
  BY <1>1 DEF TypeOK, RollbackInv, OwnInv, Roles, At, HasUpdater, Process, Metadata, Processes
<1>9. QED
  BY <1>1, <1>2, <1>4, <1>5, <1>6, <1>7, <1>8, Alone, NotOlderSelf, RefresherStep DEF RollbackInv

\* A step that leaves the updaters and the directory alone.
LEMMA RollbackQuiet ==
  ASSUME OneRefresher, RollbackInv, OwnInv', NEW p \in Processes \ Gets, ~At(p, "Idle"),
         \A q \in Processes : q # p => proc'[q] = proc[q],
         UNCHANGED <<disk, heap, seen>>,
         Running', Progress(p)', Latest'
  PROVE  RollbackInv' /\ Forward
<1>1. TypeOK
  BY DEF RollbackInv, OwnInv
<1>2. \A g \in Gets : ~At(g, "Idle") => heap[proc[g].up].root >= heap[proc[g].up].root
  BY <1>1 DEF TypeOK, RollbackInv, OwnInv, Roles, At, HasUpdater, Process, Metadata, Processes
<1>3. QED
  BY <1>1, <1>2, Alone, NotOlderSelf, RefresherStep DEF RollbackInv

\* The process that refreshes goes on, or is done.
LEMMA RunningStep ==
  ASSUME RollbackInv, NEW p \in Processes \ Gets, ~At(p, "Idle"),
         fio' = fio, proc'[p].pc = "Idle" \/ proc'[p].task = proc[p].task,
         \A q \in Processes : q # p => proc'[q] = proc[q]
  PROVE  Running'
<1>1. Agent \in Processes /\ Posts \cup Gets \subseteq Processes
  BY DEF Processes, Refreshers
<1>2. Running
  BY DEF RollbackInv
<1>3. QED
  BY <1>1, <1>2 DEF Running, At

\* A refresh that fails, and leaves the directory as it is or newer.
LEMMA RollbackReturn ==
  ASSUME OneRefresher, RollbackInv, OwnInv', NEW p \in Processes \ Gets, ~At(p, "Idle"),
         Return(p), UNCHANGED <<fio, seen, heap>>,
         NotOlder(disk', disk), Latest'
  PROVE  RollbackInv' /\ Forward
<1>1. TypeOK /\ TypeOK'
  BY DEF RollbackInv, OwnInv
<1>2. proc'[p].pc = "Idle" /\ \A q \in Processes : q # p => proc'[q] = proc[q]
  BY <1>1, OwnReturn
<1>3. Running'
  BY <1>2, RunningStep
<1>4. Progress(p)'
  BY <1>2 DEF Progress, At, Refreshing
<1>5. \A u \in Updaters : NotOlder(disk', heap'[u])
  BY <1>1 DEF RollbackInv, NotOlder, TypeOK, Metadata
<1>6. \A g \in Gets : ~At(g, "Idle") => heap[proc[g].up].root >= heap[proc[g].up].root
  BY <1>1 DEF TypeOK, RollbackInv, OwnInv, Roles, At, HasUpdater, Process, Metadata, Processes
<1>7. QED
  BY <1>2, <1>3, <1>4, <1>5, <1>6, Alone, RefresherStep

LEMMA RollbackReadRoot ==
  ASSUME OneRefresher, RollbackInv, NEW p \in Processes, ReadRoot(p)
  PROVE  RollbackInv' /\ Forward
<1>1. TypeOK /\ OwnInv'
  BY OwnReadRoot DEF RollbackInv, OwnInv
<1>2. p \in Processes \ Gets /\ ~At(p, "Idle")
  BY DEF RollbackInv, OwnInv, Roles, ReadRoot, At
<1>3. UNCHANGED <<disk, heap, fio, seen>>
  BY DEF ReadRoot
<1>4. Latest'
  BY <1>3 DEF RollbackInv, Latest
<1>5. CASE Return(p)
  BY <1>1, <1>2, <1>3, <1>4, <1>5, NotOlderSelf, RollbackReturn
<1>6. CASE TrustedRoot # 0 /\ proc' = [proc EXCEPT ![p].root = TrustedRoot, ![p].pc = "NewUpdater"]
  <2>1. /\ proc'[p].pc = "NewUpdater" /\ proc'[p].root = TrustedRoot
        /\ proc'[p].task = proc[p].task
        /\ \A q \in Processes : q # p => proc'[q] = proc[q]
    BY <1>1, <1>6 DEF TypeOK, Process
  <2>2. TrustedRoot' = TrustedRoot
    BY <1>3 DEF TrustedRoot
  <2>3. Progress(p)'
    BY <1>6, <2>1, <2>2 DEF Progress, At, Refreshing
  <2>4. Running'
    BY <1>2, <1>3, <2>1, RunningStep
  <2>5. QED
    BY <1>1, <1>2, <1>3, <1>4, <2>1, <2>3, <2>4, RollbackQuiet
<1>7. QED
  BY <1>5, <1>6 DEF ReadRoot, Fail

LEMMA RollbackNewUpdater ==
  ASSUME OneRefresher, RollbackInv, NEW p \in Processes, NewUpdater(p)
  PROVE  RollbackInv' /\ Forward
<1>1. TypeOK /\ OwnInv'
  BY OwnNewUpdater DEF RollbackInv, OwnInv
<1>2. p \in Processes \ Gets /\ ~At(p, "Idle")
  BY DEF RollbackInv, OwnInv, Roles, NewUpdater, At
<1>3. UNCHANGED <<fio, seen>>
  BY DEF NewUpdater
<1>4. CASE Return(p) /\ UNCHANGED <<disk, heap>>
  <2>1. Latest'
    BY <1>3, <1>4 DEF RollbackInv, Latest
  <2>2. QED
    BY <1>1, <1>2, <1>3, <1>4, <2>1, NotOlderSelf, RollbackReturn
<1>5. ASSUME NEW u \in Free, Allocate(u, proc[p].root),
             proc' = [proc EXCEPT ![p].up = u, ![p].pc = "Assign"],
             disk' = [disk EXCEPT !.root = proc[p].root]
      PROVE  RollbackInv' /\ Forward
  <2>1. /\ proc'[p].pc = "Assign" /\ proc'[p].up = u /\ proc'[p].task = proc[p].task
        /\ \A q \in Processes : q # p => proc'[q] = proc[q]
    BY <1>1, <1>5 DEF TypeOK, Process
  <2>2. proc[p].root = TrustedRoot /\ TrustedRoot # 0
    BY <1>2 DEF RollbackInv, Progress, NewUpdater
  <2>3. /\ disk'.root = TrustedRoot /\ disk'.version = disk.version
        /\ disk \in Metadata /\ TrustedRoot \in Nat /\ TrustedRoot >= disk.root
        /\ disk.root # 0 => TrustedRoot = disk.root
    BY <1>1, <1>5, <2>2, TufAgentAssumption DEF TypeOK, TrustedRoot, Metadata
  <2>4. u \in Updaters /\ heap'[u] = [root |-> TrustedRoot, version |-> 0]
    BY <1>5, <2>2 DEF Allocate, Free
  <2>5. \A v \in Updaters : v # u => heap'[v] = IF v \in Free THEN Nothing ELSE heap[v]
    BY <1>5 DEF Allocate
  <2>6. NotOlder(disk', disk)
    BY <2>3 DEF NotOlder, Metadata
  <2>7. ASSUME NEW v \in Updaters PROVE NotOlder(disk', heap'[v])
    <3>1. heap[v] \in Metadata /\ NotOlder(disk, heap[v])
      BY <1>1 DEF RollbackInv, TypeOK
    <3>2. heap'[v] \in {[root |-> TrustedRoot, version |-> 0], Nothing, heap[v]}
      BY <2>4, <2>5
    <3>3. QED
      BY <2>3, <3>1, <3>2 DEF NotOlder, Metadata, Nothing
  <2>8. \A g \in Gets : ~At(g, "Idle") => heap'[proc[g].up] = heap[proc[g].up]
                                         /\ heap[proc[g].up].root \in Nat
    <3>1. \A g \in Gets : g \in Processes /\ (~At(g, "Idle") => proc[g].up \in Updaters \ Free)
      BY <1>1, TufAgentAssumption DEF RollbackInv, OwnInv, Roles, TypeOK, At, HasUpdater,
                                      Process, Processes, Free
    <3>2. u \in Free
      OBVIOUS
    <3>3. \A v \in Updaters \ Free : heap'[v] = heap[v]
      BY <2>5, <3>2
    <3>4. QED
      BY <1>1, <3>1, <3>3 DEF TypeOK, Metadata
  <2>9. Latest'
    <3>1. fio[Agent] # NoUpdater => fio[Agent] \in Updaters \ Free
      BY <1>1 DEF TypeOK, Programs, Free
    <3>2. fio[Agent] # NoUpdater => heap'[fio[Agent]] = heap[fio[Agent]]
      BY <2>5, <3>1
    <3>3. Latest
      BY DEF RollbackInv
    <3>4. fio[Agent] # NoUpdater => disk'.root = disk.root
      BY <2>3, <3>3 DEF Latest
    <3>5. QED
      BY <1>3, <2>3, <3>2, <3>3, <3>4 DEF Latest
  <2>10. Progress(p)'
    BY <2>1, <2>2, <2>3, <2>4 DEF Progress, At, Refreshing
  <2>11. Running'
    BY <1>2, <1>3, <2>1, RunningStep
  <2>12. \A g \in Gets : ~At(g, "Idle") => heap'[proc[g].up].root >= heap[proc[g].up].root
    BY <2>8
  <2>13. QED
    BY <1>1, <1>2, <1>3, <2>1, <2>6, <2>7, <2>8, <2>9, <2>10, <2>11, <2>12, Alone, RefresherStep
<1>6. QED
  BY <1>4, <1>5 DEF NewUpdater, Fail

LEMMA RollbackAssign ==
  ASSUME OneRefresher, RollbackInv, NEW p \in Processes, AssignNew(p) \/ AssignRefresh(p)
  PROVE  RollbackInv' /\ Forward
<1>1. TypeOK /\ OwnInv'
  BY OwnAssign DEF RollbackInv, OwnInv
<1>2. p \in Processes \ Gets /\ At(p, "Assign") /\ ~At(p, "Idle")
  BY DEF RollbackInv, OwnInv, Roles, AssignNew, AssignRefresh, At
<1>3. UNCHANGED <<disk, heap, seen>> /\ SetUpdater(p)
  BY DEF AssignNew, AssignRefresh
<1>4. /\ p = Agent \/ p \in Posts
      /\ \A q \in Processes \ Gets : q # p => At(q, "Idle")
      /\ Program(p) = Agent /\ Programs = {Agent}
  BY <1>2, Alone
<1>5. proc[p].up # NoUpdater /\ fio'[Agent] = proc[p].up
  BY <1>1, <1>2, <1>3, <1>4 DEF SetUpdater, TypeOK, At, HasUpdater
<1>6. disk.root # 0 /\ heap[proc[p].up] = [root |-> disk.root, version |-> 0]
  BY <1>2 DEF RollbackInv, Progress
<1>7. Latest'
  BY <1>3, <1>5, <1>6 DEF Latest
<1>8. Agent \in Processes \ Gets /\ Posts \cup Gets \subseteq Processes /\ Agent \notin Posts
  BY TufAgentAssumption DEF Processes, Refreshers
<1>9. CASE Return(p)
  <2>1. proc'[p].pc = "Idle" /\ \A q \in Processes : q # p => proc'[q] = proc[q]
    BY <1>1, <1>9, OwnReturn
  <2>2. Running'
    BY <1>4, <1>5, <1>8, <2>1 DEF Running, At
  <2>3. Progress(p)'
    BY <2>1 DEF Progress, At, Refreshing
  <2>4. QED
    BY <1>1, <1>2, <1>3, <1>7, <2>1, <2>2, <2>3, RollbackQuiet
<1>10. CASE Goto(p, "LoadRoot") /\ proc[p].task = "RefreshTuf"
  <2>1. /\ proc'[p].pc = "LoadRoot" /\ proc'[p].up = proc[p].up
        /\ \A q \in Processes : q # p => proc'[q] = proc[q]
    BY <1>1, <1>5, <1>10, GotoFacts DEF Pcs
  <2>2. p # Agent
    BY <1>2, <1>10 DEF RollbackInv, Running
  <2>3. Running'
    BY <1>4, <1>5, <1>8, <2>1, <2>2 DEF Running, At
  <2>4. Progress(p)'
    BY <1>3, <1>5, <1>6, <2>1 DEF Progress, At, Refreshing
  <2>5. QED
    BY <1>1, <1>2, <1>3, <1>7, <2>1, <2>3, <2>4, RollbackQuiet
<1>11. p \notin Clients
  BY DEF OneRefresher
<1>12. QED
  BY <1>9, <1>10, <1>11 DEF AssignNew, AssignRefresh

\* What Refresh finds: the updater at hand is in place, and has no targets yet.
LEMMA RefreshFacts ==
  ASSUME OneRefresher, RollbackInv, NEW p \in Processes,
         LoadRoot(p) \/ LoadLocal(p) \/ Download(p)
  PROVE  /\ p \in Processes \ Gets /\ ~At(p, "Idle")
         /\ proc[p].up \in Updaters /\ proc[p].up = fio[Agent] /\ fio[Agent] # NoUpdater
         /\ heap[proc[p].up] = [root |-> disk.root, version |-> 0]
         /\ disk \in Metadata /\ Content(p) \in Metadata /\ disk.root # 0
         /\ At(p, "Download") => proc[p].base = disk.version
<1>1. TypeOK
  BY DEF RollbackInv, OwnInv
<1>2. p \in Processes \ Gets /\ ~At(p, "Idle") /\ proc[p].pc \in Refreshing
  BY DEF RollbackInv, OwnInv, Roles, LoadRoot, LoadLocal, Download, At, Refreshing
<1>3. proc[p].up \in Updaters /\ proc[p].up # NoUpdater
  BY <1>1, <1>2 DEF TypeOK, Refreshing, HasUpdater, Process
<1>4. /\ proc[p].up = fio[Agent] /\ heap[proc[p].up].version = 0
      /\ At(p, "Download") => proc[p].base = disk.version
  BY <1>2 DEF RollbackInv, Progress
<1>5. heap[proc[p].up].root = disk.root /\ disk.root # 0
  BY <1>3, <1>4 DEF RollbackInv, Latest
<1>6. heap[proc[p].up] \in Metadata
  BY <1>1, <1>3 DEF TypeOK
<1>7. heap[proc[p].up] = [root |-> disk.root, version |-> 0]
  BY <1>4, <1>5, <1>6 DEF Metadata
<1>8. QED
  BY <1>1, <1>2, <1>3, <1>4, <1>5, <1>7, ContentType DEF TypeOK

LEMMA RollbackLoadRoot ==
  ASSUME OneRefresher, RollbackInv, NEW p \in Processes, LoadRoot(p)
  PROVE  RollbackInv' /\ Forward
<1>1. TypeOK /\ OwnInv'
  BY OwnRefresh DEF RollbackInv, OwnInv
<1>2. /\ p \in Processes \ Gets /\ ~At(p, "Idle")
      /\ proc[p].up \in Updaters /\ proc[p].up = fio[Agent] /\ proc[p].up # NoUpdater
      /\ heap[proc[p].up] = [root |-> disk.root, version |-> 0]
      /\ disk \in Metadata /\ Content(p) \in Metadata /\ disk.root # 0
  BY RefreshFacts
<1>3. UNCHANGED <<fio, seen>>
  BY DEF LoadRoot
<1>4. CASE Return(p) /\ UNCHANGED <<disk, heap>>
  <2>1. Latest'
    BY <1>3, <1>4 DEF RollbackInv, Latest
  <2>2. QED
    BY <1>1, <1>2, <1>3, <1>4, <2>1, NotOlderSelf, RollbackReturn
<1>5. CASE /\ Goto(p, "LoadLocal")
           /\ IF Content(p).root > heap[proc[p].up].root
                THEN /\ heap' = [heap EXCEPT ![proc[p].up].root = Content(p).root]
                     /\ disk' = [disk EXCEPT !.root = Content(p).root]
                ELSE UNCHANGED <<heap, disk>>
  <2>1. /\ proc'[p].pc = "LoadLocal" /\ proc'[p].up = proc[p].up
        /\ proc'[p].task = proc[p].task
        /\ \A q \in Processes : q # p => proc'[q] = proc[q]
    BY <1>1, <1>2, <1>5, GotoFacts DEF Pcs
  <2>2. Running'
    BY <1>2, <1>3, <2>1, RunningStep
  <2>3. /\ heap'[proc[p].up] = [root |-> disk'.root, version |-> 0]
        /\ disk' \in Metadata /\ disk'.root >= disk.root /\ disk'.version = disk.version
        /\ disk'.root # 0
        /\ \A v \in Updaters : v # proc[p].up => heap'[v] = heap[v]
    BY <1>1, <1>2, <1>5 DEF TypeOK, Metadata
  <2>4. Progress(p)' /\ Latest'
    BY <1>2, <1>3, <2>1, <2>3 DEF Progress, Latest, At, Refreshing
  <2>5. NotOlder(disk', disk)
    BY <1>2, <2>3 DEF NotOlder, Metadata
  <2>6. ASSUME NEW v \in Updaters
        PROVE  /\ NotOlder(disk', heap'[v])
               /\ heap'[v].root >= heap[v].root /\ heap'[v].version = heap[v].version
    <3>1. heap[v] \in Metadata /\ NotOlder(disk, heap[v])
      BY <1>1 DEF RollbackInv, TypeOK
    <3>2. CASE v = proc[p].up
      BY <1>2, <2>3, <3>1, <3>2 DEF NotOlder, Metadata
    <3>3. CASE v # proc[p].up
      BY <1>2, <2>3, <3>1, <3>3 DEF NotOlder, Metadata
    <3>4. QED
      BY <3>2, <3>3
  <2>7. \A g \in Gets : ~At(g, "Idle") => proc[g].up \in Updaters
    BY <1>1, TufAgentAssumption DEF RollbackInv, OwnInv, Roles, TypeOK, At, HasUpdater, Process, Processes
  <2>8. QED
    BY <1>1, <1>2, <1>3, <2>1, <2>2, <2>4, <2>5, <2>6, <2>7, Alone, RefresherStep
<1>6. QED
  BY <1>4, <1>5 DEF LoadRoot, Fail

LEMMA RollbackLoadLocal ==
  ASSUME OneRefresher, RollbackInv, NEW p \in Processes, LoadLocal(p)
  PROVE  RollbackInv' /\ Forward
<1>1. TypeOK /\ OwnInv'
  BY OwnRefresh DEF RollbackInv, OwnInv
<1>2. /\ p \in Processes \ Gets /\ ~At(p, "Idle") /\ proc[p].up = fio[Agent]
      /\ heap[proc[p].up] = [root |-> disk.root, version |-> 0]
  BY RefreshFacts
<1>3. UNCHANGED <<disk, heap, fio, seen>>
  BY DEF LoadLocal
<1>4. /\ proc'[p].pc = "Download" /\ proc'[p].up = proc[p].up /\ proc'[p].base = disk.version
      /\ proc'[p].task = proc[p].task
      /\ \A q \in Processes : q # p => proc'[q] = proc[q]
  BY <1>1 DEF LoadLocal, LocalVersion, TypeOK, Process
<1>5. Running'
  BY <1>2, <1>3, <1>4, RunningStep
<1>6. Progress(p)' /\ Latest'
  BY <1>2, <1>3, <1>4 DEF RollbackInv, Progress, Latest, At, Refreshing
<1>7. QED
  BY <1>1, <1>2, <1>3, <1>4, <1>5, <1>6, RollbackQuiet

LEMMA RollbackDownload ==
  ASSUME OneRefresher, RollbackInv, NEW p \in Processes, Download(p)
  PROVE  RollbackInv' /\ Forward
<1>1. TypeOK /\ OwnInv'
  BY OwnRefresh DEF RollbackInv, OwnInv
<1>2. /\ p \in Processes \ Gets /\ ~At(p, "Idle")
      /\ proc[p].up \in Updaters /\ proc[p].up = fio[Agent] /\ proc[p].up # NoUpdater
      /\ heap[proc[p].up] = [root |-> disk.root, version |-> 0]
      /\ disk \in Metadata /\ Content(p) \in Metadata /\ disk.root # 0
      /\ proc[p].base = disk.version
  BY RefreshFacts DEF Download
<1>3. UNCHANGED <<fio, seen>> /\ Return(p)
  BY DEF Download, Fail, OneRefresher
<1>4. ASSUME Content(p).version >= proc[p].base, Store(p)
      PROVE  /\ disk'.version = Content(p).version /\ disk'.root = disk.root
             /\ disk' \in Metadata /\ NotOlder(disk', disk)
  BY <1>2, <1>4 DEF Store, Metadata, NotOlder
<1>5. CASE UNCHANGED heap /\ (UNCHANGED disk \/ (Content(p).version >= proc[p].base /\ Store(p)))
  <2>1. disk'.root = disk.root /\ NotOlder(disk', disk)
    BY <1>1, <1>4, <1>5, NotOlderSelf
  <2>2. Latest'
    BY <1>2, <1>3, <1>5, <2>1 DEF Latest
  <2>3. QED
    BY <1>1, <1>2, <1>3, <1>5, <2>1, <2>2, RollbackReturn
<1>6. CASE /\ Content(p).version >= proc[p].base /\ Store(p)
           /\ heap' = [heap EXCEPT ![proc[p].up].version = Content(p).version]
  <2>1. /\ disk'.version = Content(p).version /\ disk'.root = disk.root
        /\ disk' \in Metadata /\ NotOlder(disk', disk)
    BY <1>4, <1>6
  <2>2. /\ heap'[proc[p].up] = [root |-> disk'.root, version |-> disk'.version]
        /\ \A v \in Updaters : v # proc[p].up => heap'[v] = heap[v]
    BY <1>1, <1>2, <1>6, <2>1 DEF TypeOK, Metadata
  <2>3. proc'[p].pc = "Idle" /\ \A q \in Processes : q # p => proc'[q] = proc[q]
    BY <1>1, <1>3, OwnReturn
  <2>4. Running'
    BY <1>2, <1>3, <2>3, RunningStep
  <2>5. Progress(p)' /\ Latest'
    BY <1>2, <1>3, <2>1, <2>2, <2>3 DEF Progress, Latest, At, Refreshing
  <2>6. ASSUME NEW v \in Updaters
        PROVE  /\ NotOlder(disk', heap'[v])
               /\ heap'[v].root >= heap[v].root
               /\ heap'[v].version = heap[v].version \/ heap'[v].version >= disk.version
    <3>1. heap[v] \in Metadata /\ NotOlder(disk, heap[v])
      BY <1>1 DEF RollbackInv, TypeOK
    <3>2. CASE v = proc[p].up
      BY <1>2, <2>1, <2>2, <3>1, <3>2 DEF NotOlder, Metadata
    <3>3. CASE v # proc[p].up
      BY <1>2, <2>1, <2>2, <3>1, <3>3 DEF NotOlder, Metadata
    <3>4. QED
      BY <3>2, <3>3
  <2>7. \A g \in Gets : ~At(g, "Idle") => proc[g].up \in Updaters
    BY <1>1, TufAgentAssumption DEF RollbackInv, OwnInv, Roles, TypeOK, At, HasUpdater, Process, Processes
  <2>8. QED
    BY <1>1, <1>2, <1>3, <2>1, <2>3, <2>4, <2>5, <2>6, <2>7, Alone, RefresherStep
<1>7. QED
  BY <1>5, <1>6 DEF Download, Fail

\* A step of a handler of GET: nothing is refreshed.
LEMMA RollbackHandler ==
  ASSUME OneRefresher, RollbackInv, OwnInv', NEW p \in Gets,
         \A q \in Processes : q # p => proc'[q] = proc[q] /\ seen'[q] = seen[q],
         UNCHANGED <<disk, heap, fio>>,
         proc'[p].pc # "Idle" => fio[Agent] # NoUpdater,
         Given(p)', NotOlder(seen'[p], seen[p])
  PROVE  RollbackInv' /\ Forward
<1>1. TypeOK
  BY DEF RollbackInv, OwnInv
<1>2. /\ Agent \in Processes /\ Posts \cup Gets \subseteq Processes
      /\ p # Agent /\ p \notin Posts /\ p \in Processes
  BY TufAgentAssumption DEF Processes, Refreshers
<1>3. Running'
  <2>1. Running
    BY DEF RollbackInv
  <2>2. QED
    BY <1>2, <2>1 DEF Running, At
<1>4. \A q \in Processes \ Gets : proc'[q] = proc[q] /\ Progress(q)
  BY DEF RollbackInv
<1>5. \A q \in Processes \ Gets : Progress(q)'
  BY <1>4 DEF Progress, At, TrustedRoot
<1>6. Latest' /\ \A u \in Updaters : NotOlder(disk', heap'[u])
  BY DEF RollbackInv, Latest
<1>7. ASSUME NEW q \in Processes PROVE Given(q)' /\ NotOlder(seen'[q], seen[q])
  <2>1. CASE q = p
    BY <2>1
  <2>2. CASE q # p
    <3>1. Given(q) /\ NotOlder(seen[q], seen[q])
      BY <1>1, NotOlderSelf DEF RollbackInv
    <3>2. proc'[q] = proc[q] /\ seen'[q] = seen[q] /\ disk' = disk /\ heap' = heap
      BY <2>2
    <3>3. QED
      BY <3>1, <3>2 DEF Given, At
  <2>3. QED
    BY <2>1, <2>2
<1>8. QED
  BY <1>1, <1>3, <1>5, <1>6, <1>7, NotOlderSelf DEF RollbackInv, Forward

LEMMA RollbackGet ==
  ASSUME OneRefresher, RollbackInv, NEW p \in Processes, Get(p)
  PROVE  RollbackInv' /\ Forward
<1>1. TypeOK /\ OwnInv' /\ p \in Gets
  BY OwnGet DEF RollbackInv, OwnInv, Get
<1>2. /\ proc'[p].up = fio[Agent] /\ fio[Agent] # NoUpdater
      /\ \A q \in Processes : q # p => proc'[q] = proc[q]
  BY <1>1, GetFacts
<1>3. UNCHANGED <<disk, heap, fio, seen>>
  BY DEF Get
<1>4. /\ heap[fio[Agent]].root = disk.root
      /\ heap[fio[Agent]].version \in {0, disk.version}
      /\ NotOlder(disk, seen[p]) /\ seen[p] \in Metadata
  BY <1>1, <1>2 DEF RollbackInv, Latest, Given, TypeOK
<1>5. Given(p)'
  BY <1>2, <1>3, <1>4 DEF Given, NotOlder
<1>6. QED
  BY <1>1, <1>2, <1>3, <1>5, NotOlderSelf, RollbackHandler

LEMMA RollbackGiven ==
  ASSUME OneRefresher, RollbackInv, NEW p \in Processes, GetTargets(p) \/ GetRoot(p)
  PROVE  RollbackInv' /\ Forward
<1>1. p \in Gets
  BY DEF RollbackInv, OwnInv, Roles, Progress, GetTargets, GetRoot
<1>2. TypeOK /\ TypeOK' /\ OwnInv' /\ Asked(p) = proc[p].up
  BY <1>1, OwnGiven, TufAgentAssumption DEF RollbackInv, OwnInv, Refreshers
<1>3. UNCHANGED <<disk, heap, fio>> /\ Return(p)
  BY DEF GetTargets, GetRoot
<1>4. proc'[p].pc = "Idle" /\ \A q \in Processes : q # p => proc'[q] = proc[q]
  BY <1>2, <1>3, OwnReturn
<1>5. ~At(p, "Idle") /\ proc[p].up \in Updaters
  BY <1>2 DEF GetTargets, GetRoot, At, TypeOK, HasUpdater, Process
<1>6. /\ heap[proc[p].up] \in Metadata /\ seen[p] \in Metadata /\ disk \in Metadata
      /\ NotOlder(disk, heap[proc[p].up]) /\ NotOlder(disk, seen[p])
      /\ heap[proc[p].up].root >= seen[p].root
      /\ heap[proc[p].up].version = 0 \/ heap[proc[p].up].version >= seen[p].version
  BY <1>1, <1>2, <1>5 DEF RollbackInv, TypeOK, Given
<1>7. /\ NotOlder(disk, seen'[p]) /\ NotOlder(seen'[p], seen[p])
      /\ \A q \in Processes : q # p => seen'[q] = seen[q]
  <2>1. CASE GetTargets(p)
    BY <1>2, <1>6, <2>1 DEF GetTargets, TypeOK, NotOlder, Metadata
  <2>2. CASE GetRoot(p)
    BY <1>2, <1>6, <2>2 DEF GetRoot, TypeOK, NotOlder, Metadata
  <2>3. QED
    BY <2>1, <2>2
<1>8. Given(p)'
  BY <1>3, <1>4, <1>7 DEF Given, At
<1>9. QED
  BY <1>1, <1>2, <1>3, <1>4, <1>7, <1>8, RollbackHandler

LEMMA RollbackDies ==
  ASSUME OneRefresher, RollbackInv, NEW f \in Programs, Dies(f), faults' \in Nat
  PROVE  RollbackInv' /\ Forward
<1>1. TypeOK /\ OwnInv' /\ UNCHANGED <<disk, heap, seen>>
  BY OwnDies DEF RollbackInv, OwnInv, Dies
<1>2. f = Agent /\ \A p \in Processes : Program(p) = f
  BY DEF OneRefresher, Programs, Program
<1>3. Idle.pc = "Idle"
  BY DEF Idle
<1>4. \A p \in Processes : proc'[p].pc = "Idle"
  BY <1>2, <1>3 DEF Dies
<1>5. fio'[Agent] = NoUpdater
  BY <1>1, <1>2 DEF Dies, TypeOK
<1>6. Agent \in Processes /\ Posts \cup Gets \subseteq Processes
  BY DEF Processes, Refreshers
<1>7. Running' /\ Latest' /\ \A p \in Processes : Progress(p)'
  BY <1>4, <1>5, <1>6 DEF Running, Latest, Progress, At, Refreshing
<1>8. \A p \in Processes : Given(p)'
  BY <1>1, <1>4 DEF RollbackInv, Given, At
<1>9. \A u \in Updaters : NotOlder(disk', heap'[u])
  BY <1>1 DEF RollbackInv
<1>10. QED
  BY <1>1, <1>7, <1>8, <1>9, NotOlderSelf DEF RollbackInv, Forward

LEMMA RollbackNext ==
  ASSUME OneRefresher
  PROVE  RollbackInv /\ [Next]_vars => RollbackInv' /\ Forward
<1> SUFFICES ASSUME RollbackInv, [Next]_vars PROVE RollbackInv' /\ Forward
  OBVIOUS
<1>1. TypeOK
  BY DEF RollbackInv, OwnInv
<1>2. ASSUME NEW p \in Processes, Start(p) \/ Post(p) PROVE RollbackInv' /\ Forward
  BY <1>2, RollbackCaller
<1>3. ASSUME NEW p \in Processes, RefreshStep(p) PROVE RollbackInv' /\ Forward
  BY <1>3, RollbackReadRoot, RollbackNewUpdater, RollbackAssign, RollbackLoadRoot,
     RollbackLoadLocal, RollbackDownload DEF RefreshStep
<1>4. ASSUME NEW p \in Processes, GetStep(p) PROVE RollbackInv' /\ Forward
  BY <1>4, RollbackGet, RollbackGiven DEF GetStep
<1>5. ASSUME NEW p \in Processes, Crash(p) \/ MapRace(p) PROVE RollbackInv' /\ Forward
  <2>1. faults' \in Nat
    BY <1>1, <1>5, FaultType DEF Crash, MapRace
  <2>2. PICK f \in Programs : Dies(f)
    BY <1>5 DEF Crash, MapRace, Programs
  <2>3. QED
    BY <2>1, <2>2, RollbackDies
<1>6. CASE Publish \/ UNCHANGED vars
  <2>1. UNCHANGED <<disk, heap, fio, proc, seen>>
    BY <1>6 DEF Publish, vars
  <2>2. OwnInv'
    BY <1>6, OwnNext DEF RollbackInv, Next
  <2>3. QED
    BY <1>1, <2>1, <2>2, NotOlderSelf
       DEF RollbackInv, Running, Progress, Latest, Given, Forward, At, TrustedRoot
<1>7. QED
  BY <1>2, <1>3, <1>4, <1>5, <1>6 DEF Next, ProcessStep

(***************************************************************************)
(* Where refreshes come one at a time, neither what a process is given nor *)
(* what the directory holds ever gets older: whatever the bundles hold,    *)
(* whatever fails, and however often the agent is killed.  The invariant   *)
(* says why: the updater in place is always the last one made, the         *)
(* directory is as new as anything in memory, and a refresh knows all of   *)
(* it.                                                                     *)
(***************************************************************************)
THEOREM NoRollbackHolds ==
  ASSUME OneRefresher
  PROVE  Spec => NoRollback
<1>1. RollbackInv /\ [Next]_vars => RollbackInv' /\ Forward
  BY RollbackNext
<1>2. RollbackInv /\ [Next]_vars /\ RollbackInv'
        => [/\ \A p \in Processes : NotOlder(seen'[p], seen[p])
            /\ NotOlder(disk', disk)]_vars
  BY <1>1 DEF Forward
<1>3. QED
  BY <1>1, <1>2, RollbackInit, PTL DEF Spec, NoRollback
=============================================================================
