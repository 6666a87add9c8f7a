----------------------------- MODULE EventQueue -----------------------------
(***************************************************************************)
(* The table report_events and the clients that use it (package events):   *)
(* each saves events and, from time to time, flushes the table: it reads   *)
(* all the rows, posts them in one request, and deletes the rows up to the *)
(* highest id it has read.  No transaction spans the three, and nothing    *)
(* keeps two processes, say a run started by a timer and one started by    *)
(* hand, from flushing at the same time.                                   *)
(***************************************************************************)
EXTENDS Integers, FiniteSets

CONSTANTS
  Clients,       \* the processes that use the database
  FaultKinds,    \* what may go wrong: a subset of AllFaults
  MaxFaults,     \* bound on the number of faults of a behaviour
  MaxEvents      \* bound on the number of events saved

AllFaults == {"crash", "db", "lost", "refused"}

ASSUME EventQueueAssumption ==
  /\ FaultKinds \subseteq AllFaults
  /\ MaxFaults \in Nat /\ MaxEvents \in Nat

\* A device runs finitely many processes at a time.
ASSUME ClientsAssumption == IsFiniteSet(Clients)

VARIABLES
  table,      \* report_events: a set of rows
  saved,      \* the number of events saved: event n is the n-th
  received,   \* received[e]: how often the server has taken event e
  pc,         \* the next step of a client, "Idle" when it is not flushing
  sent,       \* evts of FlushEvents
  maxId,      \* maxId of FlushEvents
  faults,     \* the faults so far
  refused,    \* history variable: the events the server answered with an error
  overtaken   \* history variable: see Overtakes

clientVars == <<pc, sent, maxId>>
historyVars == <<refused, overtaken>>
vars == <<table, saved, received, clientVars, faults, historyVars>>

Events == 1 .. MaxEvents

Row == [id : Nat \ {0}, evt : Events]

TypeOK ==
  /\ table \subseteq Row
  /\ \A r, s \in table : r.id = s.id => r = s
  /\ saved \in 0 .. MaxEvents
  /\ received \in [Events -> Nat]
  /\ pc \in [Clients -> {"Idle", "SendEvent", "DeleteEvents"}]
  /\ sent \in [Clients -> SUBSET Events]
  /\ maxId \in [Clients -> Int]
  /\ faults \in Nat
  /\ refused \subseteq Events /\ overtaken \subseteq Events

Stored == {r.evt : r \in table}

Fault(kind) == kind \in FaultKinds /\ faults < MaxFaults /\ faults' = faults + 1

-----------------------------------------------------------------------------
\* Mutant of IsNextId: a new row is numbered by the rows there are.
IsNextIdByCount(id) == id = Cardinality(table) + 1

(***************************************************************************)
(* The id of a new row: INTEGER PRIMARY KEY without AUTOINCREMENT is one   *)
(* more than the highest id in the table, and 1 when the table is empty.   *)
(***************************************************************************)
IsNextId(id) ==
  /\ \A r \in table : r.id < id
  /\ id = 1 \/ \E r \in table : r.id = id - 1

\* A client that flushes has read the table, and its DELETE is going to reach
\* a row that gets this id now: ids start again when a table is emptied.
Overtakes(c, id) == pc[c] # "Idle" /\ id <= maxId[c]

\* A client saves events before it flushes, never in between.  A save that
\* fails leaves nothing behind.
SaveEvent(c) ==
  /\ pc[c] = "Idle" /\ saved < MaxEvents
  /\ saved' = saved + 1
  /\ \E id \in 1 .. (saved + 1) :
       /\ IsNextId(id)
       /\ table' = table \cup {[id |-> id, evt |-> saved + 1]}
       /\ overtaken' = IF \E d \in Clients : Overtakes(d, id)
                         THEN overtaken \cup {saved + 1} ELSE overtaken
  /\ UNCHANGED <<received, clientVars, faults, refused>>

\* Mutant of GetEvents: a single event is taken for none.
GetSeveralEvents(c) ==
  /\ pc[c] = "Idle" /\ Cardinality(table) > 1
  /\ sent' = [sent EXCEPT ![c] = Stored]
  /\ \E last \in table :
       /\ \A r \in table : r.id <= last.id
       /\ maxId' = [maxId EXCEPT ![c] = last.id]
  /\ pc' = [pc EXCEPT ![c] = "SendEvent"]
  /\ UNCHANGED <<table, saved, received, faults, historyVars>>

\* FlushEvents, up to SendEvent.  It returns when there is nothing to send.
GetEvents(c) ==
  /\ pc[c] = "Idle" /\ table # {}
  /\ sent' = [sent EXCEPT ![c] = Stored]
  /\ \E last \in table :
       /\ \A r \in table : r.id <= last.id
       /\ maxId' = [maxId EXCEPT ![c] = last.id]
  /\ pc' = [pc EXCEPT ![c] = "SendEvent"]
  /\ UNCHANGED <<table, saved, received, faults, historyVars>>

\* The server takes the events of the request.
Receive(c) ==
  received' = [e \in Events |-> IF e \in sent[c] THEN received[e] + 1 ELSE received[e]]

Goto(c, step) == pc' = [pc EXCEPT ![c] = step]

\* Mutant of SendEvent: err is dropped along with the status of the answer.
SendEventErrorDropped(c) ==
  /\ pc[c] = "SendEvent" /\ Goto(c, "DeleteEvents")
  /\ \/ Receive(c) /\ UNCHANGED <<faults, refused>>
     \/ UNCHANGED <<received, refused>> /\ Fault("lost")
  /\ UNCHANGED <<table, saved, sent, maxId, overtaken>>

(***************************************************************************)
(* The server takes the events; it answers with an error status, which is  *)
(* logged and no more, so that the events are deleted all the same; or no  *)
(* answer comes, whether or not it has taken them, and the flush is over.  *)
(***************************************************************************)
SendEvent(c) ==
  /\ pc[c] = "SendEvent"
  /\ \/ Receive(c) /\ Goto(c, "DeleteEvents") /\ UNCHANGED <<faults, refused>>
     \/ /\ Fault("refused") /\ refused' = refused \cup sent[c]
        /\ Goto(c, "DeleteEvents") /\ UNCHANGED received
     \/ /\ Fault("lost") /\ (Receive(c) \/ UNCHANGED received)
        /\ Goto(c, "Idle") /\ UNCHANGED refused
  /\ UNCHANGED <<table, saved, sent, maxId, overtaken>>

\* Mutant of DeleteEvents: the table is emptied.
DeleteAllEvents(c) ==
  /\ pc[c] = "DeleteEvents" /\ Goto(c, "Idle")
  /\ table' = {}
  /\ UNCHANGED <<saved, received, sent, maxId, faults, historyVars>>

\* Mutant of DeleteEvents: WHERE id < maxId.
DeleteEventsBelow(c) ==
  /\ pc[c] = "DeleteEvents" /\ Goto(c, "Idle")
  /\ table' = {r \in table : r.id >= maxId[c]}
  /\ UNCHANGED <<saved, received, sent, maxId, faults, historyVars>>

DeleteEvents(c) ==
  /\ pc[c] = "DeleteEvents" /\ Goto(c, "Idle")
  /\ \/ table' = {r \in table : r.id > maxId[c]} /\ UNCHANGED faults
     \/ UNCHANGED table /\ Fault("db")
  /\ UNCHANGED <<saved, received, sent, maxId, historyVars>>

\* The process dies; a request it has made may be under way.
Crash(c) ==
  /\ pc[c] # "Idle" /\ Fault("crash") /\ Goto(c, "Idle")
  /\ \/ UNCHANGED received
     \/ pc[c] = "SendEvent" /\ Receive(c)
  /\ UNCHANGED <<table, saved, sent, maxId, historyVars>>

-----------------------------------------------------------------------------
Init ==
  /\ table = {} /\ saved = 0
  /\ received = [e \in Events |-> 0]
  /\ pc = [c \in Clients |-> "Idle"]
  /\ sent = [c \in Clients |-> {}]
  /\ maxId = [c \in Clients |-> -1]
  /\ faults = 0
  /\ refused = {} /\ overtaken = {}

FlushStep(c) == GetEvents(c) \/ SendEvent(c) \/ DeleteEvents(c)

Next == \E c \in Clients : SaveEvent(c) \/ FlushStep(c) \/ Crash(c)

Spec == Init /\ [][Next]_vars

(***************************************************************************)
(* A flush that has begun goes on: a client is a single thread, and its    *)
(* calls return.  That a flush begins is not assumed, since a run may end  *)
(* before it: RunUpdateClient returns when the refresh or the choice of a  *)
(* target fails.                                                           *)
(***************************************************************************)
FairSpec == Spec /\ \A c \in Clients : WF_vars(SendEvent(c) \/ DeleteEvents(c))

-----------------------------------------------------------------------------
Received == {e \in Events : received[e] > 0}

(***************************************************************************)
(* An event that has been saved and is not stored any more was taken by    *)
(* the server, but for two cases: the server answered it with an error     *)
(* status, or it was saved while another client was flushing, which took   *)
(* its row for one that it had sent.                                       *)
(***************************************************************************)
LossExplained == 1 .. saved \subseteq Stored \cup Received \cup refused \cup overtaken

(***************************************************************************)
(* The server gets an event once for each client, and once more for each   *)
(* fault: a flush that ends well is the last to send its events.           *)
(***************************************************************************)
DuplicatesCostFaults == \A e \in Events : received[e] <= Cardinality(Clients) + faults

(***************************************************************************)
(* But for those two cases the table is an outbox: through crashes, lost   *)
(* answers and failures to delete, with flushes of several clients at      *)
(* once, any other event is deleted only when it has been delivered.       *)
(***************************************************************************)
Queue == INSTANCE Outbox WITH
           pending <- Stored, delivered <- Received, excused <- refused \cup overtaken

IsOutbox == Queue!Spec

\* The runs of some client get to FlushEvents again and again.
FlushesAgain == \E c \in Clients : WF_vars(GetEvents(c))

(***************************************************************************)
(* As long as the runs of one client get to their flush, no event stays in *)
(* the table for ever: it has been delivered by then, or is excused.  The  *)
(* flushes of other clients, which may come seldom, stop half-way or take  *)
(* one another's rows, do not keep it from that.                           *)
(***************************************************************************)
AtLeastOnce == FlushesAgain => Queue!Drains
=============================================================================
