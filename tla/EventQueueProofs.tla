-------------------------- MODULE EventQueueProofs --------------------------
(***************************************************************************)
(* Theorems about EventQueue, for any number of clients, events and        *)
(* faults: what a flush may lose, that the queue implements Outbox, that   *)
(* nothing is lost by one client whose server refuses nothing, and how     *)
(* often an event may be sent.                                             *)
(***************************************************************************)
EXTENDS EventQueue, FiniteSetTheorems, TLAPS

-----------------------------------------------------------------------------
(* Types                                                                   *)

(***************************************************************************)
(* The server takes the events of a request: counts only go up.            *)
(***************************************************************************)
LEMMA ReceiveGrows ==
  ASSUME TypeOK, NEW c \in Clients, Receive(c)
  PROVE  /\ received' \in [Events -> Nat]
         /\ Received' = Received \cup sent[c]
<1>1. sent[c] \subseteq Events
  BY DEF TypeOK
<1>2. \A e \in Events : received[e] \in Nat
  BY DEF TypeOK
<1>3. received' \in [Events -> Nat]
  BY <1>2 DEF Receive
<1>4. \A e \in Events : received'[e] = IF e \in sent[c] THEN received[e] + 1 ELSE received[e]
  BY DEF Receive
<1>5. \A e \in Events : received'[e] > 0 <=> e \in Received \cup sent[c]
  BY <1>2, <1>4 DEF Received
<1>6. QED
  BY <1>1, <1>3, <1>5 DEF Received

(***************************************************************************)
(* A new row gets an id above all the others.                              *)
(***************************************************************************)
LEMMA SaveType ==
  ASSUME TypeOK, NEW c \in Clients, SaveEvent(c)
  PROVE  TypeOK'
<1>1. PICK id \in 1 .. (saved + 1) :
        /\ IsNextId(id)
        /\ table' = table \cup {[id |-> id, evt |-> saved + 1]}
        /\ overtaken' = IF \E d \in Clients : Overtakes(d, id)
                          THEN overtaken \cup {saved + 1} ELSE overtaken
  BY DEF SaveEvent
<1>2. saved \in 0 .. MaxEvents /\ saved < MaxEvents /\ saved' = saved + 1 /\ MaxEvents \in Nat
  BY EventQueueAssumption DEF SaveEvent, TypeOK
<1>3. saved + 1 \in Events /\ saved' \in 0 .. MaxEvents /\ id \in Nat \ {0}
  BY <1>2 DEF Events
<1>4. table' \subseteq Row
  BY <1>1, <1>3 DEF Row, TypeOK
<1>5. \A r, s \in table' : r.id = s.id => r = s
  <2>1. \A r \in table : r.id < id
    BY <1>1 DEF IsNextId
  <2>2. \A r \in table : r.id \in Nat
    BY DEF TypeOK, Row
  <2>3. \A r \in table' : r \in table \/ r = [id |-> id, evt |-> saved + 1]
    BY <1>1
  <2>4. QED
    BY <1>3, <2>1, <2>2, <2>3 DEF TypeOK
<1>6. overtaken' \subseteq Events
  BY <1>1, <1>2, <1>3 DEF TypeOK
<1>7. UNCHANGED <<received, pc, sent, maxId, faults, refused>>
  BY DEF SaveEvent, clientVars
<1>8. QED
  BY <1>3, <1>4, <1>5, <1>6, <1>7 DEF TypeOK

LEMMA GetType ==
  ASSUME TypeOK, NEW c \in Clients, GetEvents(c)
  PROVE  TypeOK'
<1>1. Stored \subseteq Events
  BY DEF TypeOK, Row, Stored
<1>2. \A last \in table : last.id \in Int
  BY DEF TypeOK, Row
<1>3. sent' \in [Clients -> SUBSET Events] /\ maxId' \in [Clients -> Int]
  BY <1>1, <1>2 DEF GetEvents, TypeOK
<1>4. pc' \in [Clients -> {"Idle", "SendEvent", "DeleteEvents"}]
  BY DEF GetEvents, TypeOK
<1>5. QED
  BY <1>3, <1>4 DEF GetEvents, TypeOK, historyVars

LEMMA SendType ==
  ASSUME TypeOK, NEW c \in Clients, SendEvent(c)
  PROVE  TypeOK'
<1>1. received' \in [Events -> Nat]
  BY ReceiveGrows DEF SendEvent, TypeOK
<1>2. pc' \in [Clients -> {"Idle", "SendEvent", "DeleteEvents"}]
  BY DEF SendEvent, Goto, TypeOK
<1>3. faults' \in Nat /\ refused' \subseteq Events
  BY DEF SendEvent, Fault, TypeOK
<1>4. UNCHANGED <<table, saved, sent, maxId, overtaken>>
  BY DEF SendEvent
<1>5. QED
  BY <1>1, <1>2, <1>3, <1>4 DEF TypeOK

LEMMA DeleteType ==
  ASSUME TypeOK, NEW c \in Clients, DeleteEvents(c)
  PROVE  TypeOK'
<1>1. table' \subseteq table
  BY DEF DeleteEvents
<1>2. pc' \in [Clients -> {"Idle", "SendEvent", "DeleteEvents"}]
  BY DEF DeleteEvents, Goto, TypeOK
<1>3. faults' \in Nat
  BY DEF DeleteEvents, Fault, TypeOK
<1>4. QED
  BY <1>1, <1>2, <1>3 DEF DeleteEvents, TypeOK, historyVars

LEMMA CrashType ==
  ASSUME TypeOK, NEW c \in Clients, Crash(c)
  PROVE  TypeOK'
<1>1. received' \in [Events -> Nat]
  BY ReceiveGrows DEF Crash, TypeOK
<1>2. pc' \in [Clients -> {"Idle", "SendEvent", "DeleteEvents"}] /\ faults' \in Nat
  BY DEF Crash, Goto, Fault, TypeOK
<1>3. QED
  BY <1>1, <1>2 DEF Crash, TypeOK, historyVars

LEMMA InitType == Init => TypeOK
  BY EventQueueAssumption DEF Init, TypeOK, Events, Row

LEMMA NextType == TypeOK /\ [Next]_vars => TypeOK'
<1> SUFFICES ASSUME TypeOK, [Next]_vars PROVE TypeOK'
  OBVIOUS
<1>1. ASSUME NEW c \in Clients, SaveEvent(c) PROVE TypeOK'
  BY <1>1, SaveType
<1>2. ASSUME NEW c \in Clients, GetEvents(c) PROVE TypeOK'
  BY <1>2, GetType
<1>3. ASSUME NEW c \in Clients, SendEvent(c) PROVE TypeOK'
  BY <1>3, SendType
<1>4. ASSUME NEW c \in Clients, DeleteEvents(c) PROVE TypeOK'
  BY <1>4, DeleteType
<1>5. ASSUME NEW c \in Clients, Crash(c) PROVE TypeOK'
  BY <1>5, CrashType
<1>6. CASE UNCHANGED vars
  BY <1>6 DEF vars, clientVars, historyVars, TypeOK
<1>7. QED
  BY <1>1, <1>2, <1>3, <1>4, <1>5, <1>6 DEF Next, FlushStep

(***************************************************************************)
(* Every reachable state is type correct; in particular no two rows have   *)
(* one id, whatever was deleted before (PRIMARY KEY of report_events).     *)
(***************************************************************************)
THEOREM QueueTypeCorrect == Spec => []TypeOK
<1>1. QED
  BY InitType, NextType, PTL DEF Spec

-----------------------------------------------------------------------------
(* What a flush may lose                                                   *)

\* What a client that flushes knows: the rows that its DELETE reaches are
\* those that it has read, and those that were overtaken meanwhile.
Covered(c) ==
  /\ sent[c] \subseteq 1 .. saved
  /\ \A r \in table : r.id <= maxId[c] => r.evt \in sent[c] \cup overtaken

SentTaken(c) == pc[c] = "DeleteEvents" => sent[c] \subseteq Received \cup refused

LossInv ==
  /\ TypeOK
  /\ Stored \subseteq 1 .. saved
  /\ \A c \in Clients : pc[c] # "Idle" => Covered(c) /\ SentTaken(c)
  /\ LossExplained

LEMMA LossInit == Init => LossInv
  BY InitType, EventQueueAssumption
  DEF Init, LossInv, LossExplained, Stored

LEMMA NewRowStored ==
  ASSUME NEW id, NEW evt, table' = table \cup {[id |-> id, evt |-> evt]}
  PROVE  Stored' = Stored \cup {evt}
<1>1. [id |-> id, evt |-> evt].evt = evt
  OBVIOUS
<1>2. \A e : (\E r \in table' : r.evt = e) <=> (\E r \in table : r.evt = e) \/ e = evt
  BY <1>1, Zenon
<1>3. QED
  BY <1>2 DEF Stored

LEMMA LossSave ==
  ASSUME LossInv, NEW c \in Clients, SaveEvent(c)
  PROVE  LossInv'
<1>1. TypeOK /\ TypeOK'
  BY SaveType DEF LossInv
<1>2. PICK id \in 1 .. (saved + 1) :
        /\ IsNextId(id)
        /\ table' = table \cup {[id |-> id, evt |-> saved + 1]}
        /\ overtaken' = IF \E d \in Clients : Overtakes(d, id)
                          THEN overtaken \cup {saved + 1} ELSE overtaken
  BY DEF SaveEvent
<1>3. saved \in Nat /\ saved' = saved + 1
  BY <1>1 DEF SaveEvent, TypeOK
<1>4. UNCHANGED <<received, pc, sent, maxId, faults, refused>>
  BY DEF SaveEvent, clientVars
<1>5. overtaken \subseteq overtaken'
  BY <1>2
<1>6. Stored' = Stored \cup {saved + 1}
  BY <1>2, NewRowStored
<1>7. Stored' \subseteq 1 .. saved'
  BY <1>3, <1>6 DEF LossInv
<1>8. ASSUME NEW d \in Clients, pc'[d] # "Idle"
       PROVE  Covered(d)' /\ SentTaken(d)'
  <2>1. Covered(d) /\ SentTaken(d)
    BY <1>4, <1>8 DEF LossInv
  <2>2. sent'[d] \subseteq 1 .. saved'
    BY <1>3, <1>4, <2>1 DEF Covered
  <2>3. ASSUME NEW r \in table', r.id <= maxId'[d]
        PROVE  r.evt \in sent'[d] \cup overtaken'
    <3>1. CASE r \in table
      BY <1>4, <1>5, <2>1, <2>3, <3>1 DEF Covered
    <3>2. CASE r = [id |-> id, evt |-> saved + 1]
      <4>1. Overtakes(d, id)
        BY <1>4, <1>8, <2>3, <3>2 DEF Overtakes
      <4>2. QED
        BY <1>2, <3>2, <4>1
    <3>3. QED
      BY <1>2, <3>1, <3>2
  <2>4. QED
    BY <1>4, <2>1, <2>2, <2>3 DEF Covered, SentTaken, Received
<1>9. LossExplained'
  <2>1. 1 .. saved' = (1 .. saved) \cup {saved + 1}
    BY <1>3
  <2>2. Received' = Received
    BY <1>4 DEF Received
  <2>3. QED
    BY <1>4, <1>5, <1>6, <2>1, <2>2 DEF LossExplained, LossInv
<1>10. QED
  BY <1>1, <1>7, <1>8, <1>9 DEF LossInv

LEMMA LossGet ==
  ASSUME LossInv, NEW c \in Clients, GetEvents(c)
  PROVE  LossInv'
<1>1. TypeOK /\ TypeOK'
  BY GetType DEF LossInv
<1>2. UNCHANGED <<table, saved, received, faults, refused, overtaken>>
  BY DEF GetEvents, historyVars
<1>3. /\ sent' = [sent EXCEPT ![c] = Stored]
      /\ pc' = [pc EXCEPT ![c] = "SendEvent"]
  BY DEF GetEvents
<1>4. PICK last \in table : maxId' = [maxId EXCEPT ![c] = last.id]
  BY DEF GetEvents
<1>5. ASSUME NEW d \in Clients, pc'[d] # "Idle"
      PROVE  Covered(d)' /\ SentTaken(d)'
  <2>1. CASE d = c
    <3>1. sent'[c] = Stored /\ pc'[c] = "SendEvent"
      BY <1>1, <1>3 DEF TypeOK
    <3>2. \A r \in table : r.evt \in Stored
      BY DEF Stored
    <3>3. Stored \subseteq 1 .. saved
      BY DEF LossInv
    <3>4. QED
      BY <1>2, <2>1, <3>1, <3>2, <3>3 DEF Covered, SentTaken
  <2>2. CASE d # c
    <3>1. pc'[d] = pc[d] /\ sent'[d] = sent[d] /\ maxId'[d] = maxId[d]
      BY <1>1, <1>3, <1>4, <2>2 DEF TypeOK
    <3>2. Covered(d) /\ SentTaken(d)
      BY <1>5, <3>1 DEF LossInv
    <3>3. QED
      BY <1>2, <3>1, <3>2 DEF Covered, SentTaken, Received
  <2>3. QED
    BY <2>1, <2>2
<1>6. QED
  BY <1>1, <1>2, <1>5 DEF LossInv, LossExplained, Stored, Received

(***************************************************************************)
(* A step that moves a client on, and may add to what the server has       *)
(* received or refused, but leaves the table alone.                        *)
(***************************************************************************)
LEMMA LossMove ==
  ASSUME LossInv, TypeOK', NEW c \in Clients, NEW step, Goto(c, step),
         UNCHANGED <<table, saved, sent, maxId, overtaken>>,
         Received \cup refused \subseteq Received' \cup refused',
         pc[c] # "Idle",
         step = "DeleteEvents" => sent[c] \subseteq Received' \cup refused'
  PROVE  LossInv'
<1>1. ASSUME NEW d \in Clients, pc'[d] # "Idle"
      PROVE  Covered(d)' /\ SentTaken(d)'
  <2>1. CASE d = c
    <3>1. pc'[d] = step
      BY <2>1 DEF Goto, LossInv, TypeOK
    <3>2. Covered(d)
      BY <2>1 DEF LossInv
    <3>3. QED
      BY <2>1, <3>1, <3>2 DEF Covered, SentTaken
  <2>2. CASE d # c
    <3>1. pc'[d] = pc[d]
      BY <2>2 DEF Goto, LossInv, TypeOK
    <3>2. Covered(d) /\ SentTaken(d)
      BY <1>1, <3>1 DEF LossInv
    <3>3. QED
      BY <3>1, <3>2 DEF Covered, SentTaken
  <2>3. QED
    BY <2>1, <2>2
<1>2. LossExplained'
  BY DEF LossInv, LossExplained, Stored
<1>3. QED
  BY <1>1, <1>2 DEF LossInv, Stored

LEMMA LossSend ==
  ASSUME LossInv, NEW c \in Clients, SendEvent(c)
  PROVE  LossInv'
<1>1. TypeOK /\ TypeOK'
  BY SendType DEF LossInv
<1>2. UNCHANGED <<table, saved, sent, maxId, overtaken>> /\ pc[c] # "Idle"
  BY DEF SendEvent
<1>3. CASE Receive(c) /\ Goto(c, "DeleteEvents") /\ UNCHANGED refused
  BY <1>1, <1>2, <1>3, ReceiveGrows, LossMove
<1>4. CASE refused' = refused \cup sent[c] /\ Goto(c, "DeleteEvents") /\ UNCHANGED received
  BY <1>1, <1>2, <1>4, LossMove DEF Received
<1>5. CASE Receive(c) /\ Goto(c, "Idle") /\ UNCHANGED refused
  BY <1>1, <1>2, <1>5, ReceiveGrows, LossMove
<1>6. CASE UNCHANGED received /\ Goto(c, "Idle") /\ UNCHANGED refused
  BY <1>1, <1>2, <1>6, LossMove DEF Received
<1>7. QED
  BY <1>3, <1>4, <1>5, <1>6 DEF SendEvent

LEMMA LossCrash ==
  ASSUME LossInv, NEW c \in Clients, Crash(c)
  PROVE  LossInv'
<1>1. TypeOK /\ TypeOK'
  BY CrashType DEF LossInv
<1>2. /\ UNCHANGED <<table, saved, sent, maxId, overtaken>>
      /\ pc[c] # "Idle" /\ Goto(c, "Idle") /\ UNCHANGED refused
  BY DEF Crash, historyVars
<1>3. CASE UNCHANGED received
  BY <1>1, <1>2, <1>3, LossMove DEF Received
<1>4. CASE Receive(c)
  BY <1>1, <1>2, <1>4, ReceiveGrows, LossMove
<1>5. QED
  BY <1>3, <1>4 DEF Crash

LEMMA LossDelete ==
  ASSUME LossInv, NEW c \in Clients, DeleteEvents(c)
  PROVE  LossInv'
<1>1. TypeOK /\ TypeOK'
  BY DeleteType DEF LossInv
<1>2. /\ UNCHANGED <<saved, received, sent, maxId, refused, overtaken>>
      /\ Goto(c, "Idle")
  BY DEF DeleteEvents, historyVars
<1>3. table' \subseteq table
  BY DEF DeleteEvents
<1>4. ASSUME NEW d \in Clients, pc'[d] # "Idle"
      PROVE  Covered(d)' /\ SentTaken(d)'
  <2>1. pc'[d] = pc[d]
    BY <1>1, <1>2, <1>4 DEF Goto, TypeOK
  <2>2. Covered(d) /\ SentTaken(d)
    BY <1>4, <2>1 DEF LossInv
  <2>3. QED
    BY <1>2, <1>3, <2>1, <2>2 DEF Covered, SentTaken, Received
<1>5. LossExplained'
  <2>1. Covered(c) /\ sent[c] \subseteq Received \cup refused
    BY DEF DeleteEvents, LossInv, SentTaken
  <2>2. ASSUME NEW r \in table, r \notin table'
        PROVE  r.evt \in Received \cup refused \cup overtaken
    <3>1. r.id <= maxId[c]
      BY <1>1, <2>2 DEF DeleteEvents, TypeOK, Row
    <3>2. QED
      BY <2>1, <3>1 DEF Covered
  <2>3. Stored \subseteq Stored' \cup Received \cup refused \cup overtaken
    BY <2>2 DEF Stored
  <2>4. QED
    BY <1>2, <2>3 DEF LossExplained, LossInv, Received
<1>6. QED
  BY <1>1, <1>2, <1>3, <1>4, <1>5 DEF LossInv, Stored

LEMMA LossInvHolds == Spec => []LossInv
<1>1. LossInv /\ [Next]_vars => LossInv'
  <2> SUFFICES ASSUME LossInv, [Next]_vars PROVE LossInv'
    OBVIOUS
  <2>1. ASSUME NEW c \in Clients, SaveEvent(c) \/ FlushStep(c) \/ Crash(c) PROVE LossInv'
    BY <2>1, LossSave, LossGet, LossSend, LossDelete, LossCrash DEF FlushStep
  <2>2. CASE UNCHANGED vars
    BY <2>2, NextType
    DEF vars, clientVars, historyVars, LossInv, LossExplained, Covered, SentTaken, Stored, Received
  <2>3. QED
    BY <2>1, <2>2 DEF Next
<1>2. QED
  BY LossInit, <1>1, PTL DEF Spec

(***************************************************************************)
(* Whatever crashes, fails and runs at the same time, an event that is     *)
(* gone from report_events without having reached the server was refused   *)
(* by it, or had been saved while another client was flushing (FlushEvents *)
(* and DeleteEvents).                                                      *)
(***************************************************************************)
THEOREM LossExplainedHolds == Spec => []LossExplained
<1>1. LossInv => LossExplained
  BY DEF LossInv
<1>2. QED
  BY LossInvHolds, <1>1, PTL

-----------------------------------------------------------------------------
(* The outbox                                                              *)

Excused == refused \cup overtaken

InvKnown == Stored \cup Received \cup Excused

\* Whatever the queue knows of has been saved.
KnownInv == LossInv /\ InvKnown \subseteq 1 .. saved

LEMMA KnownInit == Init => KnownInv /\ Queue!Init
  BY LossInit, EventQueueAssumption
  DEF Init, KnownInv, InvKnown, Excused, Queue!Init, Stored, Received

LEMMA SaveIsSave ==
  ASSUME KnownInv, NEW c \in Clients, SaveEvent(c)
  PROVE  InvKnown' \subseteq 1 .. saved' /\ saved + 1 \in Events /\ Queue!Save(saved + 1)
<1>1. PICK id \in 1 .. (saved + 1) :
        /\ table' = table \cup {[id |-> id, evt |-> saved + 1]}
        /\ overtaken' \in {overtaken, overtaken \cup {saved + 1}}
  BY DEF SaveEvent
<1>2. saved \in Nat /\ saved' = saved + 1 /\ saved + 1 \in Events
  BY EventQueueAssumption DEF SaveEvent, KnownInv, LossInv, TypeOK, Events
<1>3. Stored' = Stored \cup {saved + 1}
  BY <1>1, NewRowStored
<1>4. Received' = Received /\ refused' = refused
  BY DEF SaveEvent, Received
<1>5. Excused' \in {Excused, Excused \cup {saved + 1}}
  BY <1>1, <1>4 DEF Excused
<1>6. saved + 1 \notin InvKnown
  BY <1>2 DEF KnownInv
<1>7. InvKnown' \subseteq InvKnown \cup {saved + 1}
  BY <1>3, <1>4, <1>5 DEF InvKnown
<1>8. InvKnown' \subseteq 1 .. saved'
  BY <1>2, <1>7 DEF KnownInv
<1>9. QED
  BY <1>2, <1>3, <1>4, <1>5, <1>6, <1>8 DEF InvKnown, Excused, Queue!Save, Queue!Known

\* What a client that flushes has read is known, even if it is gone by now.
LEMMA SentKnown ==
  ASSUME KnownInv, NEW c \in Clients, pc[c] # "Idle"
  PROVE  sent[c] \subseteq InvKnown
BY DEF KnownInv, LossInv, Covered, LossExplained, InvKnown, Excused

QueueStep == Queue!Next \/ UNCHANGED <<Stored, Received, Excused>>

LEMMA ReceiveIsDeliver ==
  ASSUME KnownInv, NEW c \in Clients, pc[c] # "Idle", Receive(c),
         UNCHANGED <<table, refused, overtaken, saved>>
  PROVE  InvKnown' \subseteq 1 .. saved' /\ QueueStep
<1>1. sent[c] \subseteq InvKnown
  BY SentKnown
<1>2. Received' = Received \cup sent[c]
  BY ReceiveGrows DEF KnownInv, LossInv
<1>3. Stored' = Stored /\ Excused' = Excused
  BY DEF Stored, Excused
<1>4. Queue!Deliver(sent[c])
  BY <1>1, <1>2, <1>3 DEF Queue!Deliver, Queue!Known, InvKnown, Excused
<1>5. sent[c] \in SUBSET Queue!Known
  BY <1>1 DEF Queue!Known, InvKnown, Excused
<1>6. InvKnown' \subseteq 1 .. saved'
  BY <1>1, <1>2, <1>3 DEF KnownInv, InvKnown
<1>7. QED
  BY <1>4, <1>5, <1>6 DEF QueueStep, Queue!Next

LEMMA RefusedIsRefuse ==
  ASSUME KnownInv, NEW c \in Clients, pc[c] # "Idle", refused' = refused \cup sent[c],
         UNCHANGED <<table, received, overtaken, saved>>
  PROVE  InvKnown' \subseteq 1 .. saved' /\ QueueStep
<1>1. sent[c] \subseteq InvKnown
  BY SentKnown
<1>2. Stored' = Stored /\ Received' = Received /\ Excused' = Excused \cup sent[c]
  BY DEF Stored, Received, Excused
<1>3. Queue!Refuse(sent[c])
  BY <1>1, <1>2 DEF Queue!Refuse, Queue!Known, InvKnown, Excused
<1>4. sent[c] \in SUBSET Queue!Known
  BY <1>1 DEF Queue!Known, InvKnown, Excused
<1>5. InvKnown' \subseteq 1 .. saved'
  BY <1>1, <1>2 DEF KnownInv, InvKnown
<1>6. QED
  BY <1>3, <1>4, <1>5 DEF QueueStep, Queue!Next

LEMMA StutterIsStutter ==
  ASSUME KnownInv, UNCHANGED <<table, received, refused, overtaken, saved>>
  PROVE  InvKnown' \subseteq 1 .. saved' /\ QueueStep
BY DEF KnownInv, InvKnown, QueueStep, Excused, Stored, Received

LEMMA SendIsQueueStep ==
  ASSUME KnownInv, NEW c \in Clients, SendEvent(c)
  PROVE  InvKnown' \subseteq 1 .. saved' /\ QueueStep
<1>1. pc[c] # "Idle" /\ UNCHANGED <<table, overtaken, saved>>
  BY DEF SendEvent
<1>2. \/ Receive(c) /\ UNCHANGED refused
      \/ refused' = refused \cup sent[c] /\ UNCHANGED received
      \/ UNCHANGED <<received, refused>>
  BY DEF SendEvent
<1>3. QED
  BY <1>1, <1>2, ReceiveIsDeliver, RefusedIsRefuse, StutterIsStutter

LEMMA CrashIsQueueStep ==
  ASSUME KnownInv, NEW c \in Clients, Crash(c)
  PROVE  InvKnown' \subseteq 1 .. saved' /\ QueueStep
<1>1. pc[c] # "Idle" /\ UNCHANGED <<table, overtaken, saved, refused>>
  BY DEF Crash, historyVars
<1>2. Receive(c) \/ UNCHANGED received
  BY DEF Crash
<1>3. QED
  BY <1>1, <1>2, ReceiveIsDeliver, StutterIsStutter

LEMMA DeleteIsDiscard ==
  ASSUME KnownInv, NEW c \in Clients, DeleteEvents(c)
  PROVE  InvKnown' \subseteq 1 .. saved' /\ QueueStep
<1>1. TypeOK /\ Covered(c) /\ sent[c] \subseteq Received \cup refused
  BY DEF DeleteEvents, KnownInv, LossInv, SentTaken
<1>2. UNCHANGED <<received, refused, overtaken, saved>> /\ table' \subseteq table
  BY DEF DeleteEvents, historyVars
<1>3. Received' = Received /\ Excused' = Excused /\ Stored' \subseteq Stored
  BY <1>2 DEF Received, Excused, Stored
<1> DEFINE batch == Stored \ Stored'
<1>4. batch \subseteq Received \cup Excused
  <2>1. SUFFICES ASSUME NEW r \in table, r.evt \notin Stored'
                 PROVE  r.evt \in Received \cup Excused
    BY DEF Stored
  <2>2. r \notin table'
    BY <2>1 DEF Stored
  <2>3. r.id <= maxId[c]
    BY <1>1, <2>2 DEF DeleteEvents, TypeOK, Row
  <2>4. QED
    BY <1>1, <2>3 DEF Covered, Excused
<1>5. batch \subseteq Stored /\ Stored' = Stored \ batch
  BY <1>3
<1> HIDE DEF batch
<1>6. Queue!Discard(batch)
  BY <1>3, <1>4, <1>5 DEF Queue!Discard, Excused
<1>7. batch \in SUBSET Queue!Known
  BY <1>5 DEF Queue!Known
<1>8. InvKnown' \subseteq 1 .. saved'
  BY <1>2, <1>3 DEF KnownInv, InvKnown
<1>9. QED
  BY <1>6, <1>7, <1>8 DEF QueueStep, Queue!Next

(***************************************************************************)
(* With any number of clients and any faults, report_events is an outbox   *)
(* (FlushEvents): an event leaves the table only after it was delivered,   *)
(* refused, or overtaken by a flush that was under way when it was saved.  *)
(* That it is drained in the end, AtLeastOnce, is left to TLC.             *)
(***************************************************************************)
THEOREM QueueIsOutbox == Spec => IsOutbox
<1>1. KnownInv /\ LossInv' /\ [Next]_vars => KnownInv' /\ [Queue!Next]_(Queue!vars)
  <2> SUFFICES ASSUME KnownInv, LossInv', [Next]_vars
               PROVE  InvKnown' \subseteq 1 .. saved' /\ QueueStep
    BY DEF KnownInv, QueueStep, Queue!vars, Excused
  <2>1. ASSUME NEW c \in Clients, SaveEvent(c)
        PROVE  InvKnown' \subseteq 1 .. saved' /\ QueueStep
    BY <2>1, SaveIsSave DEF QueueStep, Queue!Next
  <2>2. ASSUME NEW c \in Clients, GetEvents(c)
        PROVE  InvKnown' \subseteq 1 .. saved' /\ QueueStep
    BY <2>2, StutterIsStutter DEF GetEvents, historyVars
  <2>3. CASE UNCHANGED vars
    BY <2>3, StutterIsStutter DEF vars, historyVars
  <2>4. QED
    BY <2>1, <2>2, <2>3, SendIsQueueStep, CrashIsQueueStep, DeleteIsDiscard
    DEF Next, FlushStep
<1>2. QED
  BY KnownInit, LossInvHolds, <1>1, PTL DEF Spec, IsOutbox, Queue!Spec

-----------------------------------------------------------------------------
(* One client and a server that refuses nothing                            *)

OneClient == \A c, d \in Clients : c = d

NothingRefused == "refused" \notin FaultKinds

NothingLost == 1 .. saved \subseteq Stored \cup Received

NothingExcused == refused = {} /\ overtaken = {}

(***************************************************************************)
(* One client cannot overtake itself: when the server answers no request   *)
(* with an error, every event that was saved is stored or was received,    *)
(* however often a flush fails or the client dies (FlushEvents).           *)
(***************************************************************************)
THEOREM OneClientLosesNothing ==
  ASSUME OneClient, NothingRefused
  PROVE  Spec => []NothingLost
<1>1. Init => NothingExcused
  BY DEF Init, NothingExcused
<1>2. NothingExcused /\ [Next]_vars => NothingExcused'
  <2> SUFFICES ASSUME NothingExcused, [Next]_vars PROVE NothingExcused'
    OBVIOUS
  <2> USE DEF NothingExcused, historyVars
  <2>1. ASSUME NEW c \in Clients, SaveEvent(c) PROVE NothingExcused'
    <3>1. \A d \in Clients : pc[d] = "Idle"
      BY <2>1 DEF SaveEvent, OneClient
    <3>2. \A id : \A d \in Clients : ~Overtakes(d, id)
      BY <3>1 DEF Overtakes
    <3>3. QED
      BY <2>1, <3>2 DEF SaveEvent
  <2>2. ASSUME NEW c \in Clients, FlushStep(c) PROVE NothingExcused'
    BY <2>2 DEF FlushStep, GetEvents, SendEvent, DeleteEvents, Fault, NothingRefused
  <2>3. ASSUME NEW c \in Clients, Crash(c) PROVE NothingExcused'
    BY <2>3 DEF Crash
  <2>4. CASE UNCHANGED vars
    BY <2>4 DEF vars
  <2>5. QED
    BY <2>1, <2>2, <2>3, <2>4 DEF Next
<1>3. NothingExcused /\ LossInv => NothingLost
  BY DEF NothingExcused, LossInv, LossExplained, NothingLost
<1>4. QED
  BY <1>1, <1>2, <1>3, LossInvHolds, PTL DEF Spec

-----------------------------------------------------------------------------
(* What UpdateClient takes from the queue                                  *)

\* A client that flushes is going to delete every row there is, and no other.
WholeTable(c) == sent[c] = Stored /\ \A r \in table : r.id <= maxId[c]

FlushesWhole == TypeOK /\ \A c \in Clients : pc[c] # "Idle" => WholeTable(c)

LEMMA FlushesWholeStep ==
  ASSUME OneClient, FlushesWhole, [Next]_vars
  PROVE  FlushesWhole'
<1>1. TypeOK /\ TypeOK'
  BY NextType DEF FlushesWhole
<1>2. CASE UNCHANGED vars
  BY <1>1, <1>2 DEF vars, clientVars, FlushesWhole, WholeTable, Stored
<1>3. ASSUME NEW c \in Clients, SaveEvent(c) \/ FlushStep(c) \/ Crash(c)
      PROVE  FlushesWhole'
  <2>1. \A d \in Clients : d = c
    BY DEF OneClient
  <2>2. SUFFICES ASSUME pc'[c] # "Idle" PROVE WholeTable(c)'
    BY <1>1, <2>1 DEF FlushesWhole
  <2>3. CASE SaveEvent(c) \/ DeleteEvents(c) \/ Crash(c)
    BY <1>1, <2>2, <2>3 DEF SaveEvent, DeleteEvents, Crash, Goto, clientVars, TypeOK
  <2>4. CASE GetEvents(c)
    <3>1. table' = table /\ sent'[c] = Stored
      BY <1>1, <2>4 DEF GetEvents, TypeOK
    <3>2. \A r \in table : r.id <= maxId'[c]
      BY <1>1, <2>4 DEF GetEvents, TypeOK
    <3> QED
      BY <3>1, <3>2 DEF WholeTable, Stored
  <2>5. CASE SendEvent(c)
    <3>1. table' = table /\ sent' = sent /\ maxId' = maxId /\ pc[c] = "SendEvent"
      BY <2>5 DEF SendEvent
    <3> QED
      BY <3>1 DEF FlushesWhole, WholeTable, Stored
  <2> QED
    BY <1>3, <2>3, <2>4, <2>5 DEF FlushStep
<1> QED
  BY <1>2, <1>3 DEF Next

FlushEmptiesTable ==
  [][\A c \in Clients : DeleteEvents(c) => table' = {} \/ faults < faults']_vars

(***************************************************************************)
(* With one client DELETE ... WHERE id <= maxId (DeleteEvents), when it    *)
(* works, empties the table: this is how UpdateClient has FlushEvents.     *)
(***************************************************************************)
THEOREM OneClientEmptiesTable ==
  ASSUME OneClient
  PROVE  Spec => FlushEmptiesTable
<1>1. Init => FlushesWhole
  BY InitType DEF Init, FlushesWhole
<1>2. FlushesWhole /\ [Next]_vars =>
        [\A c \in Clients : DeleteEvents(c) => table' = {} \/ faults < faults']_vars
  <2> SUFFICES ASSUME FlushesWhole, NEW c \in Clients, DeleteEvents(c)
               PROVE  table' = {} \/ faults < faults'
    OBVIOUS
  <2>1. TypeOK /\ \A r \in table : r.id <= maxId[c]
    BY DEF FlushesWhole, WholeTable, DeleteEvents
  <2>2. CASE table' = {r \in table : r.id > maxId[c]}
    BY <2>1, <2>2 DEF TypeOK, Row
  <2>3. CASE Fault("db")
    BY <2>1, <2>3 DEF Fault, TypeOK
  <2> QED
    BY <2>2, <2>3 DEF DeleteEvents
<1> QED
  BY <1>1, <1>2, FlushesWholeStep, PTL DEF Spec, FlushEmptiesTable

-----------------------------------------------------------------------------
(* How often an event is sent                                              *)

Flushing(e, step) == {c \in Clients : pc[c] = step /\ e \in sent[c]}

\* The clients that are about to send e, and those that are about to delete it.
Sending(e) == Flushing(e, "SendEvent")
Deleting(e) == Flushing(e, "DeleteEvents")

\* A DELETE reaches the rows of all the events that its client has sent.
Reached(c) == \A r \in table : r.evt \in sent[c] => r.id <= maxId[c]

\* A stored event was received at the cost of a fault, or by a client that is
\* about to delete it; a deleted one by clients that have read it before.
Counted(e) ==
  IF e \in Stored THEN received[e] <= faults + Cardinality(Deleting(e))
  ELSE received[e] + Cardinality(Sending(e)) <= faults + Cardinality(Clients)

CountInv ==
  /\ \A c \in Clients : pc[c] # "Idle" => Reached(c)
  /\ \A e \in Events : e > saved => received[e] = 0
  /\ \A e \in Events : Counted(e)

LEMMA ClientCounts ==
  ASSUME NEW e
  PROVE  /\ IsFiniteSet(Sending(e)) /\ IsFiniteSet(Deleting(e))
         /\ Cardinality(Sending(e)) \in Nat /\ Cardinality(Deleting(e)) \in Nat
         /\ Cardinality(Clients) \in Nat
         /\ Cardinality(Sending(e)) + Cardinality(Deleting(e)) <= Cardinality(Clients)
<1>1. Sending(e) \subseteq Clients /\ Deleting(e) \subseteq Clients
  BY DEF Sending, Deleting, Flushing
<1>2. Sending(e) \cap Deleting(e) = {}
  BY DEF Sending, Deleting, Flushing
<1>3. IsFiniteSet(Sending(e)) /\ IsFiniteSet(Deleting(e))
  BY <1>1, ClientsAssumption, FS_Subset
<1>4. /\ Cardinality(Sending(e)) \in Nat /\ Cardinality(Deleting(e)) \in Nat
      /\ Cardinality(Clients) \in Nat
  BY <1>3, ClientsAssumption, FS_CardinalityType
<1>5. Cardinality(Sending(e) \cup Deleting(e)) = Cardinality(Sending(e)) + Cardinality(Deleting(e))
  <2>1. Cardinality(Sending(e) \cap Deleting(e)) = 0
    BY <1>2, FS_EmptySet
  <2>2. Cardinality(Sending(e) \cup Deleting(e)) =
          Cardinality(Sending(e)) + Cardinality(Deleting(e)) - Cardinality(Sending(e) \cap Deleting(e))
    BY <1>3, FS_Union
  <2>3. QED
    BY <1>4, <2>1, <2>2
<1>6. Cardinality(Sending(e) \cup Deleting(e)) <= Cardinality(Clients)
  BY <1>1, ClientsAssumption, FS_Subset
<1>7. QED
  BY <1>3, <1>4, <1>5, <1>6

(***************************************************************************)
(* A client that flushes goes on to its next step, or stops.               *)
(***************************************************************************)
LEMMA FlushingMoves ==
  ASSUME TypeOK, NEW c \in Clients, NEW step, Goto(c, step), UNCHANGED sent,
         NEW e, NEW at
  PROVE  Flushing(e, at)' =
           IF step = at /\ e \in sent[c] THEN Flushing(e, at) \cup {c}
                                         ELSE Flushing(e, at) \ {c}
BY DEF Goto, TypeOK, Flushing

LEMMA CountsMove ==
  ASSUME TypeOK, NEW c \in Clients, NEW step, Goto(c, step), UNCHANGED sent,
         NEW e, NEW at
  PROVE  /\ Cardinality(Flushing(e, at)') \in Nat
         /\ Cardinality(Flushing(e, at)') =
              Cardinality(Flushing(e, at)) +
                (IF step = at /\ pc[c] # at /\ e \in sent[c] THEN 1 ELSE 0) -
                (IF step # at /\ pc[c] = at /\ e \in sent[c] THEN 1 ELSE 0)
<1> DEFINE old == Flushing(e, at)
           new == Flushing(e, at)'
<1>1. IsFiniteSet(old)
  <2>1. old \subseteq Clients
    BY DEF Flushing
  <2>2. QED
    BY <2>1, ClientsAssumption, FS_Subset
<1>2. c \in old <=> pc[c] = at /\ e \in sent[c]
  BY DEF Flushing
<1>3. new = IF step = at /\ e \in sent[c] THEN old \cup {c} ELSE old \ {c}
  BY FlushingMoves
<1> HIDE DEF old, new
<1>4. Cardinality(old) \in Nat
  BY <1>1, FS_CardinalityType
<1>5. /\ Cardinality(old \ {c}) = IF c \in old THEN Cardinality(old) - 1 ELSE Cardinality(old)
      /\ Cardinality(old \cup {c}) = IF c \in old THEN Cardinality(old) ELSE Cardinality(old) + 1
  BY <1>1, FS_AddElement, FS_RemoveElement
<1>6. IsFiniteSet(new)
  BY <1>1, <1>3, FS_AddElement, FS_RemoveElement
<1>7. Cardinality(new) \in Nat
  BY <1>6, FS_CardinalityType
<1>8. Cardinality(new) =
        Cardinality(old) + (IF step = at /\ pc[c] # at /\ e \in sent[c] THEN 1 ELSE 0) -
          (IF step # at /\ pc[c] = at /\ e \in sent[c] THEN 1 ELSE 0)
  <2>1. CASE step = at /\ e \in sent[c]
    <3>1. Cardinality(new) = IF c \in old THEN Cardinality(old) ELSE Cardinality(old) + 1
      BY <1>3, <1>5, <2>1
    <3>2. QED
      BY <1>2, <1>4, <2>1, <3>1
  <2>2. CASE ~(step = at /\ e \in sent[c])
    <3>1. Cardinality(new) = IF c \in old THEN Cardinality(old) - 1 ELSE Cardinality(old)
      BY <1>3, <1>5, <2>2
    <3>2. QED
      BY <1>2, <1>4, <2>2, <3>1
  <2>3. QED
    BY <2>1, <2>2
<1>9. QED
  BY <1>7, <1>8 DEF old, new

LEMMA CountSave ==
  ASSUME LossInv, CountInv, NEW c \in Clients, SaveEvent(c)
  PROVE  CountInv'
<1>1. PICK id \in 1 .. (saved + 1) :
        /\ IsNextId(id)
        /\ table' = table \cup {[id |-> id, evt |-> saved + 1]}
  BY DEF SaveEvent
<1>2. TypeOK /\ saved \in Nat /\ saved' = saved + 1
  BY DEF SaveEvent, LossInv, TypeOK
<1>3. UNCHANGED <<received, pc, sent, maxId, faults>>
  BY DEF SaveEvent, clientVars
<1>4. Stored' = Stored \cup {saved + 1}
  BY <1>1, NewRowStored
<1>5. ASSUME NEW d \in Clients, pc'[d] # "Idle"
      PROVE  Reached(d)'
  <2>1. Reached(d) /\ sent[d] \subseteq 1 .. saved
    BY <1>3, <1>5 DEF CountInv, LossInv, Covered
  <2>2. \A r \in table' : r.evt \in sent[d] => r \in table
    BY <1>1, <1>2, <2>1
  <2>3. QED
    BY <1>3, <2>1, <2>2 DEF Reached
<1>6. ASSUME NEW e \in Events
      PROVE  (e > saved' => received'[e] = 0) /\ Counted(e)'
  <2>1. e \in Int /\ faults \in Nat
    BY <1>2 DEF Events, TypeOK
  <2>2. Sending(e)' = Sending(e) /\ Deleting(e)' = Deleting(e)
    BY <1>3 DEF Sending, Deleting, Flushing
  <2>3. Cardinality(Deleting(e)) \in Nat
    BY ClientCounts
  <2>4. CASE e = saved + 1
    <3>1. received'[e] = 0
      BY <1>2, <1>3, <2>1, <2>4 DEF CountInv
    <3>2. e \in Stored'
      BY <1>4, <2>4
    <3>3. QED
      BY <1>3, <2>1, <2>2, <2>3, <3>1, <3>2 DEF Counted
  <2>5. CASE e # saved + 1
    <3>1. Counted(e) /\ (e > saved => received[e] = 0)
      BY DEF CountInv
    <3>2. e \in Stored' <=> e \in Stored
      BY <1>4, <2>5
    <3>3. QED
      BY <1>2, <1>3, <2>1, <2>2, <3>1, <3>2 DEF Counted
  <2>6. QED
    BY <2>4, <2>5
<1>7. QED
  BY <1>5, <1>6 DEF CountInv

LEMMA CountGet ==
  ASSUME LossInv, CountInv, NEW c \in Clients, GetEvents(c)
  PROVE  CountInv'
<1>1. TypeOK
  BY DEF LossInv
<1>2. UNCHANGED <<table, saved, received, faults>>
  BY DEF GetEvents
<1>3. /\ pc[c] = "Idle"
      /\ sent' = [sent EXCEPT ![c] = Stored]
      /\ pc' = [pc EXCEPT ![c] = "SendEvent"]
  BY DEF GetEvents
<1>4. PICK last \in table :
        /\ \A r \in table : r.id <= last.id
        /\ maxId' = [maxId EXCEPT ![c] = last.id]
  BY DEF GetEvents
<1>5. ASSUME NEW d \in Clients, pc'[d] # "Idle"
      PROVE  Reached(d)'
  <2>1. CASE d = c
    BY <1>1, <1>2, <1>4, <2>1 DEF Reached, TypeOK
  <2>2. CASE d # c
    <3>1. pc'[d] = pc[d] /\ sent'[d] = sent[d] /\ maxId'[d] = maxId[d]
      BY <1>1, <1>3, <1>4, <2>2 DEF TypeOK
    <3>2. Reached(d)
      BY <1>5, <3>1 DEF CountInv
    <3>3. QED
      BY <1>2, <3>1, <3>2 DEF Reached
  <2>3. QED
    BY <2>1, <2>2
<1>6. ASSUME NEW e \in Events
      PROVE  Counted(e)'
  <2>1. Stored' = Stored
    BY <1>2 DEF Stored
  <2>2. Deleting(e)' = Deleting(e)
    BY <1>1, <1>3 DEF Deleting, Flushing, TypeOK
  <2>3. e \notin Stored => Sending(e)' = Sending(e)
    BY <1>1, <1>3 DEF Sending, Flushing, TypeOK
  <2>4. Counted(e)
    BY DEF CountInv
  <2>5. QED
    BY <1>2, <2>1, <2>2, <2>3, <2>4 DEF Counted
<1>7. QED
  BY <1>2, <1>5, <1>6 DEF CountInv

(***************************************************************************)
(* What a step of a client that is flushing costs: it sends its events     *)
(* once, and it gets no further than that without a fault.                 *)
(***************************************************************************)
LEMMA CountMove ==
  ASSUME LossInv, CountInv, NEW c \in Clients, NEW step, Goto(c, step),
         pc[c] # "Idle", UNCHANGED <<table, saved, sent, maxId>>,
         faults' \in {faults, faults + 1},
         received' = received \/ (Receive(c) /\ pc[c] = "SendEvent"),
         \/ step = "DeleteEvents" /\ pc[c] = "SendEvent"
         \/ step = "Idle" /\ faults' = faults + 1
  PROVE  CountInv'
<1>1. TypeOK /\ Covered(c)
  BY DEF LossInv
<1>2. ASSUME NEW d \in Clients, pc'[d] # "Idle"
      PROVE  Reached(d)'
  <2>1. pc[d] # "Idle"
    BY <1>1, <1>2 DEF Goto, TypeOK
  <2>2. Reached(d)
    BY <2>1 DEF CountInv
  <2>3. QED
    BY <2>2 DEF Reached
<1>3. ASSUME NEW e \in Events
      PROVE  (e > saved' => received'[e] = 0) /\ Counted(e)'
  <2>1. /\ received[e] \in Nat /\ faults \in Nat /\ e \in Int /\ saved \in Nat
        /\ received'[e] \in {received[e],
             IF e \in sent[c] /\ pc[c] = "SendEvent" THEN received[e] + 1 ELSE received[e]}
    <3>1. received[e] \in Nat /\ faults \in Nat /\ saved \in Nat
      BY <1>1 DEF TypeOK
    <3>2. e \in Int
      BY DEF Events
    <3>3. Receive(c) => received'[e] = IF e \in sent[c] THEN received[e] + 1 ELSE received[e]
      BY DEF Receive
    <3>4. QED
      BY <3>1, <3>2, <3>3
  <2>2. Counted(e) /\ (e > saved => received[e] = 0)
    BY DEF CountInv
  <2>3. e \in sent[c] => e <= saved
    BY <1>1, <2>1 DEF Covered
  <2>4. Stored' = Stored
    BY DEF Stored
  <2>5. Cardinality(Sending(e)') =
          Cardinality(Sending(e)) -
            (IF pc[c] = "SendEvent" /\ e \in sent[c] THEN 1 ELSE 0)
    BY <1>1, <2>1, ClientCounts, CountsMove DEF Sending
  <2>6. Cardinality(Deleting(e)') =
          Cardinality(Deleting(e)) +
            (IF step = "DeleteEvents" /\ e \in sent[c] THEN 1 ELSE 0) -
            (IF pc[c] = "DeleteEvents" /\ e \in sent[c] THEN 1 ELSE 0)
    BY <1>1, <2>1, ClientCounts, CountsMove DEF Deleting
  <2>7. /\ Cardinality(Sending(e)) \in Nat /\ Cardinality(Deleting(e)) \in Nat
        /\ Cardinality(Clients) \in Nat
    BY ClientCounts
  <2>8. CASE e \in Stored
    <3>1. received'[e] <= faults' + Cardinality(Deleting(e)')
      BY <2>1, <2>2, <2>6, <2>7, <2>8 DEF Counted
    <3>2. QED
      BY <2>1, <2>2, <2>3, <2>4, <2>8, <3>1 DEF Counted
  <2>9. CASE e \notin Stored
    <3>1. received'[e] + Cardinality(Sending(e)') <= faults' + Cardinality(Clients)
      BY <2>1, <2>2, <2>5, <2>7, <2>9 DEF Counted
    <3>2. QED
      BY <2>1, <2>2, <2>3, <2>4, <2>9, <3>1 DEF Counted
  <2>10. QED
    BY <2>8, <2>9
<1>4. QED
  BY <1>2, <1>3 DEF CountInv

\* Only a DELETE takes an event out of the table: its client is not sending
\* any more, so there is room for those that are.
LEMMA CountDeleted ==
  ASSUME LossInv, CountInv, NEW c \in Clients,
         pc[c] = "DeleteEvents", Goto(c, "Idle"),
         table' = {r \in table : r.id > maxId[c]},
         UNCHANGED <<saved, received, sent, maxId, faults>>
  PROVE  CountInv'
<1>1. TypeOK /\ Reached(c) /\ table' \subseteq table
  BY DEF LossInv, CountInv
<1>2. ASSUME NEW d \in Clients, pc'[d] # "Idle"
      PROVE  Reached(d)'
  <2>1. pc[d] # "Idle"
    BY <1>1, <1>2 DEF Goto, TypeOK
  <2>2. Reached(d)
    BY <2>1 DEF CountInv
  <2>3. QED
    BY <1>1, <2>2 DEF Reached
<1>3. ASSUME NEW e \in Events
      PROVE  Counted(e)'
  <2>1. /\ Counted(e) /\ received[e] \in Nat /\ faults \in Nat
    BY <1>1 DEF CountInv, TypeOK
  <2>2. /\ Cardinality(Sending(e)) \in Nat /\ Cardinality(Deleting(e)) \in Nat
        /\ Cardinality(Clients) \in Nat
        /\ Cardinality(Sending(e)) + Cardinality(Deleting(e)) <= Cardinality(Clients)
    BY ClientCounts
  <2>3. CASE e \in Stored'
    <3>1. PICK r \in table : r.evt = e /\ r.id > maxId[c]
      BY <2>3 DEF Stored
    <3>2. r.id \in Int /\ maxId[c] \in Int
      BY <1>1 DEF TypeOK, Row
    <3>3. e \notin sent[c] /\ e \in Stored
      BY <1>1, <3>1, <3>2 DEF Reached, Stored
    <3>4. Deleting(e)' = Deleting(e)
      BY <1>1, <3>3 DEF Deleting, Flushing, Goto, TypeOK
    <3>5. QED
      BY <2>1, <2>3, <3>3, <3>4 DEF Counted
  <2>4. CASE e \notin Stored'
    <3>1. Sending(e)' = Sending(e)
      BY <1>1 DEF Sending, Flushing, Goto, TypeOK
    <3>2. received[e] + Cardinality(Sending(e)) <= faults + Cardinality(Clients)
      BY <2>1, <2>2 DEF Counted
    <3>3. QED
      BY <2>4, <3>1, <3>2 DEF Counted
  <2>5. QED
    BY <2>3, <2>4
<1>4. QED
  BY <1>2, <1>3 DEF CountInv

LEMMA CountFlush ==
  ASSUME LossInv, CountInv, NEW c \in Clients,
         SendEvent(c) \/ DeleteEvents(c) \/ Crash(c)
  PROVE  CountInv'
<1>1. faults \in Nat
  BY DEF LossInv, TypeOK
<1>2. CASE SendEvent(c)
  <2>1. /\ pc[c] = "SendEvent" /\ UNCHANGED <<table, saved, sent, maxId>>
        /\ faults' \in {faults, faults + 1} /\ (Receive(c) \/ received' = received)
        /\ \/ Goto(c, "DeleteEvents")
           \/ Goto(c, "Idle") /\ faults' = faults + 1
    BY <1>2 DEF SendEvent, Fault
  <2>2. QED
    BY <2>1, CountMove
<1>3. CASE DeleteEvents(c)
  <2>1. /\ pc[c] = "DeleteEvents" /\ Goto(c, "Idle")
        /\ UNCHANGED <<saved, received, sent, maxId>>
        /\ \/ table' = {r \in table : r.id > maxId[c]} /\ UNCHANGED faults
           \/ UNCHANGED table /\ faults' = faults + 1
    BY <1>3 DEF DeleteEvents, Fault
  <2>2. QED
    BY <2>1, CountMove, CountDeleted
<1>4. CASE Crash(c)
  <2>1. /\ pc[c] # "Idle" /\ Goto(c, "Idle") /\ faults' = faults + 1
        /\ UNCHANGED <<table, saved, sent, maxId>>
        /\ received' = received \/ (Receive(c) /\ pc[c] = "SendEvent")
    BY <1>4 DEF Crash, Fault
  <2>2. QED
    BY <2>1, CountMove
<1>5. QED
  BY <1>2, <1>3, <1>4

LEMMA CountInit == Init => CountInv
<1> SUFFICES ASSUME Init PROVE CountInv
  OBVIOUS
<1>1. \A c \in Clients : pc[c] = "Idle"
  BY DEF Init
<1>2. ASSUME NEW e \in Events PROVE received[e] = 0 /\ Counted(e)
  <2>1. received[e] = 0 /\ faults = 0
    BY <1>2 DEF Init
  <2>2. Sending(e) = {}
    BY <1>1 DEF Sending, Flushing
  <2>3. Cardinality(Sending(e)) = 0
    BY <2>2, FS_EmptySet
  <2>4. Cardinality(Deleting(e)) \in Nat /\ Cardinality(Clients) \in Nat
    BY ClientCounts
  <2>5. QED
    BY <2>1, <2>3, <2>4 DEF Counted
<1>3. QED
  BY <1>1, <1>2 DEF CountInv

(***************************************************************************)
(* With any number of clients, an event reaches the server at most once    *)
(* for each of them and once more for each fault (FlushEvents, SendEvent   *)
(* and DeleteEvents): clients that read the table before another deletes,  *)
(* and rows that a fault leaves in it.                                     *)
(***************************************************************************)
THEOREM DuplicatesCostFaultsHolds == Spec => []DuplicatesCostFaults
<1>1. LossInv /\ CountInv /\ [Next]_vars => CountInv'
  <2> SUFFICES ASSUME LossInv, CountInv, [Next]_vars PROVE CountInv'
    OBVIOUS
  <2>1. ASSUME NEW c \in Clients, SaveEvent(c) \/ FlushStep(c) \/ Crash(c) PROVE CountInv'
    BY <2>1, CountSave, CountGet, CountFlush DEF FlushStep
  <2>2. CASE UNCHANGED vars
    BY <2>2 DEF vars, clientVars, CountInv, Reached, Counted, Sending, Deleting, Flushing, Stored
  <2>3. QED
    BY <2>1, <2>2 DEF Next
<1>2. LossInv /\ CountInv => DuplicatesCostFaults
  <2> SUFFICES ASSUME LossInv, CountInv, NEW e \in Events
               PROVE  received[e] <= Cardinality(Clients) + faults
    BY DEF DuplicatesCostFaults
  <2>1. /\ Cardinality(Sending(e)) \in Nat /\ Cardinality(Deleting(e)) \in Nat
        /\ Cardinality(Clients) \in Nat
        /\ Cardinality(Sending(e)) + Cardinality(Deleting(e)) <= Cardinality(Clients)
    BY ClientCounts
  <2>2. Counted(e) /\ received[e] \in Nat /\ faults \in Nat
    BY DEF CountInv, LossInv, TypeOK
  <2>3. QED
    BY <2>1, <2>2 DEF Counted
<1>3. QED
  BY LossInvHolds, CountInit, <1>1, <1>2, PTL DEF Spec
=============================================================================
