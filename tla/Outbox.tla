------------------------------- MODULE Outbox -------------------------------
(***************************************************************************)
(* What a queue of events to report promises: an event that was saved is   *)
(* pending until it has been delivered, at least once, unless it is        *)
(* excused: the server has refused it, or it was saved in a way that does  *)
(* not count.  Which events go together, how often one is delivered, and   *)
(* how the queue knows, is left open.  A queue that is served is drained   *)
(* in the end (Drains).                                                    *)
(***************************************************************************)
EXTENDS Naturals

CONSTANT Events

VARIABLES
  pending,    \* the events that are stored
  delivered,  \* the events that the server has received
  excused     \* the events that need not be delivered

vars == <<pending, delivered, excused>>

Known == pending \cup delivered \cup excused

Init == pending = {} /\ delivered = {} /\ excused = {}

Save(e) ==
  /\ e \notin Known
  /\ pending' = pending \cup {e}
  /\ excused' \in {excused, excused \cup {e}}
  /\ UNCHANGED delivered

Deliver(batch) ==
  /\ batch \subseteq Known
  /\ delivered' = delivered \cup batch
  /\ UNCHANGED <<pending, excused>>

Refuse(batch) ==
  /\ batch \subseteq Known
  /\ excused' = excused \cup batch
  /\ UNCHANGED <<pending, delivered>>

Discard(batch) ==
  /\ batch \subseteq pending \cap (delivered \cup excused)
  /\ pending' = pending \ batch
  /\ UNCHANGED <<delivered, excused>>

Next ==
  \/ \E e \in Events : Save(e)
  \/ \E batch \in SUBSET Known : Deliver(batch) \/ Refuse(batch) \/ Discard(batch)

Spec == Init /\ [][Next]_vars

\* No event is pending for ever.  (By Discard it has been delivered by then, or
\* is excused.)
Drains == \A e \in Events : e \in pending ~> e \notin pending
=============================================================================
