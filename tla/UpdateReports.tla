---------------------------- MODULE UpdateReports ----------------------------
(***************************************************************************)
(* What the server may be told about the updates of a device: they are     *)
(* numbered, and reported on one at a time.  An update is over when its    *)
(* installation is reported as succeeded, or when a newer one is reported  *)
(* on: there is no report on an update that is over.  What is reported on  *)
(* one that is not, for the target it is made for or for the one that it   *)
(* rolls back to, and how often, is left open.                             *)
(***************************************************************************)
EXTENDS Naturals

VARIABLES
  corr,   \* the update that was reported on last, 0 for none
  over,   \* its installation has been reported as succeeded
  count   \* the number of reports

vars == <<corr, over, count>>

Init == corr = 0 /\ over = TRUE /\ count = 0

\* The first report on a newer update.
Begin == corr' \in Nat /\ corr' > corr

\* A further report on an update that is not over.
Continue == ~over /\ UNCHANGED corr

Report == count' = count + 1 /\ over' \in BOOLEAN

Next == (Begin \/ Continue) /\ Report

Spec == Init /\ [][Next]_vars
=============================================================================
