---------------------------- MODULE MCAlgorithms ----------------------------
(***************************************************************************)
(* The three algorithms that a run goes through before it updates anything *)
(* (the search for the trusted root, the choice of a target, the lists of  *)
(* apps), in small instances for TLC.  They share nothing, so each         *)
(* behaviour exercises one of them, with the other two at rest: the states *)
(* add up instead of multiplying.                                          *)
(***************************************************************************)
EXTENDS RootChain, TargetSelection, AppLists, TLC

VARIABLE subject   \* the algorithm that runs

MCVersions == {-2, 0, 1, 2}
MCPins == {-1, 0, 1, 2, 3}
AnyApp == Permutations(Apps)

RootsAtRest == RootInit /\ provided = [n \in Roots |-> "missing"]
SelectionAtRest == SelectInit /\ asked = Unset /\ Offered = {}
ListsAtRest == ListsInit /\ ~configured /\ store = {} /\ running = {}

Init ==
  \/ subject = "roots" /\ RootInit /\ SelectionAtRest /\ ListsAtRest
  \/ subject = "selection" /\ SelectInit /\ RootsAtRest /\ ListsAtRest
  \/ subject = "lists" /\ ListsInit /\ RootsAtRest /\ SelectionAtRest

Next ==
  /\ \/ subject = "roots" /\ RootNext /\ UNCHANGED <<selectVars, listVars>>
     \/ subject = "selection" /\ SelectNext /\ UNCHANGED <<rootVars, listVars>>
     \/ subject = "lists" /\ ListsNext /\ UNCHANGED <<rootVars, selectVars>>
  /\ UNCHANGED subject

Spec == Init /\ [][Next]_<<subject, rootVars, selectVars, listVars>>
=============================================================================
