----------------------------- MODULE MCTufAgent -----------------------------
(***************************************************************************)
(* Small instances of TufAgent for TLC.  The old bundle holds what the     *)
(* repository served at first; the new one a version that the repository   *)
(* will serve, with the root of that time.                                 *)
(***************************************************************************)
EXTENDS TufAgent, TLC

CONSTANTS Client, Post1, Post2, Get1, u1, u2, u3, u4

OldBundle == [root |-> 1, version |-> 1]
NewBundle == [root |-> 2, version |-> 2]
MCOldBundles == {OldBundle}
MCBundles == {OldBundle, NewBundle}
AnyUpdater == Permutations(Updaters)
=============================================================================
