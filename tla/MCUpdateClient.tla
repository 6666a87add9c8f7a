--------------------------- MODULE MCUpdateClient ---------------------------
(***************************************************************************)
(* Small instances of UpdateClient for TLC.  Target A has version 1 and    *)
(* the app "a"; B has version 2 and no app at all, so that an update to it *)
(* does without composeapp; C has version 3 and the app "b".               *)
(***************************************************************************)
EXTENDS UpdateClient, TLC

CONSTANTS A, B, C, a, b

MCTargets == {A, B, C}
MCApps == {a, b}
MCAppsOf == (A :> {a}) @@ (B :> {}) @@ (C :> {b})
MCVersionOf == (A :> 1) @@ (B :> 2) @@ (C :> 3)
=============================================================================
