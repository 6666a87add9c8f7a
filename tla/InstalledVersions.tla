------------------------- MODULE InstalledVersions -------------------------
(***************************************************************************)
(* The table installed_versions of targets/target_db.go, as a value.  A    *)
(* table is a sequence of rows in the order of their id; no statement of   *)
(* the program deletes a row.  Every operator below is one SQL statement   *)
(* of the program, so that the modules that EXTEND this one can interleave *)
(* a crash or a failure between two statements: the code runs them without *)
(* a transaction.                                                          *)
(*                                                                         *)
(* Columns that no query of the program reads back (ecu_serial, sha256,    *)
(* hashes, length, correlation_id) are left out.  custom_meta is written   *)
(* once, with the name, and is a function of it.                           *)
(***************************************************************************)
EXTENDS Naturals, Sequences

CONSTANTS
  Targets,   \* the names of the targets of the TUF repository
  Initial    \* the name "Initial Target", which GetCurrentTarget makes up

ASSUME InitialAssumption == Initial \notin Targets

(***************************************************************************)
(* updateModeCurrent, updateModePending and updateModeFailed.              *)
(***************************************************************************)
Modes == {"current", "pending", "failed"}

Row == [name : Targets, is_current : BOOLEAN, is_pending : BOOLEAN,
        was_installed : BOOLEAN]

Table == Seq(Row)

(***************************************************************************)
(* The loop over "ORDER BY id DESC LIMIT 1": only the row with the highest *)
(* id is looked at, so a target registered earlier, with another target    *)
(* registered since, counts as never registered.                           *)
(***************************************************************************)
IsLast(rows, t) == rows # <<>> /\ rows[Len(rows)].name = t

\* Mutant of UnsetFlags: the UPDATE of a pending version, for all modes.
UnsetPendingOnly(rows, mode) ==
  [i \in DOMAIN rows |-> [rows[i] EXCEPT !.is_pending = @ /\ mode = "failed"]]

(***************************************************************************)
(* The first UPDATE of saveInstalledVersions: there is none for a failure. *)
(***************************************************************************)
UnsetFlags(rows, mode) ==
  [i \in DOMAIN rows |->
     [rows[i] EXCEPT !.is_current = @ /\ mode # "current",
                     !.is_pending = @ /\ mode = "failed"]]

(***************************************************************************)
(* The UPDATE ... WHERE name = ? of a target whose row is the last one.    *)
(* was_installed of the last row is copied to every row of that name.  A   *)
(* failure leaves is_current alone.                                        *)
(***************************************************************************)
UpdateRows(rows, t, mode) ==
  LET oldWasInstalled == rows[Len(rows)].was_installed
      Updated(row) ==
        IF mode = "failed"
          THEN [row EXCEPT !.is_pending = FALSE, !.was_installed = FALSE]
          ELSE [row EXCEPT !.is_current = (mode = "current"),
                           !.is_pending = (mode = "pending"),
                           !.was_installed = (mode = "current") \/ oldWasInstalled]
  IN  [i \in DOMAIN rows |-> IF rows[i].name = t THEN Updated(rows[i]) ELSE rows[i]]

(***************************************************************************)
(* The INSERT of a target whose row is not the last one.                   *)
(***************************************************************************)
InsertRow(rows, t, mode) ==
  Append(rows, [name |-> t, is_current |-> (mode = "current"),
                is_pending |-> (mode = "pending"),
                was_installed |-> (mode = "current")])

(***************************************************************************)
(* The last statement of saveInstalledVersions.                            *)
(***************************************************************************)
WriteRow(rows, t, mode) ==
  IF IsLast(rows, t) THEN UpdateRows(rows, t, mode) ELSE InsertRow(rows, t, mode)

(***************************************************************************)
(* GetCurrentTarget keeps the last of the rows with is_current = 1, and    *)
(* answers "Initial Target" when there is none.                            *)
(***************************************************************************)
CurrentRows(rows) == {i \in DOMAIN rows : rows[i].is_current}

PendingRows(rows) == {i \in DOMAIN rows : rows[i].is_pending}

CurrentTargets(rows) == {rows[i].name : i \in CurrentRows(rows)}

GetCurrentTarget(rows) ==
  IF CurrentRows(rows) = {} THEN Initial
  ELSE rows[CHOOSE i \in CurrentRows(rows) : \A j \in CurrentRows(rows) : j <= i].name

\* Mutant of IsFailingTarget: only the last row counts.
IsLastFailing(rows, t) == IsLast(rows, t) /\ ~rows[Len(rows)].was_installed

(***************************************************************************)
(* IsFailingTarget: some row of that name has was_installed = 0.           *)
(***************************************************************************)
IsFailingTarget(rows, t) ==
  \E i \in DOMAIN rows : rows[i].name = t /\ ~rows[i].was_installed

(***************************************************************************)
(* At most one target is current, at most one is pending, and no row is    *)
(* both.                                                                   *)
(***************************************************************************)
FlagsConsistent(rows) ==
  /\ \A i, j \in CurrentRows(rows) : rows[i].name = rows[j].name
  /\ \A i, j \in PendingRows(rows) : rows[i].name = rows[j].name
  /\ CurrentRows(rows) \cap PendingRows(rows) = {}
=============================================================================
