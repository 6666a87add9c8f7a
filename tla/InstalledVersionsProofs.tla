----------------------- MODULE InstalledVersionsProofs -----------------------
(***************************************************************************)
(* What the statements on installed_versions preserve.                     *)
(***************************************************************************)
EXTENDS InstalledVersions, SequenceTheorems, WellFoundedInduction, TLAPS

\* A nonempty set of row numbers has a largest one: GetCurrentTarget, which
\* keeps the last row of its query, returns a row of the query.
LEMMA LargestRow ==
  ASSUME NEW n \in Nat, NEW S \in SUBSET (1 .. n), S # {}
  PROVE  \E i \in S : \A j \in S : j <= i
<1> DEFINE T == {n - i : i \in S}
<1> DEFINE R == OpToRel(<, Nat)
<1>1. \A i \in S : n - i \in Nat /\ i \in Nat
  OBVIOUS
<1>2. T \subseteq Nat
  BY <1>1
<1>3. T # {}
  OBVIOUS
<1>4. \A y, z \in Nat : y < z => <<y, z>> \in R
  BY DEF OpToRel
<1>5. IsWellFoundedOn(R, Nat)
  BY NatLessThanWellFounded
<1> HIDE DEF R, T
<1>6. PICK x \in T : \A y \in T : ~(<<y, x>> \in R)
  BY <1>2, <1>3, <1>5, WFMin
<1>7. PICK i \in S : x = n - i
  BY DEF T
<1>8. ASSUME NEW j \in S PROVE j <= i
  <2>1. n - j \in T /\ n - j \in Nat /\ x \in Nat
    BY <1>1, <1>2 DEF T
  <2>2. ~(n - j < x)
    BY <1>4, <1>6, <2>1
  <2> QED
    BY <1>1, <1>7, <2>1, <2>2
<1> QED
  BY <1>8

\* The current target is that of a current row, when there is one.
LEMMA CurrentTargetIsRow ==
  ASSUME NEW rows \in Table, CurrentRows(rows) # {}
  PROVE  \E i \in CurrentRows(rows) : GetCurrentTarget(rows) = rows[i].name
<1>1. Len(rows) \in Nat /\ CurrentRows(rows) \in SUBSET (1 .. Len(rows))
  BY DEF CurrentRows, Table
<1>2. PICK i \in CurrentRows(rows) : \A j \in CurrentRows(rows) : j <= i
  BY <1>1, LargestRow
<1> DEFINE last == CHOOSE k \in CurrentRows(rows) : \A j \in CurrentRows(rows) : j <= k
<1>3. last \in CurrentRows(rows)
  BY <1>2
<1>4. GetCurrentTarget(rows) = rows[last].name
  BY DEF GetCurrentTarget
<1> HIDE DEF last
<1> QED
  BY <1>3, <1>4

\* The current target is a row's target, or the made up one.
LEMMA CurrentTargetType ==
  ASSUME NEW rows \in Table
  PROVE  GetCurrentTarget(rows) \in Targets \cup {Initial}
<1>1. CASE CurrentRows(rows) = {}
  BY <1>1 DEF GetCurrentTarget
<1>2. CASE CurrentRows(rows) # {}
  <2>1. PICK i \in CurrentRows(rows) : GetCurrentTarget(rows) = rows[i].name
    BY <1>2, CurrentTargetIsRow
  <2>2. rows[i] \in Row
    BY DEF CurrentRows, Table
  <2> QED
    BY <2>1, <2>2 DEF Row
<1> QED
  BY <1>1, <1>2

-----------------------------------------------------------------------------
(* The UPDATE of every row keeps a table a table.                          *)

\* UnsetFlags only clears flags: of is_current and is_pending it keeps those
\* that its mode leaves alone.
LEMMA UnsetFlagsEffect ==
  ASSUME NEW rows \in Table, NEW mode \in Modes
  PROVE  /\ UnsetFlags(rows, mode) \in Table
         /\ DOMAIN UnsetFlags(rows, mode) = DOMAIN rows
         /\ \A i \in DOMAIN rows :
              /\ UnsetFlags(rows, mode)[i].name = rows[i].name
              /\ UnsetFlags(rows, mode)[i].is_current
                   <=> (rows[i].is_current /\ mode # "current")
              /\ UnsetFlags(rows, mode)[i].is_pending
                   <=> (rows[i].is_pending /\ mode = "failed")
              /\ UnsetFlags(rows, mode)[i].was_installed = rows[i].was_installed
<1> DEFINE e(i) == [rows[i] EXCEPT !.is_current = @ /\ mode # "current",
                                   !.is_pending = @ /\ mode = "failed"]
<1>1. Len(rows) \in Nat /\ DOMAIN rows = 1 .. Len(rows)
  BY DEF Table
<1>2. \A i \in 1 .. Len(rows) : rows[i] \in Row
  BY DEF Table
<1>3. \A i \in 1 .. Len(rows) : e(i) \in Row
  BY <1>2 DEF Row
<1>4. UnsetFlags(rows, mode) = [i \in 1 .. Len(rows) |-> e(i)]
  BY <1>1 DEF UnsetFlags
<1> HIDE DEF e
<1>5. [i \in 1 .. Len(rows) |-> e(i)] \in Seq(Row)
  BY <1>1, <1>3
<1>6. UnsetFlags(rows, mode) \in Table
  BY <1>4, <1>5 DEF Table
<1>7. ASSUME NEW i \in DOMAIN rows
      PROVE  /\ UnsetFlags(rows, mode)[i].name = rows[i].name
             /\ UnsetFlags(rows, mode)[i].is_current
                  <=> (rows[i].is_current /\ mode # "current")
             /\ UnsetFlags(rows, mode)[i].is_pending
                  <=> (rows[i].is_pending /\ mode = "failed")
             /\ UnsetFlags(rows, mode)[i].was_installed = rows[i].was_installed
  <2>1. rows[i] \in Row
    BY <1>1, <1>2
  <2> QED
    BY <2>1 DEF UnsetFlags, Row
<1> QED
  BY <1>1, <1>4, <1>6, <1>7

\* The row that UpdateRows leaves at i.
LEMMA UpdateRowsEffect ==
  ASSUME NEW rows \in Table, NEW t \in Targets, NEW mode \in Modes, IsLast(rows, t)
  PROVE  /\ UpdateRows(rows, t, mode) \in Table
         /\ DOMAIN UpdateRows(rows, t, mode) = DOMAIN rows
         /\ \A i \in DOMAIN rows :
              /\ UpdateRows(rows, t, mode)[i].name = rows[i].name
              /\ UpdateRows(rows, t, mode)[i].is_current
                   <=> IF rows[i].name = t /\ mode # "failed" THEN mode = "current"
                       ELSE rows[i].is_current
              /\ UpdateRows(rows, t, mode)[i].is_pending
                   <=> IF rows[i].name = t THEN mode = "pending"
                       ELSE rows[i].is_pending
              /\ UpdateRows(rows, t, mode)[i].was_installed
                   <=> IF rows[i].name # t THEN rows[i].was_installed
                       ELSE mode = "current"
                            \/ (mode = "pending" /\ rows[Len(rows)].was_installed)
<1> DEFINE old == rows[Len(rows)].was_installed
           Updated(row) ==
             IF mode = "failed"
               THEN [row EXCEPT !.is_pending = FALSE, !.was_installed = FALSE]
               ELSE [row EXCEPT !.is_current = (mode = "current"),
                                !.is_pending = (mode = "pending"),
                                !.was_installed = (mode = "current") \/ old]
           e(i) == IF rows[i].name = t THEN Updated(rows[i]) ELSE rows[i]
<1>1. Len(rows) \in Nat /\ DOMAIN rows = 1 .. Len(rows) /\ rows # <<>>
  BY DEF Table, IsLast
<1>2. \A i \in 1 .. Len(rows) : rows[i] \in Row
  BY DEF Table
<1>3. old \in BOOLEAN
  <2>1. Len(rows) \in 1 .. Len(rows)
    BY <1>1 DEF Table
  <2> QED
    BY <1>2, <2>1 DEF Row
<1>4. UpdateRows(rows, t, mode) = [i \in 1 .. Len(rows) |-> e(i)]
  BY <1>1 DEF UpdateRows
<1> HIDE DEF old
<1>5. \A i \in 1 .. Len(rows) : e(i) \in Row
  <2> TAKE i \in 1 .. Len(rows)
  <2>1. CASE mode = "failed"
    BY <1>2, <2>1 DEF Row
  <2>2. CASE mode # "failed"
    BY <1>2, <1>3, <2>2 DEF Row
  <2> QED
    BY <2>1, <2>2
<1>6. ASSUME NEW i \in DOMAIN rows
      PROVE  /\ e(i).name = rows[i].name
             /\ e(i).is_current <=> IF rows[i].name = t /\ mode # "failed"
                                    THEN mode = "current" ELSE rows[i].is_current
             /\ e(i).is_pending <=> IF rows[i].name = t THEN mode = "pending"
                                    ELSE rows[i].is_pending
             /\ e(i).was_installed <=> IF rows[i].name # t THEN rows[i].was_installed
                                       ELSE mode = "current" \/ (mode = "pending" /\ old)
  <2>1. rows[i] \in Row
    BY <1>1, <1>2
  <2>2. CASE mode = "failed"
    BY <2>1, <2>2 DEF Row
  <2>3. CASE mode # "failed"
    BY <1>3, <2>1, <2>3 DEF Row, Modes
  <2> QED
    BY <2>2, <2>3
<1> HIDE DEF e
<1>7. [i \in 1 .. Len(rows) |-> e(i)] \in Seq(Row)
  BY <1>1, <1>5
<1> QED
  BY <1>1, <1>4, <1>6, <1>7 DEF Table, old

\* The INSERT adds one row at the end.
LEMMA InsertRowEffect ==
  ASSUME NEW rows \in Table, NEW t \in Targets, NEW mode \in Modes
  PROVE  /\ InsertRow(rows, t, mode) \in Table
         /\ DOMAIN InsertRow(rows, t, mode) = 1 .. (Len(rows) + 1)
         /\ DOMAIN rows = 1 .. Len(rows) /\ Len(rows) \in Nat
         /\ \A i \in DOMAIN rows : InsertRow(rows, t, mode)[i] = rows[i]
         /\ InsertRow(rows, t, mode)[Len(rows) + 1].name = t
         /\ InsertRow(rows, t, mode)[Len(rows) + 1].is_current <=> mode = "current"
         /\ InsertRow(rows, t, mode)[Len(rows) + 1].is_pending <=> mode = "pending"
         /\ InsertRow(rows, t, mode)[Len(rows) + 1].was_installed <=> mode = "current"
<1> DEFINE new == [name |-> t, is_current |-> (mode = "current"),
                   is_pending |-> (mode = "pending"),
                   was_installed |-> (mode = "current")]
<1>1. new \in Row
  BY DEF Row
<1>2. /\ new.name = t
      /\ new.is_current <=> mode = "current"
      /\ new.is_pending <=> mode = "pending"
      /\ new.was_installed <=> mode = "current"
  OBVIOUS
<1>3. InsertRow(rows, t, mode) = Append(rows, new)
  BY DEF InsertRow
<1> HIDE DEF new
<1>4. rows \in Seq(Row)
  BY DEF Table
<1> QED
  BY <1>1, <1>2, <1>3, <1>4, AppendProperties, LenProperties DEF Table

\* The last statement of saveInstalledVersions, whichever it is: a row that is
\* current, or pending, afterwards was so before, or is one of the target's;
\* and no row becomes both.
LEMMA WriteRowEffect ==
  ASSUME NEW rows \in Table, NEW t \in Targets, NEW mode \in Modes
  PROVE  LET new == WriteRow(rows, t, mode)
         IN  /\ new \in Table
             /\ \A i \in CurrentRows(new) :
                  \/ i \in CurrentRows(rows) /\ new[i].name = rows[i].name
                  \/ mode = "current" /\ new[i].name = t
             /\ \A i \in PendingRows(new) :
                  \/ i \in PendingRows(rows) /\ new[i].name = rows[i].name
                  \/ mode = "pending" /\ new[i].name = t
             /\ CurrentRows(new) \cap PendingRows(new)
                  \subseteq CurrentRows(rows) \cap PendingRows(rows)
<1>1. CASE IsLast(rows, t)
  BY <1>1, UpdateRowsEffect DEF WriteRow, CurrentRows, PendingRows
<1>2. CASE ~IsLast(rows, t)
  BY <1>2, InsertRowEffect DEF WriteRow, CurrentRows, PendingRows
<1> QED
  BY <1>1, <1>2

-----------------------------------------------------------------------------
(* The flags stay consistent, each statement on its own                    *)

\* UnsetFlags makes no target current.
LEMMA UnsetFlagsTargets ==
  ASSUME NEW rows \in Table, NEW mode \in Modes
  PROVE  CurrentTargets(UnsetFlags(rows, mode)) \subseteq CurrentTargets(rows)
<1> DEFINE new == UnsetFlags(rows, mode)
<1>1. \A i \in CurrentRows(new) : i \in CurrentRows(rows) /\ new[i].name = rows[i].name
  BY UnsetFlagsEffect DEF CurrentRows
<1> HIDE DEF new
<1>2. CurrentTargets(new) \subseteq CurrentTargets(rows)
  BY <1>1 DEF CurrentTargets
<1> QED
  BY <1>2 DEF new

\* What UnsetFlags leaves: nothing flagged in mode "current", and nothing
\* pending in mode "pending".
LEMMA UnsetFlagsConsistent ==
  ASSUME NEW rows \in Table, NEW mode \in Modes, FlagsConsistent(rows)
  PROVE  LET new == UnsetFlags(rows, mode)
         IN  /\ FlagsConsistent(new)
             /\ mode # "failed" => PendingRows(new) = {}
             /\ mode = "current" => CurrentRows(new) = {}
BY UnsetFlagsEffect DEF FlagsConsistent, CurrentRows, PendingRows

\* WriteRow makes a target current only in mode "current".
LEMMA WriteRowTargets ==
  ASSUME NEW rows \in Table, NEW t \in Targets, NEW mode \in Modes, mode # "current"
  PROVE  CurrentTargets(WriteRow(rows, t, mode)) \subseteq CurrentTargets(rows)
<1> DEFINE new == WriteRow(rows, t, mode)
<1>1. \A i \in CurrentRows(new) : i \in CurrentRows(rows) /\ new[i].name = rows[i].name
  BY WriteRowEffect
<1> HIDE DEF new
<1>2. CurrentTargets(new) \subseteq CurrentTargets(rows)
  BY <1>1 DEF CurrentTargets
<1> QED
  BY <1>2 DEF new

\* After the UnsetFlags of its mode, WriteRow leaves at most one current and
\* one pending target.
LEMMA WriteRowConsistent ==
  ASSUME NEW rows \in Table, NEW t \in Targets, NEW mode \in Modes,
         FlagsConsistent(rows),
         mode # "failed" => PendingRows(rows) = {},
         mode = "current" => CurrentRows(rows) = {}
  PROVE  FlagsConsistent(WriteRow(rows, t, mode))
<1> DEFINE new == WriteRow(rows, t, mode)
<1> HIDE DEF new
<1>1. /\ \A i \in CurrentRows(new) :
           \/ i \in CurrentRows(rows) /\ new[i].name = rows[i].name
           \/ mode = "current" /\ new[i].name = t
      /\ \A i \in PendingRows(new) :
           \/ i \in PendingRows(rows) /\ new[i].name = rows[i].name
           \/ mode = "pending" /\ new[i].name = t
      /\ CurrentRows(new) \cap PendingRows(new)
           \subseteq CurrentRows(rows) \cap PendingRows(rows)
  BY WriteRowEffect DEF new
<1>2. FlagsConsistent(new)
  BY <1>1 DEF FlagsConsistent
<1> QED
  BY <1>2 DEF new

-----------------------------------------------------------------------------
(* What GetCurrentTarget and IsFailingTarget may rely on                   *)

\* When no target is current, the one that is registered as such becomes it.
LEMMA CurrentTargetSet ==
  ASSUME NEW rows \in Table, NEW t \in Targets, CurrentRows(rows) = {}
  PROVE  GetCurrentTarget(WriteRow(rows, t, "current")) = t
<1> DEFINE new == WriteRow(rows, t, "current")
<1>1. "current" \in Modes
  BY DEF Modes
<1>2. new \in Table /\ \A i \in CurrentRows(new) : new[i].name = t
  BY <1>1, WriteRowEffect
<1>3. CurrentRows(new) # {}
  <2>1. CASE IsLast(rows, t)
    <3>1. Len(rows) \in DOMAIN rows /\ rows[Len(rows)].name = t
      BY <2>1 DEF IsLast, Table
    <3> QED
      BY <1>1, <2>1, <3>1, UpdateRowsEffect DEF WriteRow, CurrentRows
  <2>2. CASE ~IsLast(rows, t)
    <3>1. Len(rows) + 1 \in 1 .. (Len(rows) + 1)
      BY DEF Table
    <3> QED
      BY <1>1, <2>2, <3>1, InsertRowEffect DEF WriteRow, CurrentRows
  <2> QED
    BY <2>1, <2>2
<1> HIDE DEF new
<1>4. GetCurrentTarget(new) = t
  BY <1>2, <1>3, CurrentTargetIsRow
<1> QED
  BY <1>4 DEF new

\* The targets that have a row, and those that a row says the device has run.
Registered(rows) == {rows[i].name : i \in DOMAIN rows}

Settled(rows) ==
  {rows[i].name : i \in {j \in DOMAIN rows : rows[j].was_installed \/ rows[j].is_current}}

LEMMA CurrentIsSettled ==
  ASSUME NEW rows \in Table
  PROVE  GetCurrentTarget(rows) \in Settled(rows) \cup {Initial}
<1>1. CASE CurrentRows(rows) = {}
  BY <1>1 DEF GetCurrentTarget
<1>2. CASE CurrentRows(rows) # {}
  BY <1>2, CurrentTargetIsRow DEF CurrentRows, Settled
<1> QED
  BY <1>1, <1>2

\* A target that has a row and is not failing was installed.
LEMMA NotFailingIsSettled ==
  ASSUME NEW rows, NEW t, t \in Registered(rows), ~IsFailingTarget(rows, t)
  PROVE  t \in Settled(rows)
BY DEF Registered, IsFailingTarget, Settled

LEMMA UnsetFlagsSettled ==
  ASSUME NEW rows \in Table, NEW mode \in Modes
  PROVE  /\ Registered(UnsetFlags(rows, mode)) = Registered(rows)
         /\ Settled(UnsetFlags(rows, mode)) \subseteq Settled(rows)
<1> DEFINE new == UnsetFlags(rows, mode)
<1>1. /\ DOMAIN new = DOMAIN rows
      /\ \A i \in DOMAIN rows :
           /\ new[i].name = rows[i].name
           /\ new[i].was_installed \/ new[i].is_current
                => rows[i].was_installed \/ rows[i].is_current
  BY UnsetFlagsEffect
<1> HIDE DEF new
<1>2. Registered(new) = Registered(rows) /\ Settled(new) \subseteq Settled(rows)
  BY <1>1 DEF Registered, Settled
<1> QED
  BY <1>2 DEF new

\* The last statement of saveInstalledVersions gives its target a row, and
\* only in mode "current" one that says more than there was.
LEMMA WriteRowSettled ==
  ASSUME NEW rows \in Table, NEW t \in Targets, NEW mode \in Modes
  PROVE  /\ Registered(WriteRow(rows, t, mode)) = Registered(rows) \cup {t}
         /\ Settled(WriteRow(rows, t, mode))
              \subseteq Settled(rows) \cup (IF mode = "current" THEN {t} ELSE {})
<1> DEFINE new == WriteRow(rows, t, mode)
           Said(r, i) == r[i].was_installed \/ r[i].is_current
<1>1. \A r : Settled(r) = {r[i].name : i \in {j \in DOMAIN r : Said(r, j)}}
  BY DEF Settled
<1>2. CASE IsLast(rows, t)
  <2>1. Len(rows) \in DOMAIN rows /\ rows[Len(rows)].name = t
    BY <1>2 DEF IsLast, Table
  <2>2. /\ DOMAIN new = DOMAIN rows
        /\ \A i \in DOMAIN rows :
             /\ new[i].name = rows[i].name
             /\ Said(new, i) /\ rows[i].name # t => Said(rows, i)
             /\ Said(new, i) /\ rows[i].name = t =>
                  mode = "current" \/ Said(rows, Len(rows)) \/ Said(rows, i)
    BY <1>2, UpdateRowsEffect DEF WriteRow
  <2> HIDE DEF new, Said
  <2>3. Registered(new) = Registered(rows) \cup {t}
    BY <2>1, <2>2 DEF Registered
  <2>4. ASSUME NEW i \in DOMAIN new, Said(new, i)
        PROVE  new[i].name \in Settled(rows) \cup (IF mode = "current" THEN {t} ELSE {})
    BY <1>1, <2>1, <2>2, <2>4
  <2>5. Settled(new) \subseteq Settled(rows) \cup (IF mode = "current" THEN {t} ELSE {})
    BY <1>1, <2>4
  <2> QED
    BY <2>3, <2>5 DEF new
<1>3. CASE ~IsLast(rows, t)
  <2>1. /\ DOMAIN rows = 1 .. Len(rows) /\ DOMAIN new = 1 .. (Len(rows) + 1)
        /\ Len(rows) \in Nat
        /\ \A i \in DOMAIN rows : new[i] = rows[i]
        /\ new[Len(rows) + 1].name = t
        /\ Said(new, Len(rows) + 1) => mode = "current"
    BY <1>3, InsertRowEffect DEF WriteRow
  <2>2. \A i \in DOMAIN rows : Said(new, i) => Said(rows, i)
    BY <2>1
  <2>3. DOMAIN new = DOMAIN rows \cup {Len(rows) + 1}
    BY <2>1
  <2> HIDE DEF new, Said
  <2>4. Registered(new) = Registered(rows) \cup {t}
    BY <2>1, <2>3 DEF Registered
  <2>5. ASSUME NEW i \in DOMAIN new, Said(new, i)
        PROVE  new[i].name \in Settled(rows) \cup (IF mode = "current" THEN {t} ELSE {})
    <3>1. CASE i \in DOMAIN rows
      BY <1>1, <2>1, <2>2, <2>5, <3>1
    <3>2. CASE i = Len(rows) + 1
      BY <2>1, <2>5, <3>2
    <3> QED
      BY <2>3, <3>1, <3>2
  <2>6. Settled(new) \subseteq Settled(rows) \cup (IF mode = "current" THEN {t} ELSE {})
    BY <1>1, <2>5
  <2> QED
    BY <2>4, <2>6 DEF new
<1> QED
  BY <1>2, <1>3
=============================================================================
