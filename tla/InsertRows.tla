------------------------------ MODULE InsertRows ------------------------------
(***************************************************************************)
(* The rows of the table cycle_inserts and what each statement of          *)
(* CycleInsertRepository (database/inserts.py) makes of one: announcements *)
(* that the cycle inserts between its own segments, a bounded number of    *)
(* times and until they expire.  Operators only; CycleInserts and its      *)
(* callers apply them.                                                     *)
(*                                                                         *)
(* A row keeps what changes: the status, the number of airings, the        *)
(* rotation of the last one and what it says.  Placement and order inside  *)
(* a rotation, titles and actors are left out.                             *)
(***************************************************************************)
EXTENDS Integers

CONSTANTS
  Ids,         \* insert_id: one per operator's insert, one per scope of NOW products
  Items,       \* what a row can say: an operator's insert, or a NOW product
  NoItem,      \* the text of a row that was never written
  Never,       \* last_aired_rotation is NULL
  Endless,     \* ids of NOW products: max_airings is a million
  MaxAirings,  \* max_airings of the others
  Every,       \* repeat_every_rotations, 0 for repeat_mode "once"
  Deferred     \* the ids that defer_during_active_alerts

ASSUME RowAssumption ==
  /\ Endless \subseteq Ids /\ Deferred \subseteq Ids
  /\ MaxAirings \in [Ids -> Nat \ {0}]
  /\ Every \in [Ids -> Nat]
  /\ NoItem \notin Items /\ Never \notin Int

Statuses == {"none", "active", "cancelled", "completed", "expired"}

Row == [status : Statuses, count : Nat, last : Int \cup {Never},
        what : Items \cup {NoItem}]

NoRow == [status |-> "none", count |-> 0, last |-> Never, what |-> NoItem]

\* The row that creates an insert, or puts a new text on air under its id.
FreshRow(item) == [status |-> "active", count |-> 0, last |-> Never, what |-> item]

\* The same text again: the airings of the row are kept.
KeptRow(row) == [row EXCEPT !.status = "active"]

Exhausted(id, row) == id \notin Endless /\ row.count >= MaxAirings[id]

RotationDue(id, row, rotation) ==
  /\ ~Exhausted(id, row)
  /\ IF Every[id] = 0
     THEN row.count = 0
     ELSE row.last # Never => rotation - row.last >= Every[id]

\* Mutated form: rows are listed whatever their status.
DueWhateverStatus(id, row, rotation, focus, past) ==
  /\ row.status # "none"
  /\ ~Exhausted(id, row)
  /\ focus => id \notin Deferred
  /\ RotationDue(id, row, rotation)

\* list_due of one row; past: its expires_at has passed.
Due(id, row, rotation, focus, past) ==
  /\ row.status = "active"
  /\ ~past
  /\ ~Exhausted(id, row)
  /\ focus => id \notin Deferred
  /\ RotationDue(id, row, rotation)

\* expire_due of one row.
ExpireDue(row, past) ==
  IF row.status = "active" /\ past THEN [row EXCEPT !.status = "expired"] ELSE row

CancelInsert(row) ==
  IF row.status = "active" THEN [row EXCEPT !.status = "cancelled"] ELSE row

\* Mutated form: the airing is not counted.
MarkAiredUncounted(id, row, rotation) == [row EXCEPT !.last = rotation]

\* Whatever the status is by now, an airing is counted, and the last one
\* completes the row; the airings of an endless one are not told apart.
MarkAired(id, row, rotation) ==
  LET next == [row EXCEPT !.count = IF id \in Endless THEN 1 ELSE @ + 1, !.last = rotation]
  IN  IF row.status = "none" THEN row
      ELSE IF Exhausted(id, next) THEN [next EXCEPT !.status = "completed"]
      ELSE next
===============================================================================
