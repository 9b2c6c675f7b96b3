---------------------------- MODULE FocusRotation ----------------------------
(***************************************************************************)
(* The rotation of the conductor (broadcast/conductor.py): what is played  *)
(* while alerts are active.  An alert that may hold the focus              *)
(* (alerts/focus.py), or the heightened mode, postpones the routine        *)
(* segments to a slower cadence, from when the focus is entered.  A        *)
(* rotation starts again whenever the alerts or the mode change, and with  *)
(* an interrupt; it keeps the times since a segment was played, so that    *)
(* what was overdue still is.                                              *)
(*                                                                         *)
(* Readiness of the segments is in Programme and AlertCycle, the queue in  *)
(* Conductor, inserts in CycleInserts; here segments become ready or not   *)
(* at any time, and a segment takes at most a unit of time over Pace.      *)
(***************************************************************************)
EXTENDS Integers, Sequences, SequencesExt

CONSTANTS
  Alerts,   \* active alerts: [source, code, test, sigs]
  Policy,   \* AlertFocusPolicy
  Base,     \* _BASE_CONTENT
  Focus,    \* _FOCUS_CONTENT
  Gap,      \* _FOCUS_DEFERRED_CONTENT: a time for each key, in order
  Pace,     \* segments that are played in a unit of time, at least
  MaxFlips  \* bound: changes of the alerts and the mode

Deferred == {Gap[i][1] : i \in DOMAIN Gap}
GapOf(k) == LET i == CHOOSE j \in DOMAIN Gap : Gap[j][1] = k IN Gap[i][2]

\* The longest rotation, in units of time.
Turn == (2 + Cardinality(Alerts) + Len(Base)) \div Pace + 1

\* The longest a segment that is ready waits in the focus.
Patience(k) == GapOf(k) + 3 * Turn

ASSUME FocusAssumption ==
  /\ Base \in Seq(STRING) /\ Focus \in Seq(STRING) /\ Gap \in Seq(STRING \X (Nat \ {0}))
  /\ Deferred \subseteq Range(Base) /\ Deferred \cap Range(Focus) = {}
  /\ Len(Focus) + Len(Gap) <= Len(Base)
  /\ IsFiniteSet(Alerts) /\ Pace \in Nat \ {0} /\ MaxFlips \in Nat

VARIABLES
  active,     \* the alerts in the tracker
  heightened, \* mode_fn() = "heightened"
  ready,      \* the content that is ready in the store
  order,      \* the rest of _cycle_order
  focused,    \* _focus_mode_active
  last,       \* time since _last_pushed_at, of the deferred keys
  played,     \* segments since the unit of time began
  flips,      \* changes so far
  unplayed,   \* history: how long a segment that was ready was not played
  waited,     \* history: ... since the rotation was last started again
  steady      \* history: how long there was a focus, or none

histories == <<unplayed, waited, steady>>
rotationVars == <<active, heightened, ready, order, focused, last, played, flips, histories>>

RotationInit ==
  /\ active = {} /\ heightened = FALSE /\ ready = Deferred
  /\ order = <<>> /\ focused = FALSE
  /\ last = [k \in Deferred |-> 0]
  /\ played = 0 /\ flips = 0
  /\ unplayed = [k \in Deferred |-> 0] /\ waited = unplayed /\ steady = 0
-------------------------------------------------------------------------------
\* alert_holds_focus
Holds(a) ==
  /\ a.source \notin Policy.excludedSources
  /\ a.code # "none" /\ a.code \notin Policy.tests
  /\ ~(a.source = "ERN" /\ a.test)
  /\ a.code \in Policy.codes
  /\ a.sigs = {} \/ a.sigs \cap Policy.sigs # {}
  /\ a.code \in Policy.marine => a.code \in Policy.marineHolds

FocusOn == heightened \/ \E a \in active : Holds(a)

\* Entering the focus postpones the routine segments from now.
Postponed == [k \in Deferred |-> IF FocusOn /\ ~focused THEN 0 ELSE last[k]]

\* _deferred_focus_segments_due
DueNow(times) == SelectSeq([i \in DOMAIN Gap |-> Gap[i][1]], LAMBDA k : times[k] >= GapOf(k))

\* The scan lists every key that is due, once.
ASSUME DueAssumption ==
  \A times \in [Deferred -> UNION {0 .. GapOf(k) : k \in Deferred}] :
    /\ DueNow(times) \in Seq(STRING) /\ Len(DueNow(times)) <= Len(Gap)
    /\ Range(DueNow(times)) = {k \in Deferred : times[k] >= GapOf(k)}

\* _rebuild_cycle_order.  The alerts' order is in AlertCycle.
Rebuilt ==
  <<"id", "time">> \o [i \in 1 .. Cardinality(active) |-> "alert"]
    \o (IF FocusOn THEN Focus \o DueNow(Postponed) ELSE Base)

\* _push_next_segment; what is not ready is skipped.
PlayNext ==
  /\ LET begins == order = <<>>
         now == IF begins THEN Rebuilt ELSE order
         times == IF begins THEN Postponed ELSE last
         k == Head(now)
     IN  /\ order' = Tail(now)
         /\ focused' = IF begins THEN FocusOn ELSE focused
         /\ IF k \in ready
              THEN /\ last' = [times EXCEPT ![k] = 0]
                   /\ unplayed' = [unplayed EXCEPT ![k] = 0]
                   /\ waited' = [waited EXCEPT ![k] = 0]
              ELSE last' = times /\ UNCHANGED <<unplayed, waited>>
  /\ played' = IF played < Pace THEN played + 1 ELSE played
  /\ UNCHANGED <<active, heightened, ready, flips, steady>>

FromNow == waited' = [k \in Deferred |-> 0]

\* Mutated form: a rotation that starts again enters the focus again.
StartAfresh == order' = <<>> /\ focused' = FALSE /\ FromNow

\* notify_flush(reset_rotation) empties the order, and keeps the times and
\* what is known of the focus.
StartAgain == order' = <<>> /\ focused' = focused /\ FromNow

SteadyOrNot == steady' = IF FocusOn' = FocusOn THEN steady ELSE 0

Flip == flips < MaxFlips /\ flips' = flips + 1

\* _on_alert_tracker_changed
AlertChanges ==
  /\ Flip
  /\ \E a \in Alerts : active' = IF a \in active THEN active \ {a} ELSE active \cup {a}
  /\ StartAgain
  /\ UNCHANGED <<heightened, ready, last, played, unplayed>>
  /\ SteadyOrNot

\* _update_mode; the rotation starts again if a message or a command did it.
ModeFlips ==
  /\ Flip
  /\ heightened' = ~heightened
  /\ StartAgain \/ UNCHANGED <<order, focused, waited>>
  /\ UNCHANGED <<active, ready, last, played, unplayed>>
  /\ SteadyOrNot

\* notify_interrupt_started, and the release of its hold.
Interrupted ==
  /\ Flip
  /\ StartAgain
  /\ UNCHANGED <<active, heightened, ready, last, played, unplayed, steady>>

\* The refresher, or a file that is gone.
ReadyChanges ==
  /\ Flip
  /\ \E k \in Deferred :
       /\ ready' = IF k \in ready THEN ready \ {k} ELSE ready \cup {k}
       /\ unplayed' = [unplayed EXCEPT ![k] = 0]
       /\ waited' = [waited EXCEPT ![k] = 0]
  /\ UNCHANGED <<active, heightened, order, focused, last, played, steady>>

Later(times) ==
  [k \in Deferred |-> IF k \in ready /\ times[k] <= Patience(k) THEN times[k] + 1 ELSE times[k]]

RotationTick ==
  /\ played = Pace
  /\ played' = 0
  /\ last' = [k \in Deferred |-> IF last[k] < GapOf(k) THEN last[k] + 1 ELSE last[k]]
  /\ unplayed' = Later(unplayed) /\ waited' = Later(waited)
  /\ steady' = IF \E k \in Deferred : steady <= Patience(k) THEN steady + 1 ELSE steady
  /\ UNCHANGED <<active, heightened, ready, order, focused, flips>>

RotationNext ==
  PlayNext \/ AlertChanges \/ ModeFlips \/ Interrupted \/ ReadyChanges \/ RotationTick

RotationSpec == RotationInit /\ [][RotationNext]_rotationVars
-------------------------------------------------------------------------------
(* Properties                                                              *)

\* "Postponed by cadence rather than hard-truncated": a routine segment that is
\* ready is played again once its gap has passed, however often the focus was
\* entered anew meanwhile, if the rotation goes on; and in a focus that lasts no
\* restart postpones it again: it is overdue, and comes within two turns of the
\* last one.
RoutineReturns ==
  \A k \in Deferred :
    /\ waited[k] <= Patience(k)
    /\ unplayed[k] > Patience(k) /\ steady > Patience(k) => waited[k] <= 2 * Turn
===============================================================================
