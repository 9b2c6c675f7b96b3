--------------------------------- MODULE Desk ---------------------------------
(***************************************************************************)
(* The control surface of the station (control.py): commands of the API    *)
(* that change the broadcast mode, tone out a message or send a test, next *)
(* to alerts that tone out and to the scheduler of the tests, in one       *)
(* process.  A test by the API asks the gate without naming a test, which  *)
(* makes it ask for the monthly one; a manual message waits for its        *)
(* rendering and its turn on the air, then counts as a tone-out.           *)
(***************************************************************************)
EXTENDS Commands, TestScheduler

CONSTANTS
  HeightenFor,  \* how long a command asks for heightened mode, in slots
  MaxFaults     \* bound: failed statements, failed saves and crashes together

ASSUME HeightenForAssumption == HeightenFor \in Nat

VARIABLE does  \* what the command of a key is for

Purposes == {"heighten", "clear", "tone", "test"}

vars == <<does, commandVars, now, modeVars, schedulerVars>>

Init == CommandsInit /\ SchedulerInit /\ does \in [Keys -> Purposes]

\* set_heightened_mode, clear_heightened_mode, originate_text or
\* originate_audio, and originate_test, of a command that is carried out.
Effect(k) ==
  CASE does[k] = "heighten" -> SetHeightened(HeightenFor)
    [] does[k] = "clear"    -> ClearHeightened
    [] does[k] = "tone"     -> ToneoutNow /\ UNCHANGED alerts
    [] does[k] = "test"     -> GateOpen("RMT") /\ UNCHANGED modeVars

Others == <<does, now, modeVars, schedulerVars>>

Command(k) ==
  /\ \/ \E fails \in BOOLEAN : Accept(k, fails) \/ Replay(k, fails)
                               \/ MarkRunning(k, fails) \/ Finish(k, fails)
     \/ Prune(k)
  /\ UNCHANGED Others

CarryOut(k) ==
  /\ Execute(k, TRUE) /\ Effect(k)
  /\ UNCHANGED <<does, now, schedulerVars>>

\* A test is refused by the gate; a rendering fails.
Refuse(k) ==
  /\ \/ does[k] = "test" /\ ~GateOpen("RMT")
     \/ does[k] \in {"tone", "test"}
  /\ Execute(k, FALSE)
  /\ UNCHANGED Others

Alert ==
  /\ \/ Toneout \/ HeardTone
     \/ \E p \in Pollers : \/ Aired(p) \/ Unaired(p)
                           \/ \E severe, full \in BOOLEAN : Match(p, severe, full)
  /\ UNCHANGED <<does, commandVars, now, schedulerVars>>

GetStatus == UpdateMode /\ UNCHANGED <<does, commandVars, now, schedulerVars>>

Jitters == [Tests -> 0 .. Jitter]

Schedule ==
  /\ \/ Due \/ Fire
     \/ \E fails \in BOOLEAN :
          PostponeTest(fails) \/ Fired(fails) \/ \E jitter \in Jitters : PlanNext(jitter, fails)
  /\ UNCHANGED <<does, commandVars, now, modeVars>>

Clock == Tick /\ UNCHANGED <<does, commandVars, modeVars, schedulerVars>>

Crash ==
  /\ CommandsCrash
  /\ \E fails \in BOOLEAN : SchedulerCrash(fails)
  /\ UNCHANGED <<does, now>>

Next ==
  /\ \/ \E k \in Keys : Command(k) \/ CarryOut(k) \/ Refuse(k)
     \/ Alert \/ GetStatus \/ Schedule \/ Clock \/ Crash
  /\ dbFaults' + saveFaults' + crashes' <= MaxFaults

Spec == Init /\ [][Next]_vars

\* Handlers and the scheduler run as long as the process does, and time
\* passes; nothing says that a client asks for the status.
Fairness ==
  /\ \A k \in Keys : /\ WF_vars(MarkRunning(k, FALSE) /\ UNCHANGED Others)
                     /\ WF_vars(CarryOut(k)) /\ WF_vars(Refuse(k))
                     /\ WF_vars(Finish(k, FALSE) /\ UNCHANGED Others)
  /\ WF_vars(Schedule) /\ WF_vars(Clock)
FairSpec == Spec /\ Fairness
-------------------------------------------------------------------------------
(* Properties; RanOnce and AcceptedEnds are those of Commands.             *)

\* The records, times and plans have their types; a test that is postponed by
\* days is postponed max_postpone_days times.
TypeOK ==
  /\ does \in [Keys -> Purposes]
  /\ known \in [Keys -> Status \cup {None}] /\ stored \in [Keys -> Status \cup {None}]
  /\ calls \in [Keys -> {"idle", "accepted", "running"} \cup Ended]
  /\ ran \in [Keys -> Nat] /\ pruned \subseteq Keys
  /\ now \in 0 .. Horizon /\ mode \in {"normal", "heightened"}
  /\ heightenedUntil \in {Never} \cup 0 .. Horizon + Heightened
  /\ {lastToneout, lastSevere, lastErn} \subseteq {Never} \cup 0 .. Horizon
  /\ airing \in [Pollers -> {Never} \cup 0 .. Horizon]
  /\ plan.step \in {"plan", "wait", "attempt", "fire"} /\ plan.test \in Tests
  /\ plan.at >= plan.due
  /\ plan.blocked \in 0 .. (IF Policy[plan.test] = "next_day" THEN PostponeDays ELSE Horizon)
  /\ {ranIn, savedIn, fileIn, sentIn} \subseteq [Tests -> Int]
  /\ times \in [Tests -> Nat] /\ losses \in [Tests -> Nat] /\ atRisk \subseteq Tests

\* The scheduler sends each test once in a week or in a month, though weather
\* postpones one into the next period and the process is restarted.  It is
\* sent once more for each time that its record was lost: by an end of the
\* process before a save had kept it, or a start that could not read the row.
\* (A test by the API is no test of the scheduler: it is not recorded.)
OncePerPeriod == \A x \in Tests : times[x] <= 1 + losses[x]

\* After an alert has aired, the mode is "heightened" and the gate of each
\* test that heeds it closed for min_heightened_seconds, less the time a
\* rendering takes: whatever other alerts of older and newer times come after
\* it, until a command sets another end.
HeightenedWhileOwed ==
  now < owed => mode = "heightened" /\ \A x \in BlockHeightened : ~GateOpen(x)

\* A comment of run_forever says "prefer RMT on tie".  Hence, when both tests
\* are scheduled for the same time and nothing blocks them, the weekly test
\* does not go out in place of a monthly test that is still to run.
MonthlyPreferred ==
  [][/\ plan.step = "fire" /\ plan.test = "RWT" /\ plan'.step = "plan"
     /\ plan.blocked = 0 /\ alerts = 0 /\ heightenedUntil = Never /\ crashes' = 0
     /\ \E n \in (plan.due - Jitter) .. plan.due : n % Week = At["RWT"] /\ n % Month = At["RMT"]
     => sentIn["RMT"] = Period("RMT", now)]_vars

\* docs/STATE_MACHINE.md: "HEIGHTENED -> NORMAL: heightened_until expires."
\* Hence, heightened mode ends at the latest when its time is over.
HeightenedEnds == (mode = "heightened" /\ now >= heightenedUntil) ~> mode = "normal"
===============================================================================
