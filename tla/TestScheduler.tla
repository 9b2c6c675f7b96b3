---------------------------- MODULE TestScheduler ----------------------------
(***************************************************************************)
(* The weekly and the monthly test: the scheduler (broadcast/rwt_rmt.py),  *)
(* the gate that keeps tests off the air after alerts                      *)
(* (broadcast/tests_runtime.py), and the broadcast mode, whose times the   *)
(* gate reads (main.py).                                                   *)
(*                                                                         *)
(* Time passes in slots.  The calendar is periodic: weeks and months of a  *)
(* fixed length, a test at a fixed slot of each.  The scheduler sleeps in  *)
(* chunks of at most 30 seconds, so it acts in the slot it waits for,      *)
(* before time passes.                                                     *)
(***************************************************************************)
EXTENDS Integers, FiniteSets

CONSTANTS
  Day, Week, Month,    \* lengths, in slots
  At,                  \* of each test: its slot in the week or in the month
  Jitter,              \* jitter_seconds, in slots
  Policy,              \* postpone_policy of each test
  Postpone,            \* postpone_minutes, in slots
  PostponeHours,       \* max_postpone_hours, in slots
  PostponeDays,        \* max_postpone_days
  Heightened,          \* min_heightened_seconds, in slots
  Cooldown,            \* toneout_cooldown_seconds, in slots
  CapBlock, ErnBlock,  \* cap_block_seconds and ern_block_seconds, in slots
  BlockHeightened,     \* the tests whose gate blocks in heightened mode
  BlockToneout,        \* ... after a tone-out
  BlockCap,            \* ... after a severe alert of the CAP feed
  BlockErn,            \* ... after a header heard from another station
  Rendering,           \* bound: slots an alert takes from its match to the air
  Horizon,             \* bound: the last slot
  MaxAlerts,           \* bound: alerts that are matched
  MaxSaveFaults        \* bound: statements on the saved state that fail

Tests == {"RWT", "RMT"}
Pollers == {"CAP", "IPAWS"}
Never == -1

ASSUME ScheduleAssumption ==
  /\ {Day, Week, Month, Postpone} \subseteq Nat \ {0}
  /\ At \in [Tests -> Nat] /\ At["RWT"] < Week /\ At["RMT"] < Month
  /\ {Jitter, PostponeHours, PostponeDays} \subseteq Nat
  /\ {Heightened, Cooldown, CapBlock, ErnBlock, Rendering} \subseteq Nat
  /\ Policy \in [Tests -> {"none", "fixed_delay", "delay_window", "next_day"}]

VARIABLES
  now,             \* the slot
  mode,            \* "normal" or "heightened"
  heightenedUntil, \* heightened_until
  lastToneout,     \* last_toneout_at
  lastSevere,      \* cap_last_severe_at
  lastErn,         \* ern_last_tone_at
  airing,          \* of each poller: when its alert under way was matched
  alerts,          \* alerts matched so far
  owed,            \* history: until when the last that set it keeps the mode
  plan,            \* what the scheduler does: [step, test, due, at, blocked]
  ranIn,           \* TestState: the last period of each test
  savedIn,         \* scheduler_state: the same
  fileIn,          \* state_path: the same, as the last failed save left it
  saveFaults,      \* failed statements so far
  sentIn,          \* history: the period in which each test last went out
  times,           \* history: how often it did in that period
  atRisk,          \* history: the tests whose last time no save has kept yet
  losses           \* history: how often the period's record was lost

timesVars == <<lastToneout, lastSevere, lastErn>>
modeVars == <<mode, heightenedUntil, timesVars, airing, alerts, owed>>
savedVars == <<ranIn, savedIn, fileIn, saveFaults>>
sentVars == <<sentIn, times, atRisk, losses>>
schedulerVars == <<plan, savedVars, sentVars>>

NoPlan == [step |-> "plan", test |-> "RWT", due |-> 0, at |-> 0, blocked |-> 0]

NoPeriods == [x \in Tests |-> Never]

\* An earlier life has left a row without a period.
SchedulerInit ==
  /\ now = 0
  /\ mode = "normal" /\ heightenedUntil = Never /\ owed = Never
  /\ lastToneout = Never /\ lastSevere = Never /\ lastErn = Never
  /\ airing = [p \in Pollers |-> Never] /\ alerts = 0
  /\ plan = NoPlan
  /\ ranIn = NoPeriods /\ savedIn = NoPeriods /\ fileIn = NoPeriods /\ saveFaults = 0
  /\ sentIn = NoPeriods /\ times = [x \in Tests |-> 0]
  /\ atRisk = {} /\ losses = [x \in Tests |-> 0]
-------------------------------------------------------------------------------
(* The broadcast mode: main.py and those that tone out.                    *)

ModeAt(until) == IF until # Never /\ now < until THEN "heightened" ELSE "normal"

\* Mutated form: what tones out in heightened mode leaves its end alone.
HeightenOnce(until, keep) ==
  /\ heightenedUntil' = IF mode = "heightened" THEN heightenedUntil ELSE until
  /\ mode' = ModeAt(heightenedUntil')
  /\ owed' = keep

\* heightened_until is set, then _update_mode called.
Heighten(until, keep) ==
  /\ heightenedUntil' = until
  /\ mode' = ModeAt(until)
  /\ owed' = keep

\* The least time the mode stays after an alert: what its rendering took is
\* off it.
LeastUntil == now + Heightened - Rendering

\* CapRuntime.run or IPAWS: an alert matches; the clock is read before it is
\* rendered and queued.  A severe one counts even if it is not toned out.
Match(p, severe, full) ==
  /\ airing[p] = Never /\ alerts < MaxAlerts
  /\ full \/ severe
  /\ severe => p = "CAP"
  /\ alerts' = alerts + 1
  /\ lastSevere' = IF severe THEN now ELSE lastSevere
  /\ airing' = IF full THEN [airing EXCEPT ![p] = now] ELSE airing
  /\ UNCHANGED <<mode, heightenedUntil, lastToneout, lastErn, owed>>

\* air_full, when it has aired: with the time that was read before.
Aired(p) ==
  /\ airing[p] # Never
  /\ airing' = [airing EXCEPT ![p] = Never]
  /\ lastToneout' = airing[p]
  /\ Heighten(airing[p] + Heightened, LeastUntil)
  /\ UNCHANGED <<lastSevere, lastErn, alerts>>

\* ... or its rendering fails.
Unaired(p) ==
  /\ airing[p] # Never
  /\ airing' = [airing EXCEPT ![p] = Never]
  /\ UNCHANGED <<mode, heightenedUntil, timesVars, alerts, owed>>

\* nwws_runtime and the manual messages read the clock after they aired.
ToneoutNow ==
  /\ lastToneout' = now
  /\ Heighten(now + Heightened, LeastUntil)
  /\ UNCHANGED <<lastSevere, lastErn, airing>>

Toneout == alerts < MaxAlerts /\ alerts' = alerts + 1 /\ ToneoutNow

\* ErnRelayRuntime.run: a header of a tone-out event is heard.
HeardTone ==
  /\ alerts < MaxAlerts /\ alerts' = alerts + 1
  /\ lastErn' = now
  /\ UNCHANGED <<mode, heightenedUntil, lastToneout, lastSevere, airing, owed>>

\* set_heightened_mode, which may as well bring the end forward, and
\* clear_heightened_mode.
SetHeightened(long) ==
  /\ Heighten(now + long, now + long)
  /\ UNCHANGED <<timesVars, airing, alerts>>

ClearHeightened ==
  /\ Heighten(Never, Never)
  /\ UNCHANGED <<timesVars, airing, alerts>>

\* get_status, the one call of _update_mode that follows no change.
UpdateMode ==
  /\ mode' = ModeAt(heightenedUntil)
  /\ UNCHANGED <<heightenedUntil, timesVars, airing, alerts, owed>>

\* Something is recorded, and less than a time ago.
Recent(at, time) == at # Never /\ now - at < time

\* RequiredTestRuntime.gate.
GateOpen(test) ==
  /\ ~(test \in BlockHeightened /\ heightenedUntil # Never /\ now < heightenedUntil)
  /\ ~(test \in BlockToneout /\ Recent(lastToneout, Cooldown))
  /\ ~(test \in BlockCap /\ Recent(lastSevere, CapBlock))
  /\ ~(test \in BlockErn /\ Recent(lastErn, ErnBlock))
-------------------------------------------------------------------------------
(* The scheduler: broadcast/rwt_rmt.py.                                    *)

Length(test) == IF test = "RWT" THEN Week ELSE Month

\* _weekly_period_key and _monthly_period_key.
Period(test, slot) == slot \div Length(test)

\* _next_weekly and _next_monthly_nth_weekday: the first slot after this one.
NextAt(test) ==
  LET n == now - (now % Length(test)) + At[test]
  IN  IF n > now THEN n ELSE n + Length(test)

\* Mutated form: saved before the new period is recorded.
SaveEarly(periods, fails) ==
  /\ fails => saveFaults < MaxSaveFaults
  /\ saveFaults' = saveFaults + (IF fails THEN 1 ELSE 0)
  /\ savedIn' = IF fails THEN savedIn ELSE ranIn
  /\ fileIn' = IF fails THEN ranIn ELSE fileIn

\* TestState.save: to the row of the repository, when that fails to the file.
Save(periods, fails) ==
  /\ fails => saveFaults < MaxSaveFaults
  /\ saveFaults' = saveFaults + (IF fails THEN 1 ELSE 0)
  /\ savedIn' = IF fails THEN savedIn ELSE periods
  /\ fileIn' = IF fails THEN periods ELSE fileIn

\* A save on the way, of what is known.
SaveKnown(fails) ==
  /\ Save(ranIn, fails)
  /\ atRisk' = IF fails THEN atRisk ELSE {}
  /\ UNCHANGED <<ranIn, sentIn, times, losses>>

\* run_forever from the top: the earlier of the two, each with its jitter,
\* and the monthly test if they are due at once; the plan is saved.
PlanNext(jitter, fails) ==
  /\ plan.step = "plan"
  /\ LET due  == [x \in Tests |-> NextAt(x) + jitter[x]]
         test == IF due["RMT"] <= due["RWT"] THEN "RMT" ELSE "RWT"
     IN  plan' = [step |-> "wait", test |-> test, due |-> due[test],
                  at |-> due[test], blocked |-> 0]
  /\ SaveKnown(fails)

\* It is due: a test that ran in this period is skipped.
Due ==
  /\ plan.step = "wait" /\ now >= plan.due
  /\ plan' = IF ranIn[plan.test] = Period(plan.test, plan.due) THEN NoPlan
             ELSE [plan EXCEPT !.step = "attempt"]
  /\ UNCHANGED <<savedVars, sentVars>>

\* _next_postpone_attempt: when to try again, or Never.
NextAttempt(test, due, blocked) ==
  LET later == now + Postpone
      inTime == IF later <= due + PostponeHours THEN later ELSE Never
  IN  CASE Policy[test] = "none"         -> Never
        [] Policy[test] = "fixed_delay"  -> IF blocked >= 1 THEN Never ELSE inTime
        [] Policy[test] = "delay_window" -> inTime
        [] Policy[test] = "next_day"     -> IF blocked >= PostponeDays THEN Never
                                            ELSE due + (blocked + 1) * Day

\* _attempt_with_postpone finds the gate closed; meanwhile the other test
\* waits.  A new attempt is saved, giving up is not.
PostponeTest(fails) ==
  /\ plan.step = "attempt" /\ now >= plan.at
  /\ ~GateOpen(plan.test)
  /\ LET next == NextAttempt(plan.test, plan.due, plan.blocked)
     IN  \/ /\ next = Never /\ ~fails
            /\ plan' = NoPlan
            /\ UNCHANGED <<savedVars, sentVars>>
         \/ /\ next # Never
            /\ plan' = [plan EXCEPT !.at = next, !.blocked = @ + 1]
            /\ SaveKnown(fails)

\* ... or open: the test is rendered and queued, which takes its time.
Fire ==
  /\ plan.step = "attempt" /\ now >= plan.at
  /\ GateOpen(plan.test)
  /\ plan' = [plan EXCEPT !.step = "fire"]
  /\ UNCHANGED <<savedVars, sentVars>>

\* The period in which the test went out is recorded.
Record(test) == [ranIn EXCEPT ![test] = Period(test, now)]

\* The histories when the tests of a set go out: how often they did in this
\* period, and how often the record of it was lost.
SentNow(out) == [x \in Tests |-> IF x \in out THEN Period(x, now) ELSE sentIn[x]]
Again(x) == sentIn[x] = Period(x, now)
TimesNow(out) ==
  [x \in Tests |-> IF x \notin out THEN times[x] ELSE IF Again(x) THEN times[x] + 1 ELSE 1]
LossesNow(out) ==
  [x \in Tests |-> IF x \in out /\ ~Again(x) THEN 0 ELSE losses[x]]

\* The test went out: from here to the save there is no await.
Fired(fails) ==
  /\ plan.step = "fire"
  /\ ranIn' = Record(plan.test)
  /\ Save(ranIn', fails)
  /\ sentIn' = SentNow({plan.test})
  /\ times' = TimesNow({plan.test}) /\ losses' = LossesNow({plan.test})
  /\ atRisk' = IF fails THEN atRisk \cup {plan.test} ELSE {}
  /\ plan' = NoPlan

\* TestState.load: the row, unless reading it fails; then the file, which is
\* written to the row if there is one.
Load(fails) ==
  /\ fails => saveFaults < MaxSaveFaults
  /\ saveFaults' = saveFaults + (IF fails THEN 1 ELSE 0)
  /\ ranIn' = IF fails THEN fileIn ELSE savedIn
  /\ savedIn' \in {savedIn, ranIn'}
  /\ UNCHANGED fileIn

\* The process ends, perhaps with a test on the air that nothing recorded,
\* and starts again.  What was at risk is lost, and everything if the row
\* cannot be read.
SchedulerCrash(fails) ==
  /\ plan' = NoPlan
  /\ Load(fails)
  /\ \E out \in SUBSET (IF plan.step = "fire" THEN {plan.test} ELSE {}) :
       LET lost == IF fails THEN Tests ELSE atRisk \cup out IN
       /\ sentIn' = SentNow(out) /\ times' = TimesNow(out)
       /\ losses' = [x \in Tests |-> LossesNow(out)[x] + (IF x \in lost THEN 1 ELSE 0)]
  /\ atRisk' = IF fails THEN Tests ELSE {}
  /\ mode' = "normal" /\ heightenedUntil' = Never /\ owed' = Never
  /\ lastToneout' = Never /\ lastSevere' = Never /\ lastErn' = Never
  /\ airing' = [p \in Pollers |-> Never]
  /\ UNCHANGED alerts

\* Whatever the scheduler waits for has come.
Acts == \/ plan.step = "plan"
        \/ plan.step = "wait" /\ now >= plan.due
        \/ plan.step = "attempt" /\ now >= plan.at

Tick ==
  /\ now < Horizon /\ ~Acts
  /\ \A p \in Pollers : Recent(airing[p], Rendering) \/ airing[p] = Never
  /\ now' = now + 1
===============================================================================
