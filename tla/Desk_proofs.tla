----------------------------- MODULE Desk_proofs -----------------------------
(***************************************************************************)
(* Proofs about Desk, for any keys, calendars, policies and bounds.        *)
(*                                                                         *)
(* The argument: a request runs its command between MarkRunning and        *)
(* Finish, and holds the row of its key from its acceptance on; so does a  *)
(* key whose command was carried out.  Only the pruning takes a row away,  *)
(* and a key with a row is never accepted again.                           *)
(*                                                                         *)
(* Of the tests: the scheduler pursues one at a time, so that no test goes *)
(* out while one is planned but that one.  What is recorded went out in    *)
(* the period of the plan's slot at the latest, before it if the scheduler *)
(* found it not to have run; and it fires in that slot or later.  A record *)
(* that a restart does not find was lost, and the loss is counted.         *)
(*                                                                         *)
(* Of the mode: the time an alert sets may be as old as a rendering, and   *)
(* takes the place of a later one; it still reaches as far as is owed.     *)
(***************************************************************************)
EXTENDS Desk, TLAPS

RecordsTyped ==
  /\ known \in [Keys -> Status \cup {None}]
  /\ stored \in [Keys -> Status \cup {None}]
  /\ calls \in [Keys -> {"idle", "accepted", "running"} \cup Ended]
  /\ ran \in [Keys -> Nat]

(* Who is at work on a command, or has done it, holds its row.             *)
RowKept ==
  \A k \in Keys \ pruned : calls[k] # "idle" \/ ran[k] > 0 => stored[k] # None

(* A command that is still to be carried out has not been so before.       *)
NotYetRan ==
  \A k \in Keys \ pruned : calls[k] \in {"accepted", "running"} => ran[k] = 0

CommandsInv == RecordsTyped /\ RowKept /\ NotYetRan /\ RanOnce

-------------------------------------------------------------------------------
(* A statement that writes a status keeps the row, if not makes it.        *)
LEMMA PersistKeeps ==
  ASSUME RecordsTyped, NEW k \in Keys, NEW status \in Status,
         NEW insert \in BOOLEAN, NEW failing \in BOOLEAN, Persist(k, status, insert, failing)
  PROVE  /\ stored' \in [Keys -> Status \cup {None}]
         /\ \A j \in Keys : stored[j] # None => stored'[j] # None
         /\ insert /\ ~failing => stored'[k] # None
PROOF
<1>1. status # None
  BY NoRecordAssumption DEF Status, Ended
<1>2. QED
  BY <1>1 DEF Persist, RecordsTyped

LEMMA AcceptStep ==
  ASSUME CommandsInv, NEW k \in Keys, NEW failing \in BOOLEAN, Accept(k, failing)
  PROVE  CommandsInv'
PROOF
<1>. USE DEF CommandsInv
<1>1. /\ Existing(k) = None /\ Persist(k, "pending", TRUE, failing)
      /\ known' = [known EXCEPT ![k] = "pending"]
      /\ calls' = [calls EXCEPT ![k] = IF failing THEN "idle" ELSE "accepted"]
      /\ UNCHANGED <<ran, pruned>>
  BY DEF Accept
<1>2. "pending" \in Status
  BY DEF Status
<1>3. /\ stored' \in [Keys -> Status \cup {None}]
      /\ \A j \in Keys : stored[j] # None => stored'[j] # None
      /\ ~failing => stored'[k] # None
  BY <1>1, <1>2, PersistKeeps
<1>4. stored[k] = None
  BY <1>1 DEF Existing
<1>5. k \notin pruned => ran[k] = 0
  BY <1>4 DEF RowKept, RecordsTyped
<1>6. RecordsTyped'
  BY <1>1, <1>2, <1>3 DEF RecordsTyped
<1>7. RowKept' /\ NotYetRan'
  BY <1>1, <1>3, <1>5 DEF RowKept, NotYetRan, RecordsTyped
<1>8. RanOnce'
  BY <1>1 DEF RanOnce
<1>9. QED
  BY <1>6, <1>7, <1>8

(* The steps that write a status of a key that has one.                    *)
LEMMA RecordStep ==
  ASSUME CommandsInv, NEW k \in Keys, NEW failing \in BOOLEAN,
         Replay(k, failing) \/ MarkRunning(k, failing) \/ Finish(k, failing)
  PROVE  CommandsInv'
PROOF
<1>. USE DEF CommandsInv
<1>1. PICK status \in Status :
        /\ known' = [known EXCEPT ![k] = status]
        /\ Persist(k, status, FALSE, failing)
  <2>1. CASE Replay(k, failing)
    <3>1. Existing(k) \in Status
      BY <2>1 DEF Replay, Existing, RecordsTyped
    <3>2. QED
      BY <2>1, <3>1 DEF Replay
  <2>2. CASE MarkRunning(k, failing)
    BY <2>2 DEF MarkRunning, Status
  <2>3. CASE Finish(k, failing)
    BY <2>3 DEF Finish, Status
  <2>4. QED
    BY <2>1, <2>2, <2>3
<1>2. UNCHANGED <<ran, pruned>>
  BY DEF Replay, MarkRunning, Finish
<1>3. /\ calls' \in [Keys -> {"idle", "accepted", "running"} \cup Ended]
      /\ \A j \in Keys : calls'[j] # "idle" => calls[j] # "idle"
      /\ \A j \in Keys : calls'[j] \in {"accepted", "running"} => calls[j] \in {"accepted", "running"}
  <2>1. CASE Replay(k, failing)
    BY <2>1 DEF Replay, RecordsTyped
  <2>2. CASE MarkRunning(k, failing)
    BY <2>2 DEF MarkRunning, RecordsTyped
  <2>3. CASE Finish(k, failing)
    BY <2>3 DEF Finish, RecordsTyped
  <2>4. QED
    BY <2>1, <2>2, <2>3
<1>4. /\ stored' \in [Keys -> Status \cup {None}]
      /\ \A j \in Keys : stored[j] # None => stored'[j] # None
  BY <1>1, PersistKeeps
<1>5. RecordsTyped'
  BY <1>1, <1>2, <1>3, <1>4 DEF RecordsTyped
<1>6. RowKept' /\ NotYetRan' /\ RanOnce'
  BY <1>2, <1>3, <1>4 DEF RowKept, NotYetRan, RanOnce
<1>7. QED
  BY <1>5, <1>6

LEMMA ExecuteStep ==
  ASSUME CommandsInv, NEW k \in Keys, NEW done \in BOOLEAN, Execute(k, done)
  PROVE  CommandsInv'
PROOF
<1>. USE DEF CommandsInv
<1>1. /\ calls[k] = "running"
      /\ calls' = [calls EXCEPT ![k] = IF done THEN "succeeded" ELSE "failed"]
      /\ ran' = [ran EXCEPT ![k] = IF done THEN ran[k] + 1 ELSE ran[k]]
      /\ UNCHANGED <<known, stored, pruned>>
  BY DEF Execute
<1>2. k \notin pruned => ran[k] = 0 /\ stored[k] # None
  BY <1>1 DEF NotYetRan, RowKept
<1>3. RecordsTyped'
  BY <1>1 DEF RecordsTyped, Ended
<1>4. RowKept'
  BY <1>1, <1>2 DEF RowKept, RecordsTyped
<1>5. NotYetRan' /\ RanOnce'
  BY <1>1, <1>2 DEF NotYetRan, RanOnce, RecordsTyped
<1>6. QED
  BY <1>3, <1>4, <1>5

LEMMA PruneStep ==
  ASSUME CommandsInv, NEW k \in Keys, Prune(k)
  PROVE  CommandsInv'
PROOF
<1>1. /\ stored' = [stored EXCEPT ![k] = None] /\ pruned' = pruned \cup {k}
      /\ UNCHANGED <<known, calls, ran>>
  BY DEF Prune
<1>2. QED
  BY <1>1 DEF CommandsInv, RecordsTyped, RowKept, NotYetRan, RanOnce

LEMMA CrashStep ==
  ASSUME CommandsInv, CommandsCrash
  PROVE  CommandsInv'
PROOF
<1>1. /\ known' = [k \in Keys |-> None] /\ calls' = [k \in Keys |-> "idle"]
      /\ UNCHANGED <<stored, ran, pruned>>
  BY DEF CommandsCrash
<1>2. QED
  BY <1>1 DEF CommandsInv, RecordsTyped, RowKept, NotYetRan, RanOnce

LEMMA DeskInductive == CommandsInv /\ [Next]_vars => CommandsInv'
PROOF
<1>. SUFFICES ASSUME CommandsInv, [Next]_vars PROVE CommandsInv'
  OBVIOUS
<1>1. CASE UNCHANGED commandVars
  BY <1>1 DEF commandVars, CommandsInv, RecordsTyped, RowKept, NotYetRan, RanOnce
<1>2. ASSUME NEW k \in Keys, Command(k) PROVE CommandsInv'
  BY <1>2, AcceptStep, RecordStep, PruneStep DEF Command
<1>3. ASSUME NEW k \in Keys, CarryOut(k) \/ Refuse(k) PROVE CommandsInv'
  BY <1>3, ExecuteStep DEF CarryOut, Refuse
<1>4. CASE Crash
  BY <1>4, CrashStep DEF Crash
<1>5. CASE Alert \/ GetStatus \/ Schedule \/ Clock \/ UNCHANGED vars
  BY <1>1, <1>5 DEF Alert, GetStatus, Schedule, Clock, vars, commandVars
<1>6. QED
  BY <1>2, <1>3, <1>4, <1>5 DEF Next

(* However clients repeat, statements fail and the process ends, and       *)
(* whatever alerts and the scheduler do next to it: a command is carried   *)
(* out once as long as its row is kept.                                    *)
THEOREM CarriedOutOnce == Spec => []RanOnce
PROOF
<1>1. Init => CommandsInv
  BY DEF Init, CommandsInit, CommandsInv, RecordsTyped, RowKept, NotYetRan, RanOnce
<1>2. CommandsInv => RanOnce
  BY DEF CommandsInv
<1>3. QED
  BY <1>1, <1>2, DeskInductive, PTL DEF Spec

-------------------------------------------------------------------------------
(* Times.                                                                  *)

Steps == {"plan", "wait", "attempt", "fire"}

Periods == [Tests -> Int]

ScheduleTyped ==
  /\ now \in Nat
  /\ plan \in [step : Steps, test : Tests, due : Nat, at : Int, blocked : Nat]
  /\ ranIn \in Periods /\ savedIn \in Periods /\ fileIn \in Periods /\ sentIn \in Periods
  /\ times \in [Tests -> Nat] /\ losses \in [Tests -> Nat] /\ atRisk \subseteq Tests

(* No period is recorded before it has begun, and that of a plan under way *)
(* not before the test goes out.                                           *)
OnRecord ==
  /\ \A x \in Tests : /\ ranIn[x] <= Period(x, now)
                      /\ savedIn[x] <= Period(x, now) /\ fileIn[x] <= Period(x, now)
  /\ plan.step # "plan" => ranIn[plan.test] <= Period(plan.test, plan.due)
  /\ plan.step \in {"attempt", "fire"} =>
       now >= plan.due /\ ranIn[plan.test] < Period(plan.test, plan.due)

(* What is not at risk is saved; and a test whose last time is not on      *)
(* record has lost it.                                                     *)
Accounted ==
  /\ \A x \in Tests \ atRisk : savedIn[x] = ranIn[x]
  /\ \A x \in Tests : ranIn[x] # sentIn[x] => times[x] <= losses[x]
  /\ OncePerPeriod

ScheduleInv == ScheduleTyped /\ OnRecord /\ Accounted

LEMMA PeriodMonotone ==
  ASSUME NEW x \in Tests, NEW a \in Nat, NEW b \in Nat, a <= b
  PROVE  Period(x, a) \in Nat /\ Period(x, b) \in Nat /\ Period(x, a) <= Period(x, b)
PROOF
<1>1. Length(x) \in Nat \ {0}
  BY ScheduleAssumption DEF Length
<1>2. ASSUME NEW n \in Nat \ {0}
      PROVE  a \div n \in Nat /\ b \div n \in Nat /\ a \div n <= b \div n
  OBVIOUS
<1>3. QED
  BY <1>1, <1>2 DEF Period

(* The next slot of a test is ahead.                                       *)
LEMMA NextIsAhead ==
  ASSUME ScheduleTyped, NEW x \in Tests
  PROVE  NextAt(x) \in Nat /\ NextAt(x) > now
PROOF
<1>1. Length(x) \in Nat \ {0} /\ At[x] \in Nat
  BY ScheduleAssumption DEF Length
<1>2. ASSUME NEW n \in Nat \ {0} PROVE now % n \in 0 .. n - 1 /\ now % n <= now
  BY DEF ScheduleTyped
<1>3. now % Length(x) \in 0 .. Length(x) - 1 /\ now % Length(x) <= now
  BY <1>1, <1>2
<1>4. QED
  BY <1>1, <1>3 DEF NextAt, ScheduleTyped

(* A save on the way keeps the account.                                    *)
LEMMA SaveKeeps ==
  ASSUME ScheduleInv, NEW fails \in BOOLEAN, SaveKnown(fails), now' = now
  PROVE  /\ UNCHANGED <<ranIn, sentIn, times, losses>>
         /\ savedIn' \in Periods /\ fileIn' \in Periods /\ atRisk' \subseteq Tests
         /\ \A x \in Tests : /\ ranIn'[x] <= Period(x, now')
                             /\ savedIn'[x] <= Period(x, now') /\ fileIn'[x] <= Period(x, now')
         /\ Accounted'
PROOF
<1>. USE DEF ScheduleInv, ScheduleTyped
<1>1. /\ UNCHANGED <<ranIn, sentIn, times, losses>>
      /\ savedIn' = IF fails THEN savedIn ELSE ranIn
      /\ fileIn' = IF fails THEN ranIn ELSE fileIn
      /\ atRisk' = IF fails THEN atRisk ELSE {}
  BY DEF SaveKnown, Save
<1>2. savedIn' \in Periods /\ fileIn' \in Periods /\ atRisk' \subseteq Tests
  BY <1>1
<1>3. \A x \in Tests : /\ ranIn'[x] <= Period(x, now')
                      /\ savedIn'[x] <= Period(x, now') /\ fileIn'[x] <= Period(x, now')
  BY <1>1 DEF OnRecord, Period, Length
<1>4. Accounted'
  BY <1>1 DEF Accounted, OncePerPeriod
<1>5. QED
  BY <1>1, <1>2, <1>3, <1>4

LEMMA PlanStep ==
  ASSUME ScheduleInv, UNCHANGED now, NEW jitter \in Jitters, NEW fails \in BOOLEAN,
         PlanNext(jitter, fails)
  PROVE  ScheduleInv'
PROOF
<1>. DEFINE due == [x \in Tests |-> NextAt(x) + jitter[x]]
            test == IF due["RMT"] <= due["RWT"] THEN "RMT" ELSE "RWT"
<1>1. plan' = [step |-> "wait", test |-> test, due |-> due[test], at |-> due[test], blocked |-> 0]
      /\ SaveKnown(fails)
  BY DEF PlanNext
<1>2. \A x \in Tests : due[x] \in Nat /\ due[x] > now
  BY NextIsAhead, ScheduleAssumption DEF ScheduleInv, ScheduleTyped, Jitters
<1>3. test \in Tests
  BY DEF Tests
<1>. HIDE DEF due, test
<1>4. /\ UNCHANGED <<ranIn, sentIn, times, losses>>
      /\ savedIn' \in Periods /\ fileIn' \in Periods /\ atRisk' \subseteq Tests
      /\ \A x \in Tests : /\ ranIn'[x] <= Period(x, now')
                          /\ savedIn'[x] <= Period(x, now') /\ fileIn'[x] <= Period(x, now')
      /\ Accounted'
  BY <1>1, SaveKeeps
<1>5. ScheduleTyped'
  <2>1. plan' \in [step : Steps, test : Tests, due : Nat, at : Int, blocked : Nat]
    BY <1>1, <1>2, <1>3 DEF Steps
  <2>2. QED
    BY <1>4, <2>1 DEF ScheduleInv, ScheduleTyped
<1>6. OnRecord'
  <2>1. Period(test, now) \in Nat /\ Period(test, due[test]) \in Nat
        /\ Period(test, now) <= Period(test, due[test])
    BY <1>2, <1>3, PeriodMonotone DEF ScheduleInv, ScheduleTyped
  <2>2. ranIn[test] <= Period(test, now) /\ ranIn[test] \in Int
    BY <1>3 DEF ScheduleInv, ScheduleTyped, OnRecord, Periods
  <2>3. ranIn[test] <= Period(test, due[test])
    BY <2>1, <2>2
  <2>4. plan'.step = "wait" /\ ranIn'[plan'.test] <= Period(plan'.test, plan'.due)
    BY <1>1, <1>4, <2>3
  <2>5. QED
    BY <1>4, <2>4 DEF OnRecord, Period, Length
<1>7. QED
  BY <1>4, <1>5, <1>6 DEF ScheduleInv

(* It is due, is put off, or fires: nothing goes out.                      *)
LEMMA AttemptStep ==
  ASSUME ScheduleInv, UNCHANGED now, NEW fails \in BOOLEAN, Due \/ PostponeTest(fails) \/ Fire
  PROVE  ScheduleInv'
PROOF
<1>1. /\ UNCHANGED <<ranIn, sentIn, times, losses>>
      /\ savedIn' \in Periods /\ fileIn' \in Periods /\ atRisk' \subseteq Tests
      /\ \A x \in Tests : /\ ranIn'[x] <= Period(x, now')
                          /\ savedIn'[x] <= Period(x, now') /\ fileIn'[x] <= Period(x, now')
      /\ Accounted'
  <2>1. CASE SaveKnown(fails)
    BY <2>1, SaveKeeps
  <2>2. CASE UNCHANGED <<savedVars, sentVars>>
    BY <2>2 DEF savedVars, sentVars, ScheduleInv, ScheduleTyped, OnRecord, Accounted,
       OncePerPeriod, Period, Length
  <2>3. QED
    BY <2>1, <2>2 DEF Due, PostponeTest, Fire
<1>2. plan.step # "plan"
  BY DEF Due, PostponeTest, Fire
<1>. USE DEF ScheduleInv, ScheduleTyped
<1>3. /\ plan' \in [step : Steps, test : Tests, due : Nat, at : Int, blocked : Nat]
      /\ \/ plan'.step = "plan"
         \/ /\ plan'.test = plan.test /\ plan'.due = plan.due
            /\ \/ plan.step = "attempt" /\ plan'.step \in {"attempt", "fire"}
               \/ /\ plan.step = "wait" /\ plan'.step = "attempt" /\ now >= plan.due
                  /\ ranIn[plan.test] # Period(plan.test, plan.due)
  <2>1. CASE Due
    BY <2>1 DEF Due, NoPlan, Steps, Tests
  <2>2. CASE PostponeTest(fails)
    <3>. DEFINE next == NextAttempt(plan.test, plan.due, plan.blocked)
    <3>1. \/ plan' = NoPlan
          \/ plan' = [plan EXCEPT !.at = next, !.blocked = plan.blocked + 1]
      BY <2>2 DEF PostponeTest
    <3>2. next \in Int
      <4>1. Policy[plan.test] \in {"none", "fixed_delay", "delay_window", "next_day"}
        BY ScheduleAssumption
      <4>2. PostponeDays \in Nat /\ PostponeHours \in Nat /\ Postpone \in Nat /\ Day \in Nat
        BY ScheduleAssumption
      <4>3. (plan.blocked + 1) * Day \in Int
        BY <4>2
      <4>4. QED
        BY <4>1, <4>2, <4>3 DEF NextAttempt, Never
    <3>3. plan.step = "attempt"
      BY <2>2 DEF PostponeTest
    <3>. HIDE DEF next
    <3>4. CASE plan' = NoPlan
      BY <3>4 DEF NoPlan, Steps, Tests
    <3>5. CASE plan' = [plan EXCEPT !.at = next, !.blocked = plan.blocked + 1]
      <4>1. plan.blocked + 1 \in Nat
        OBVIOUS
      <4>2. plan' \in [step : Steps, test : Tests, due : Nat, at : Int, blocked : Nat]
        BY <3>2, <3>5, <4>1
      <4>3. plan'.step = "attempt" /\ plan'.test = plan.test /\ plan'.due = plan.due
        BY <3>3, <3>5
      <4>4. QED
        BY <3>3, <4>2, <4>3
    <3>6. QED
      BY <3>1, <3>4, <3>5
  <2>3. CASE Fire
    BY <2>3 DEF Fire, Steps
  <2>4. QED
    BY <2>1, <2>2, <2>3
<1>4. ScheduleTyped'
  BY <1>1, <1>3
<1>5. OnRecord'
  <2>1. CASE plan'.step = "plan"
    BY <1>1, <2>1 DEF OnRecord, Period, Length
  <2>2. CASE plan'.step # "plan"
    <3>1. ranIn[plan.test] <= Period(plan.test, plan.due) /\ ranIn[plan.test] \in Int
      BY <1>2 DEF OnRecord, Periods
    <3>2. Period(plan.test, plan.due) \in Nat
      BY PeriodMonotone
    <3>3. now >= plan.due /\ ranIn[plan.test] < Period(plan.test, plan.due)
      BY <1>3, <2>2, <3>1, <3>2 DEF OnRecord
    <3>4. plan'.test = plan.test /\ plan'.due = plan.due
      BY <1>3, <2>2
    <3>5. QED
      BY <1>1, <3>1, <3>3, <3>4 DEF OnRecord, Period, Length
  <2>3. QED
    BY <2>1, <2>2
<1>6. QED
  BY <1>1, <1>4, <1>5

(* When a test goes out that is to fire, in a period that is not on        *)
(* record: either it is the first time in it, or the record was lost.      *)
LEMMA GoingOut ==
  ASSUME ScheduleInv, plan.step = "fire", NEW out \in SUBSET {plan.test}
  PROVE  /\ SentNow(out) \in Periods
         /\ TimesNow(out) \in [Tests -> Nat] /\ LossesNow(out) \in [Tests -> Nat]
         /\ \A x \in Tests : TimesNow(out)[x] <= 1 + LossesNow(out)[x]
         /\ \A x \in Tests \ out : /\ SentNow(out)[x] = sentIn[x]
                                   /\ TimesNow(out)[x] = times[x] /\ LossesNow(out)[x] = losses[x]
         /\ \A x \in out : SentNow(out)[x] = Period(x, now) /\ x \in Tests
PROOF
<1>. USE DEF ScheduleInv, ScheduleTyped
<1>1. Period(plan.test, now) \in Nat /\ Period(plan.test, plan.due) \in Nat
      /\ Period(plan.test, plan.due) <= Period(plan.test, now)
  BY PeriodMonotone DEF OnRecord
<1>2. ranIn[plan.test] # Period(plan.test, now)
  <2>1. ranIn[plan.test] \in Int /\ ranIn[plan.test] < Period(plan.test, plan.due)
    BY DEF OnRecord, Periods
  <2>2. QED
    BY <1>1, <2>1
<1>3. Again(plan.test) => times[plan.test] <= losses[plan.test]
  BY <1>2 DEF Again, Accounted
<1>4. SentNow(out) \in Periods
  BY <1>1 DEF SentNow, Periods
<1>5. TimesNow(out) \in [Tests -> Nat]
  BY DEF TimesNow
<1>6. LossesNow(out) \in [Tests -> Nat]
  BY DEF LossesNow
<1>7. \A x \in Tests \ out : /\ SentNow(out)[x] = sentIn[x]
                            /\ TimesNow(out)[x] = times[x] /\ LossesNow(out)[x] = losses[x]
  BY DEF SentNow, TimesNow, LossesNow
<1>8. \A x \in out : SentNow(out)[x] = Period(x, now) /\ x \in Tests
  BY DEF SentNow
<1>9. ASSUME NEW x \in Tests PROVE TimesNow(out)[x] <= 1 + LossesNow(out)[x]
  <2>1. CASE x \notin out
    BY <1>7, <2>1 DEF Accounted, OncePerPeriod
  <2>2. CASE x \in out /\ Again(x)
    <3>1. TimesNow(out)[x] = times[x] + 1 /\ LossesNow(out)[x] = losses[x] /\ x = plan.test
      BY <2>2 DEF TimesNow, LossesNow
    <3>2. times[x] \in Nat /\ losses[x] \in Nat
      OBVIOUS
    <3>3. QED
      BY <1>3, <2>2, <3>1, <3>2
  <2>3. CASE x \in out /\ ~Again(x)
    BY <2>3 DEF TimesNow, LossesNow
  <2>4. QED
    BY <2>1, <2>2, <2>3
<1>10. QED
  BY <1>4, <1>5, <1>6, <1>7, <1>8, <1>9

LEMMA FiredStep ==
  ASSUME ScheduleInv, UNCHANGED now, NEW fails \in BOOLEAN, Fired(fails)
  PROVE  ScheduleInv'
PROOF
<1>. DEFINE x0 == plan.test
<1>. USE DEF ScheduleInv, ScheduleTyped
<1>1. /\ plan.step = "fire" /\ plan' = NoPlan
      /\ ranIn' = [ranIn EXCEPT ![x0] = Period(x0, now)]
      /\ savedIn' = IF fails THEN savedIn ELSE ranIn'
      /\ fileIn' = IF fails THEN ranIn' ELSE fileIn
      /\ sentIn' = SentNow({x0}) /\ times' = TimesNow({x0}) /\ losses' = LossesNow({x0})
      /\ atRisk' = IF fails THEN atRisk \cup {x0} ELSE {}
  BY DEF Fired, Record, Save
<1>2. Period(x0, now) \in Nat /\ x0 \in Tests
  BY PeriodMonotone
<1>. HIDE DEF x0
<1>3. /\ sentIn' \in Periods /\ times' \in [Tests -> Nat] /\ losses' \in [Tests -> Nat]
      /\ \A x \in Tests : times'[x] <= 1 + losses'[x]
      /\ \A x \in Tests \ {x0} : sentIn'[x] = sentIn[x] /\ times'[x] = times[x] /\ losses'[x] = losses[x]
      /\ sentIn'[x0] = Period(x0, now)
  BY <1>1, GoingOut DEF x0
<1>4. ranIn' \in Periods /\ savedIn' \in Periods /\ fileIn' \in Periods /\ atRisk' \subseteq Tests
  BY <1>1, <1>2 DEF Periods
<1>5. ScheduleTyped'
  BY <1>1, <1>3, <1>4 DEF NoPlan, Steps, Tests
<1>6. OnRecord'
  <2>1. \A x \in Tests : ranIn'[x] <= Period(x, now)
    BY <1>1, <1>2 DEF OnRecord, Periods
  <2>2. \A x \in Tests : savedIn'[x] <= Period(x, now) /\ fileIn'[x] <= Period(x, now)
    BY <1>1, <2>1 DEF OnRecord
  <2>3. plan'.step = "plan"
    BY <1>1 DEF NoPlan
  <2>4. QED
    BY <2>1, <2>2, <2>3 DEF OnRecord, Period, Length
<1>7. Accounted'
  <2>1. \A x \in Tests \ {x0} : ranIn'[x] = ranIn[x]
    BY <1>1 DEF Periods
  <2>2. ranIn'[x0] = Period(x0, now)
    BY <1>1, <1>2 DEF Periods
  <2>3. \A x \in Tests \ atRisk' : savedIn'[x] = ranIn'[x]
    BY <1>1, <2>1 DEF Accounted
  <2>4. \A x \in Tests : ranIn'[x] # sentIn'[x] => times'[x] <= losses'[x]
    BY <1>3, <2>1, <2>2 DEF Accounted
  <2>5. QED
    BY <1>3, <2>3, <2>4 DEF Accounted, OncePerPeriod
<1>8. QED
  BY <1>5, <1>6, <1>7

LEMMA ClockStep ==
  ASSUME ScheduleInv, Clock
  PROVE  ScheduleInv'
PROOF
<1>. USE DEF ScheduleInv, ScheduleTyped
<1>1. now' = now + 1 /\ UNCHANGED <<plan, ranIn, savedIn, fileIn, sentIn, times, atRisk, losses>>
  BY DEF Clock, Tick, schedulerVars, savedVars, sentVars
<1>2. ASSUME NEW x \in Tests
      PROVE  /\ ranIn'[x] <= Period(x, now')
             /\ savedIn'[x] <= Period(x, now') /\ fileIn'[x] <= Period(x, now')
  <2>1. /\ Period(x, now) \in Nat /\ Period(x, now + 1) \in Nat
        /\ Period(x, now) <= Period(x, now + 1)
    BY PeriodMonotone
  <2>2. /\ ranIn[x] <= Period(x, now) /\ savedIn[x] <= Period(x, now) /\ fileIn[x] <= Period(x, now)
        /\ ranIn[x] \in Int /\ savedIn[x] \in Int /\ fileIn[x] \in Int
    BY DEF OnRecord, Periods
  <2>3. /\ ranIn[x] <= Period(x, now + 1)
        /\ savedIn[x] <= Period(x, now + 1) /\ fileIn[x] <= Period(x, now + 1)
    BY <2>1, <2>2
  <2>4. QED
    BY <1>1, <2>3
<1>3. QED
  BY <1>1, <1>2 DEF OnRecord, Accounted, OncePerPeriod, Period, Length

LEMMA RestartStep ==
  ASSUME ScheduleInv, UNCHANGED now, NEW fails \in BOOLEAN, SchedulerCrash(fails)
  PROVE  ScheduleInv'
PROOF
<1>. USE DEF ScheduleInv, ScheduleTyped
<1>1. PICK out \in SUBSET (IF plan.step = "fire" THEN {plan.test} ELSE {}) :
        LET lost == IF fails THEN Tests ELSE atRisk \cup out IN
        /\ sentIn' = SentNow(out) /\ times' = TimesNow(out)
        /\ losses' = [x \in Tests |-> LossesNow(out)[x] + (IF x \in lost THEN 1 ELSE 0)]
  BY DEF SchedulerCrash
<1>. DEFINE lost == IF fails THEN Tests ELSE atRisk \cup out
            l == LossesNow(out)
<1>2. /\ SentNow(out) \in Periods /\ TimesNow(out) \in [Tests -> Nat] /\ l \in [Tests -> Nat]
      /\ \A x \in Tests : TimesNow(out)[x] <= 1 + l[x]
      /\ \A x \in Tests \ out : /\ SentNow(out)[x] = sentIn[x]
                                /\ TimesNow(out)[x] = times[x] /\ l[x] = losses[x]
  <2>1. CASE plan.step = "fire"
    BY <1>1, <2>1, GoingOut
  <2>2. CASE plan.step # "fire"
    <3>1. out = {}
      BY <1>1, <2>2
    <3>2. SentNow(out) = sentIn /\ TimesNow(out) = times /\ l = losses
      BY <3>1 DEF SentNow, TimesNow, LossesNow, Periods
    <3>3. QED
      BY <3>2 DEF Accounted, OncePerPeriod
  <2>3. QED
    BY <2>1, <2>2
<1>3. losses' = [x \in Tests |-> l[x] + (IF x \in lost THEN 1 ELSE 0)]
      /\ sentIn' = SentNow(out) /\ times' = TimesNow(out)
  BY <1>1
<1>. HIDE DEF l
<1>4. losses' \in [Tests -> Nat]
  BY <1>2, <1>3
<1>5. /\ ranIn' = IF fails THEN fileIn ELSE savedIn
      /\ savedIn' \in {savedIn, ranIn'} /\ fileIn' = fileIn
      /\ atRisk' = (IF fails THEN Tests ELSE {}) /\ plan' = NoPlan
  BY DEF SchedulerCrash, Load
<1>6. ranIn' \in Periods /\ savedIn' \in Periods /\ fileIn' \in Periods /\ atRisk' \subseteq Tests
  BY <1>5
<1>7. ScheduleTyped'
  BY <1>2, <1>3, <1>4, <1>5, <1>6 DEF NoPlan, Steps, Tests
<1>8. OnRecord'
  <2>1. plan'.step = "plan"
    BY <1>5 DEF NoPlan
  <2>2. \A x \in Tests : /\ ranIn'[x] <= Period(x, now')
                        /\ savedIn'[x] <= Period(x, now') /\ fileIn'[x] <= Period(x, now')
    BY <1>5 DEF OnRecord, Period, Length
  <2>3. QED
    BY <2>1, <2>2 DEF OnRecord, Period, Length
<1>9. ASSUME NEW x \in Tests
      PROVE  times'[x] <= 1 + losses'[x] /\ (ranIn'[x] # sentIn'[x] => times'[x] <= losses'[x])
  <2>1. TimesNow(out)[x] \in Nat /\ l[x] \in Nat /\ TimesNow(out)[x] <= 1 + l[x]
    BY <1>2
  <2>2. CASE x \in lost
    <3>1. losses'[x] = l[x] + 1
      BY <1>3, <2>2
    <3>2. QED
      BY <1>3, <2>1, <3>1
  <2>3. CASE x \notin lost
    <3>1. losses'[x] = l[x]
      BY <1>3, <2>1, <2>3
    <3>2. ~fails /\ x \notin atRisk /\ x \notin out
      BY <2>3
    <3>3. ranIn'[x] = ranIn[x] /\ sentIn'[x] = sentIn[x] /\ times'[x] = times[x] /\ l[x] = losses[x]
      BY <1>2, <1>3, <1>5, <3>2 DEF Accounted
    <3>4. QED
      BY <1>3, <2>1, <3>1, <3>3 DEF Accounted
  <2>4. QED
    BY <2>2, <2>3
<1>10. \A x \in Tests \ atRisk' : savedIn'[x] = ranIn'[x]
  BY <1>5
<1>11. QED
  BY <1>7, <1>8, <1>9, <1>10 DEF Accounted, OncePerPeriod

LEMMA ScheduleInductive == ScheduleInv /\ [Next]_vars => ScheduleInv'
PROOF
<1>. SUFFICES ASSUME ScheduleInv, [Next]_vars PROVE ScheduleInv'
  OBVIOUS
<1>1. ASSUME UNCHANGED <<now, schedulerVars>> PROVE ScheduleInv'
  BY <1>1 DEF schedulerVars, savedVars, sentVars, ScheduleInv, ScheduleTyped, OnRecord, Accounted,
     OncePerPeriod, Period, Length
<1>2. ASSUME NEW k \in Keys, Command(k) \/ CarryOut(k) \/ Refuse(k) PROVE ScheduleInv'
  BY <1>1, <1>2 DEF Command, CarryOut, Refuse, Others
<1>3. CASE Alert \/ GetStatus \/ UNCHANGED vars
  BY <1>1, <1>3 DEF Alert, GetStatus, vars
<1>4. CASE Schedule
  BY <1>4, PlanStep, AttemptStep, FiredStep DEF Schedule
<1>5. CASE Clock
  BY <1>5, ClockStep
<1>6. CASE Crash
  BY <1>6, RestartStep DEF Crash
<1>7. QED
  BY <1>2, <1>3, <1>4, <1>5, <1>6 DEF Next

(* However alerts and commands postpone it, across the periods it is       *)
(* postponed into and however often the process ends: a test goes out once *)
(* in each period, and once more for each time its record was lost, in any *)
(* calendar and under any policy.                                          *)
THEOREM TestsOncePerPeriod == Spec => []OncePerPeriod
PROOF
<1>1. Init => ScheduleInv
  <2>1. Init => /\ now = 0 /\ plan = NoPlan
                /\ ranIn = NoPeriods /\ savedIn = NoPeriods /\ fileIn = NoPeriods
                /\ sentIn = NoPeriods /\ times = [x \in Tests |-> 0]
                /\ atRisk = {} /\ losses = [x \in Tests |-> 0]
    BY DEF Init, SchedulerInit
  <2>2. \A x \in Tests : Never <= Period(x, 0)
    BY PeriodMonotone DEF Never
  <2>3. QED
    BY <2>1, <2>2 DEF ScheduleInv, ScheduleTyped, OnRecord, Accounted, OncePerPeriod, Periods,
       NoPeriods, NoPlan, Never, Steps, Tests
<1>2. ScheduleInv => OncePerPeriod
  BY DEF ScheduleInv, Accounted
<1>3. QED
  BY <1>1, <1>2, ScheduleInductive, PTL DEF Spec

-------------------------------------------------------------------------------
(* The mode.                                                               *)

(* Every time that an alert or a command sets reaches as far as it is owed *)
(* (an alert that took long to render is not older than a rendering), and  *)
(* the mode follows it as long as it is ahead.                             *)
ModeInv ==
  /\ does \in [Keys -> Purposes]
  /\ now \in Nat /\ heightenedUntil \in Int /\ owed \in Int
  /\ airing \in [Pollers -> Int]
  /\ \A p \in Pollers : airing[p] # Never => now - airing[p] <= Rendering
  /\ owed <= heightenedUntil \/ owed <= now
  /\ heightenedUntil # Never /\ now < heightenedUntil => mode = "heightened"

(* The variables of the invariant.                                         *)
modeInvVars == <<does, now, mode, heightenedUntil, airing, owed>>

LEMMA HeightenStep ==
  ASSUME ModeInv, NEW until \in Int, NEW keep \in Int, keep <= until \/ keep <= now,
         Heighten(until, keep), UNCHANGED <<does, now>>,
         airing' = airing \/ \E p \in Pollers : airing' = [airing EXCEPT ![p] = Never]
  PROVE  ModeInv'
PROOF
<1>1. /\ airing' \in [Pollers -> Int]
      /\ \A p \in Pollers : airing'[p] # Never => now' - airing'[p] <= Rendering
  BY DEF ModeInv, Never
<1>2. QED
  BY <1>1 DEF ModeInv, Heighten, ModeAt

LEMMA ModeInductive == ModeInv /\ [Next]_vars => ModeInv'
PROOF
<1>. SUFFICES ASSUME ModeInv, [Next]_vars PROVE ModeInv'
  OBVIOUS
<1>1. ASSUME UNCHANGED modeInvVars PROVE ModeInv'
  BY <1>1 DEF modeInvVars, ModeInv
<1>2. /\ Heightened \in Nat /\ Rendering \in Nat /\ HeightenFor \in Nat /\ Never \in Int
      /\ now \in Nat /\ LeastUntil \in Int
  BY ScheduleAssumption, HeightenForAssumption DEF ModeInv, LeastUntil, Never
<1>3. ASSUME ToneoutNow, UNCHANGED <<does, now>> PROVE ModeInv'
  <2>1. Heighten(now + Heightened, LeastUntil) /\ airing' = airing
    BY <1>3 DEF ToneoutNow
  <2>2. LeastUntil <= now + Heightened /\ now + Heightened \in Int
    BY <1>2 DEF LeastUntil
  <2>3. QED
    BY <1>2, <1>3, <2>1, <2>2, HeightenStep
<1>4. ASSUME NEW k \in Keys, Command(k) \/ Refuse(k) PROVE ModeInv'
  BY <1>1, <1>4 DEF Command, Refuse, Others, modeVars, modeInvVars
<1>5. ASSUME NEW k \in Keys, CarryOut(k) PROVE ModeInv'
  <2>1. Effect(k) /\ UNCHANGED <<does, now>> /\ does[k] \in Purposes
    BY <1>5 DEF CarryOut, ModeInv
  <2>2. \/ UNCHANGED modeVars \/ SetHeightened(HeightenFor) \/ ClearHeightened \/ ToneoutNow
    BY <2>1 DEF Effect, Purposes
  <2>3. CASE UNCHANGED modeVars
    BY <1>1, <2>1, <2>3 DEF modeVars, modeInvVars
  <2>4. CASE SetHeightened(HeightenFor)
    <3>1. Heighten(now + HeightenFor, now + HeightenFor) /\ airing' = airing
      BY <2>4 DEF SetHeightened
    <3>2. now + HeightenFor \in Int
      BY <1>2
    <3>3. QED
      BY <2>1, <3>1, <3>2, HeightenStep
  <2>5. CASE ClearHeightened
    <3>1. Heighten(Never, Never) /\ airing' = airing
      BY <2>5 DEF ClearHeightened
    <3>2. QED
      BY <1>2, <2>1, <3>1, HeightenStep
  <2>6. QED
    BY <1>3, <2>1, <2>2, <2>3, <2>4, <2>5
<1>6. CASE Alert
  <2>1. UNCHANGED <<does, now>>
    BY <1>6 DEF Alert
  <2>2. CASE Toneout
    BY <1>3, <2>1, <2>2 DEF Toneout
  <2>3. CASE HeardTone
    BY <1>1, <2>1, <2>3 DEF HeardTone, modeInvVars
  <2>4. ASSUME NEW p \in Pollers, Aired(p) PROVE ModeInv'
    <3>1. /\ airing[p] # Never /\ airing' = [airing EXCEPT ![p] = Never]
          /\ Heighten(airing[p] + Heightened, LeastUntil)
      BY <2>4 DEF Aired
    <3>2. airing[p] \in Int /\ now - airing[p] <= Rendering
      BY <3>1 DEF ModeInv
    <3>3. airing[p] + Heightened \in Int /\ LeastUntil <= airing[p] + Heightened
      BY <1>2, <3>2 DEF LeastUntil
    <3>4. QED
      BY <1>2, <2>1, <3>1, <3>3, HeightenStep
  <2>5. ASSUME NEW p \in Pollers, Unaired(p) PROVE ModeInv'
    BY <1>2, <2>1, <2>5 DEF Unaired, ModeInv
  <2>6. ASSUME NEW p \in Pollers, NEW severe \in BOOLEAN, NEW full \in BOOLEAN,
               Match(p, severe, full)
        PROVE  ModeInv'
    <3>1. /\ UNCHANGED <<does, now, mode, heightenedUntil, owed>>
          /\ airing' = airing \/ airing' = [airing EXCEPT ![p] = now]
      BY <2>1, <2>6 DEF Match
    <3>2. /\ airing' \in [Pollers -> Int]
          /\ \A q \in Pollers : airing'[q] # Never => now - airing'[q] <= Rendering
      BY <1>2, <3>1 DEF ModeInv
    <3>3. QED
      BY <3>1, <3>2 DEF ModeInv
  <2>7. QED
    BY <1>6, <2>2, <2>3, <2>4, <2>5, <2>6 DEF Alert
<1>7. CASE GetStatus
  BY <1>7 DEF GetStatus, UpdateMode, ModeAt, ModeInv
<1>8. CASE Schedule \/ UNCHANGED vars
  BY <1>1, <1>8 DEF Schedule, vars, modeVars, modeInvVars
<1>9. CASE Clock
  <2>1. /\ now' = now + 1 /\ UNCHANGED <<does, mode, heightenedUntil, airing, owed>>
        /\ \A p \in Pollers : Recent(airing[p], Rendering) \/ airing[p] = Never
    BY <1>9 DEF Clock, Tick, modeVars
  <2>2. ASSUME NEW p \in Pollers, airing[p] # Never PROVE now + 1 - airing[p] <= Rendering
    <3>1. now - airing[p] < Rendering /\ airing[p] \in Int
      BY <2>1, <2>2 DEF Recent, ModeInv
    <3>2. QED
      BY <1>2, <3>1
  <2>3. QED
    BY <2>1, <2>2 DEF ModeInv
<1>10. CASE Crash
  <2>1. /\ UNCHANGED <<does, now>> /\ heightenedUntil' = Never /\ owed' = Never
        /\ airing' = [p \in Pollers |-> Never]
    BY <1>10 DEF Crash, SchedulerCrash
  <2>2. QED
    BY <2>1 DEF ModeInv, Never
<1>11. QED
  BY <1>4, <1>5, <1>6, <1>7, <1>8, <1>9, <1>10 DEF Next

(* Whatever alerts air after it, with times read before or after their     *)
(* rendering, and whatever the clients ask: an alert keeps the mode        *)
(* heightened and the tests that heed it off the air for as long as it is  *)
(* owed, unless a command or the end of the process ends it.               *)
THEOREM StaysHeightened == Spec => []HeightenedWhileOwed
PROOF
<1>1. Init => ModeInv
  BY DEF Init, SchedulerInit, ModeInv, Never
<1>2. ModeInv => HeightenedWhileOwed
  <2>. SUFFICES ASSUME ModeInv, now < owed
                PROVE  mode = "heightened" /\ \A x \in BlockHeightened : ~GateOpen(x)
    BY DEF HeightenedWhileOwed
  <2>1. now < heightenedUntil /\ heightenedUntil # Never
    BY DEF ModeInv, Never
  <2>2. QED
    BY <2>1 DEF ModeInv, GateOpen
<1>3. QED
  BY <1>1, <1>2, ModeInductive, PTL DEF Spec

===============================================================================
