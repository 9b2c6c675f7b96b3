------------------------------ MODULE HealthState ------------------------------
(***************************************************************************)
(* The health of the station's sources (health_state.py): consumers mark   *)
(* successes and failures, probes are run one after the other, and an      *)
(* evaluation turns both into the mode that the cycle speaks of, which is  *)
(* held for a while before the station says it is well again.              *)
(*                                                                         *)
(* Time passes in units; ages are counted as far as they matter.  What is  *)
(* spoken in a mode is left out.                                           *)
(***************************************************************************)
EXTENDS Integers, FiniteSets

CONSTANTS
  Sources,    \* the sources that are configured and not disabled
  Role,       \* of each: "alert", "alert_redundant", "forecast", "observation", "general"
  Critical,   \* the sources that are critical
  Probed,     \* the sources with a probe
  StaleAfter, \* stale_after_seconds of each, in units
  Threshold,  \* failure_threshold of each
  MinHold,    \* min_hold_seconds, in units
  Interval    \* bound: units from one evaluation to the next, probes included

ASSUME HealthAssumption ==
  /\ IsFiniteSet(Sources) /\ Critical \subseteq Sources /\ Probed \subseteq Sources
  /\ Role \in [Sources -> {"alert", "alert_redundant", "forecast", "observation", "general"}]
  /\ StaleAfter \in [Sources -> Nat \ {0}] /\ Threshold \in [Sources -> Nat \ {0}]
  /\ MinHold \in Nat /\ Interval \in Nat \ {0}

VARIABLES
  age,      \* of each source: time since its last success, or since the start
  fails,    \* consecutive_failures
  unprobed, \* the sources that this round has still to probe
  health,   \* _mode
  held,     \* time since _mode_since
  reasons,  \* the sources that the last snapshot names
  waited,   \* time since the last evaluation
  well      \* history: time since an evaluation found a source impaired

healthVars == <<age, fails, unprobed, health, held, reasons, waited, well>>

HealthInit ==
  /\ age = [s \in Sources |-> 0] /\ fails = [s \in Sources |-> 0]
  /\ unprobed = Probed /\ health = "normal" /\ held = 0 /\ reasons = {}
  /\ waited = 0 /\ well = 0

\* mark_failure; a count beyond the threshold is of no account.
MarkFailure(s) ==
  /\ fails' = [fails EXCEPT ![s] = IF @ < Threshold[s] THEN @ + 1 ELSE @]
  /\ UNCHANGED age

MarkSuccess(s) ==
  /\ age' = [age EXCEPT ![s] = 0]
  /\ fails' = [fails EXCEPT ![s] = 0]

\* A consumer hears of its source.
Heard(s) ==
  /\ MarkSuccess(s)
  /\ UNCHANGED <<unprobed, health, held, reasons, waited, well>>

\* _run_probe_once, in run_forever.
Probe(s) ==
  /\ s \in unprobed
  /\ MarkSuccess(s) \/ MarkFailure(s)
  /\ unprobed' = unprobed \ {s}
  /\ UNCHANGED <<health, held, reasons, waited, well>>

\* _impaired_sources.
Impaired == {s \in Sources : age[s] > StaleAfter[s] \/ fails[s] >= Threshold[s]}

Alerting == {s \in Sources : Role[s] \in {"alert", "alert_redundant"}}

\* Mutated form: the loss of the primary source hides that of the others.
ModeOfPrimary(impaired) ==
  IF impaired = {} THEN "normal"
  ELSE IF \E s \in impaired : Role[s] = "alert" \/ s \in Critical THEN "critical_degraded"
  ELSE IF Alerting # {} /\ Alerting \subseteq impaired THEN "detached"
  ELSE "degraded"

\* _compute_mode.
ModeOf(impaired) ==
  CASE impaired = {} -> "normal"
    [] Alerting # {} /\ Alerting \subseteq impaired -> "detached"
    [] OTHER ->
         IF \E s \in impaired : Role[s] = "alert" \/ s \in Critical THEN "critical_degraded"
         ELSE IF impaired \cap Alerting = {} THEN "degraded"
         ELSE IF \E s \in impaired : Role[s] \in {"forecast", "observation"} THEN "degraded"
         ELSE "source_impaired"

\* Mutated form: the hold starts anew with every evaluation.
HoldAnew(mode) == held' = IF mode = "normal" THEN held ELSE 0

\* The time of the last change.
HoldOn(mode) == held' = IF mode = health THEN held ELSE 0

\* evaluate: a change to normal waits until the last change is MinHold ago.
Evaluate ==
  /\ unprobed = {} /\ waited > 0
  /\ LET impaired == Impaired
         holds    == impaired = {} /\ health # "normal" /\ held < MinHold
         mode     == IF holds THEN health ELSE ModeOf(impaired)
     IN  /\ health' = mode
         /\ HoldOn(mode)
         /\ reasons' = IF holds THEN reasons ELSE impaired
         /\ well' = IF impaired = {} THEN well ELSE 0
  /\ waited' = 0 /\ unprobed' = Probed
  /\ UNCHANGED <<age, fails>>

\* Time passes; the round comes to its evaluation in time.
HealthTick ==
  /\ waited < Interval
  /\ waited' = waited + 1
  /\ age' = [s \in Sources |-> IF age[s] <= StaleAfter[s] + Interval THEN age[s] + 1 ELSE age[s]]
  /\ held' = IF held < MinHold THEN held + 1 ELSE held
  /\ well' = IF health = "normal" THEN 0 ELSE well + 1
  /\ UNCHANGED <<fails, unprobed, health, reasons>>

HealthNext == (\E s \in Sources : Heard(s) \/ Probe(s)) \/ Evaluate \/ HealthTick

HealthSpec == HealthInit /\ [][HealthNext]_healthVars
-------------------------------------------------------------------------------
(* Properties                                                              *)

Modes == {"normal", "source_impaired", "degraded", "critical_degraded", "detached"}

\* The variables have their types; what is not well has its reasons.
HealthTypeOK ==
  /\ \A s \in Sources : /\ age[s] \in 0 .. StaleAfter[s] + Interval + 1
                        /\ fails[s] \in 0 .. Threshold[s]
  /\ unprobed \subseteq Probed /\ health \in Modes /\ held \in 0 .. MinHold
  /\ reasons \subseteq Sources /\ (reasons = {}) = (health = "normal")
  /\ waited \in 0 .. Interval /\ well \in Nat

\* The station never says it is well, or less unwell than it is, for longer
\* than a round while a source keeps silent: one that nobody heard of since
\* before the last evaluation shows in the mode, and it is cut off when all
\* that carry alerts are silent, whatever failures and recoveries come between.
SilenceShows ==
  LET silent == {s \in Sources : age[s] > StaleAfter[s] + Interval}
  IN  /\ silent # {} => health # "normal" /\ silent \subseteq reasons
      /\ Alerting # {} /\ Alerting \subseteq silent => health = "detached"

\* Hysteresis ends: the station says it is well again at most a hold and a
\* round after its sources have recovered for good.
HoldEnds == well <= MinHold + Interval

HealthHonest == SilenceShows /\ HoldEnds
===============================================================================
